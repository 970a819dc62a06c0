------------------------ MODULE MeasurementServerProofs ------------------------
(***************************************************************************)
(* Proofs about MeasurementServer for any clients, databases and sessions: *)
(* the life of a database; what a handler makes of its client's lines; and *)
(* what the databases hold of the sessions: rows are in the table of their *)
(* schema, sender identifiers tell who sent them, timestamps have one      *)
(* base, and a crash loses the last measurements of a connection, never    *)
(* one in between.                                                         *)
(***************************************************************************)
EXTENDS MeasurementServer, ListProofs

-----------------------------------------------------------------------------
(* Type correctness.                                                       *)

HandlerShape(h) ==
  /\ DOMAIN h = DOMAIN NoHandler
  /\ h.state \in {"none", "C_HEADER", "C_TEXT_DATA", "C_BINARY_DATA", "C_PROTOCOL_ERROR"}
  /\ h.content \in {"C_TEXT_DATA", "C_BINARY_DATA"}
  /\ h.mbuf \in Seq(Messages) /\ h.received \in Nat
  /\ h.database \in Domains \cup {NoDatabase}
  /\ h.is_active \in {0, 1}

(* A handler exists as long as its connection, and during its callbacks.   *)
ConnectionOK(c) ==
  /\ (handler[c].state = "none") = (link[c] = "none")
  /\ (handler[c].state = "none") = (session[c] = NoSession)
  /\ handler[c].state = "none" => handler[c] = NoHandler /\ sock[c] = << >>
  /\ current = c /\ phase \in {"read", "last"} => handler[c].state # "none"

(* What is buffered, and then what the socket holds, is what follows in    *)
(* the session.                                                            *)
BufferOK(c) ==
  handler[c].state # "none" =>
    /\ Len(handler[c].mbuf) <= handler[c].received
    /\ handler[c].received + Len(sock[c]) <= Len(Script[session[c]])
    /\ \A k \in 1..Len(handler[c].mbuf) :
         handler[c].mbuf[k] = Script[session[c]][Done(c) + k]
    /\ \A k \in 1..Len(sock[c]) :
         sock[c][k] = Script[session[c]][handler[c].received + k]

NetOK ==
  /\ link \in [Clients -> {"none", "open", "closed", "reset"}]
  /\ sock \in [Clients -> Seq(Messages)]
  /\ session \in [Clients -> DOMAIN Script \cup {NoSession}]
  /\ connections \in [Clients -> 0..MaxConnections]

LoopOK ==
  /\ server \in {"up", "stopping", "down"}
  /\ phase \in {"poll", "read", "drain", "last"}
  /\ current \in Clients \cup {NoClient}
  /\ (phase = "poll") = (current = NoClient)
  /\ restarts \in 0..MaxRestarts

RowOK(r) ==
  /\ r.client \in Clients \X (0..MaxConnections)
  /\ r.session \in DOMAIN Script /\ r.at \in DOMAIN Script[r.session]

DatabaseOK(d) ==
  /\ DOMAIN db[d] = DOMAIN Closed
  /\ db[d].ref_count \in Int /\ db[d].overdue \in {0, 1}

ContentOK(s) == DOMAIN s = DOMAIN Empty /\ \A r \in s.rows : RowOK(r)

StorageOK ==
  /\ DOMAIN db = Domains /\ DOMAIN work = Domains /\ DOMAIN stored = Domains
  /\ \A d \in Domains : DatabaseOK(d) /\ ContentOK(work[d]) /\ ContentOK(stored[d])

HandlersOK ==
  /\ DOMAIN handler = Clients
  /\ \A c \in Clients : HandlerShape(handler[c]) /\ ConnectionOK(c) /\ BufferOK(c)

(* TypeOK is the types of its parts: the loop, the network, the handlers   *)
(* and the storage.                                                        *)
LEMMA TypeParts ==
  TypeOK <=> LoopOK /\ NetOK /\ HandlersOK /\ StorageOK
<1>1. StorageOK <=>
        /\ DOMAIN db = Domains /\ DOMAIN work = Domains /\ DOMAIN stored = Domains
        /\ \A d \in Domains :
             /\ DOMAIN db[d] = DOMAIN Closed
             /\ DOMAIN work[d] = DOMAIN Empty /\ DOMAIN stored[d] = DOMAIN Empty
             /\ db[d].ref_count \in Int /\ db[d].overdue \in {0, 1}
             /\ \A r \in work[d].rows \cup stored[d].rows :
                  /\ r.client \in Clients \X (0..MaxConnections)
                  /\ r.session \in DOMAIN Script /\ r.at \in DOMAIN Script[r.session]
  BY Zenon DEF StorageOK, DatabaseOK, ContentOK, RowOK
<1>2. HandlersOK <=>
        /\ DOMAIN handler = Clients
        /\ \A c \in Clients :
             /\ DOMAIN handler[c] = DOMAIN NoHandler
             /\ handler[c].state \in
                  {"none", "C_HEADER", "C_TEXT_DATA", "C_BINARY_DATA", "C_PROTOCOL_ERROR"}
             /\ handler[c].content \in {"C_TEXT_DATA", "C_BINARY_DATA"}
             /\ handler[c].mbuf \in Seq(Messages) /\ handler[c].received \in Nat
             /\ handler[c].database \in Domains \cup {NoDatabase}
             /\ handler[c].is_active \in {0, 1}
             /\ (handler[c].state = "none") = (link[c] = "none")
             /\ (handler[c].state = "none") = (session[c] = NoSession)
             /\ handler[c].state = "none" => handler[c] = NoHandler /\ sock[c] = << >>
             /\ current = c /\ phase \in {"read", "last"} => handler[c].state # "none"
             /\ handler[c].state # "none" =>
                  /\ Len(handler[c].mbuf) <= handler[c].received
                  /\ handler[c].received + Len(sock[c]) <= Len(Script[session[c]])
                  /\ \A k \in 1..Len(handler[c].mbuf) :
                       handler[c].mbuf[k] = Script[session[c]][Done(c) + k]
                  /\ \A k \in 1..Len(sock[c]) :
                       sock[c][k] = Script[session[c]][handler[c].received + k]
  BY Zenon DEF HandlersOK, HandlerShape, ConnectionOK, BufferOK
<1> QED
  BY <1>1, <1>2, Zenon DEF TypeOK, LoopOK, NetOK

(* The same after a step.                                                  *)
LEMMA TypePartsAfter ==
  LoopOK' /\ NetOK' /\ HandlersOK' /\ StorageOK' => TypeOK'
BY TypeParts, PTL

(* A queue m of the elements of a stream s that end at the got-th, without *)
(* its first element.                                                      *)
LEMMA Dequeued ==
  ASSUME NEW s \in Seq(Messages), NEW m \in Seq(Messages), m # << >>, NEW got \in Nat, Len(m) <= got,
         \A k \in 1..Len(m) : m[k] = s[got - Len(m) + k]
  PROVE  /\ Len(Tail(m)) <= got
         /\ got - Len(Tail(m)) = got - Len(m) + 1
         /\ \A k \in 1..Len(Tail(m)) : Tail(m)[k] = s[got - Len(Tail(m)) + k]
<1>1. /\ Len(m) \in Nat \ {0} /\ Len(Tail(m)) = Len(m) - 1
      /\ \A k \in 1..Len(Tail(m)) : Tail(m)[k] = m[k + 1]
  BY HeadTailProperties, LenProperties, EmptySeq
<1>2. ASSUME NEW k \in 1..Len(Tail(m))
      PROVE  Tail(m)[k] = s[got - Len(Tail(m)) + k]
  <2>1. k + 1 \in 1..Len(m) /\ got - Len(Tail(m)) + k = got - Len(m) + (k + 1)
    BY <1>1
  <2> QED
    BY <1>1, <2>1
<1> QED
  BY <1>1, <1>2

(* The same queue, with the first n of the elements q that follow.         *)
LEMMA Enqueued ==
  ASSUME NEW s \in Seq(Messages), NEW m \in Seq(Messages), NEW q \in Seq(Messages), NEW got \in Nat,
         NEW n \in 1..Len(q),
         Len(m) <= got,
         \A k \in 1..Len(m) : m[k] = s[got - Len(m) + k],
         \A k \in 1..Len(q) : q[k] = s[got + k]
  PROVE  LET all == m \o SubSeq(q, 1, n)
             rest == SubSeq(q, n + 1, Len(q))
         IN  /\ all \in Seq(Messages) /\ rest \in Seq(Messages) /\ n \in Nat
             /\ Len(all) = Len(m) + n /\ Len(rest) = Len(q) - n
             /\ Len(all) <= got + n
             /\ \A k \in 1..Len(all) : all[k] = s[(got + n) - Len(all) + k]
             /\ \A k \in 1..Len(rest) : rest[k] = s[(got + n) + k]
<1> DEFINE first == SubSeq(q, 1, n)
           rest == SubSeq(q, n + 1, Len(q))
           all == m \o first
<1>1. Len(m) \in Nat /\ Len(q) \in Nat /\ n \in Nat \ {0} /\ n <= Len(q)
  BY LenProperties
<1>2. /\ first \in Seq(Messages) /\ Len(first) = n /\ \A k \in 1..n : first[k] = q[k]
  <2>1. \A k \in 1..n : q[k] \in Messages
    BY <1>1, ElementOfSeq
  <2> QED
    BY <1>1, <2>1, SubSeqProperties
<1>3. /\ rest \in Seq(Messages) /\ Len(rest) = Len(q) - n
      /\ \A k \in 1..(Len(q) - n) : rest[k] = q[n + k]
  <2>1. \A k \in (n + 1)..Len(q) : q[k] \in Messages
    BY <1>1, ElementOfSeq
  <2>2. n + 1 \in Int /\ Len(q) \in Int
    BY <1>1
  <2>3. /\ rest \in Seq(Messages)
        /\ Len(rest) = IF n + 1 <= Len(q) THEN Len(q) - (n + 1) + 1 ELSE 0
        /\ \A k \in 1..(Len(q) - (n + 1) + 1) : rest[k] = q[(n + 1) + k - 1]
    BY <2>1, <2>2, SubSeqProperties
  <2> HIDE DEF rest
  <2> QED
    BY <1>1, <2>3
<1> HIDE DEF first, rest
<1>4. /\ all \in Seq(Messages) /\ Len(all) = Len(m) + n
      /\ \A k \in 1..(Len(m) + n) : all[k] = IF k <= Len(m) THEN m[k] ELSE first[k - Len(m)]
  BY <1>2, ConcatProperties
<1> HIDE DEF all
<1>5. ASSUME NEW k \in 1..Len(all)
      PROVE  all[k] = s[(got + n) - Len(all) + k]
  <2>1. k \in 1..(Len(m) + n) /\ (got + n) - Len(all) + k = got - Len(m) + k
    BY <1>1, <1>4
  <2>2. CASE k <= Len(m)
    <3>1. k \in 1..Len(m)
      BY <1>1, <2>1, <2>2
    <3>2. all[k] = m[k]
      BY <1>4, <2>1, <2>2
    <3>3. m[k] = s[got - Len(m) + k]
      BY <3>1
    <3> QED
      BY <2>1, <3>2, <3>3
  <2>3. CASE ~(k <= Len(m))
    <3>1. k - Len(m) \in 1..n /\ k - Len(m) \in 1..Len(q) /\ got + (k - Len(m)) = got - Len(m) + k
      BY <1>1, <2>1, <2>3
    <3>2. all[k] = first[k - Len(m)]
      BY <1>4, <2>1, <2>3
    <3>3. first[k - Len(m)] = q[k - Len(m)]
      BY <1>2, <3>1
    <3>4. q[k - Len(m)] = s[got + (k - Len(m))]
      BY <3>1
    <3> QED
      BY <2>1, <3>1, <3>2, <3>3, <3>4
  <2> QED
    BY <2>2, <2>3
<1>6. ASSUME NEW k \in 1..Len(rest)
      PROVE  rest[k] = s[(got + n) + k]
  <2>1. k \in 1..(Len(q) - n) /\ n + k \in 1..Len(q) /\ got + (n + k) = (got + n) + k
    BY <1>1, <1>3
  <2> QED
    BY <1>3, <2>1
<1> QED
  BY <1>1, <1>3, <1>4, <1>5, <1>6, SMTT(40) DEF all, first, rest

(* What the steps do to databases.                                         *)
LEMMA ReleaseType ==
  ASSUME StorageOK, NEW d \in Domains \cup {NoDatabase}, Release(d)
  PROVE  StorageOK'
<1>1. CASE d = NoDatabase
  BY <1>1 DEF Release, storage, StorageOK, DatabaseOK, ContentOK, RowOK
<1>2. CASE d \in Domains /\ Close(d)
  <2>1. /\ DOMAIN db' = Domains /\ work' = work /\ DOMAIN stored' = Domains
        /\ \A x \in Domains : /\ db'[x] = IF x = d THEN Closed ELSE db[x]
                              /\ stored'[x] = IF x = d THEN work[d] ELSE stored[x]
    BY <1>2 DEF Close, StorageOK
  <2>2. DOMAIN Closed = DOMAIN Closed /\ Closed.ref_count \in Int /\ Closed.overdue \in {0, 1}
    BY DEF Closed
  <2> QED
    BY <1>2, <2>1, <2>2 DEF StorageOK, DatabaseOK, ContentOK, RowOK
<1>3. CASE d \in Domains /\ db' = [db EXCEPT ![d].ref_count = @ - 1] /\ UNCHANGED <<work, stored>>
  <2>1. DOMAIN Closed = {"ref_count", "start_time", "first_table", "sender_cnt", "overdue"}
    BY DEF Closed
  <2>2. \A x \in Domains : DatabaseOK(x)'
    BY <1>3, <2>1 DEF StorageOK, DatabaseOK
  <2> QED
    BY <1>3, <2>2 DEF StorageOK, ContentOK, RowOK
<1> QED
  BY <1>1, <1>2, <1>3 DEF Release, LastClient

(* Opening a database, or finding it open, keeps the types of the storage. *)
LEMMA FindDatabaseType ==
  ASSUME StorageOK, NEW d \in Domains, FindDatabase(d)
  PROVE  StorageOK'
<1>0. /\ DOMAIN Closed = {"ref_count", "start_time", "first_table", "sender_cnt", "overdue"}
      /\ DOMAIN Empty = {"tables", "metadata", "senders", "start_time", "rows"}
  BY DEF Closed, Empty
<1>1. CASE db' = [db EXCEPT ![d].ref_count = @ + 1] /\ UNCHANGED work
  BY <1>0, <1>1 DEF FindDatabase, StorageOK, DatabaseOK, ContentOK, RowOK
<1>2. CASE db[d].ref_count <= 0
  <2> DEFINE s == WithMetaTable(stored[d])
  <2>1. /\ work' = [work EXCEPT ![d] = s]
        /\ db' = [db EXCEPT ![d] = [Closed EXCEPT !.ref_count = 1, !.start_time = s.start_time,
                                                 !.first_table = LoadTables(s)]]
        /\ UNCHANGED stored
    BY <1>2 DEF FindDatabase, StorageOK, DatabaseOK
  <2>2. DOMAIN s = DOMAIN Empty /\ s.rows = stored[d].rows
    BY <1>0 DEF StorageOK, ContentOK, WithMetaTable
  <2> HIDE DEF s
  <2>3. \A x \in Domains : /\ work'[x] = IF x = d THEN s ELSE work[x]
                           /\ x # d => db'[x] = db[x]
                           /\ db'[d].ref_count = 1 /\ db'[d].overdue = 0
                           /\ DOMAIN db'[d] = DOMAIN Closed
    BY <1>0, <2>1 DEF StorageOK, Closed
  <2> QED
    BY <2>1, <2>2, <2>3 DEF StorageOK, DatabaseOK, ContentOK, RowOK
<1> QED
  BY <1>1, <1>2 DEF FindDatabase, StorageOK, DatabaseOK

(* Content and the database of it change in fields that have no type.      *)
LEMMA UntypedType ==
  ASSUME StorageOK, NEW d \in Domains,
         DOMAIN db' = Domains, DOMAIN work' = Domains, UNCHANGED stored,
         \A x \in Domains \ {d} : db'[x] = db[x] /\ work'[x] = work[x],
         DOMAIN db'[d] = DOMAIN db[d], DOMAIN work'[d] = DOMAIN work[d],
         db'[d].ref_count = db[d].ref_count, db'[d].overdue = db[d].overdue,
         work'[d].rows = work[d].rows
  PROVE  StorageOK'
BY DEF StorageOK, DatabaseOK, ContentOK, RowOK

(* Storing a row, with the commit that may precede it, keeps the types of  *)
(* the storage.                                                            *)
LEMMA InsertType ==
  ASSUME StorageOK, NEW d, NEW e, NEW row, RowOK(row),
         db' = [db EXCEPT ![d].overdue = 0],
         \/ stored' = stored
         \/ stored' = [stored EXCEPT ![d] = work[d]],
         \/ work' = [work EXCEPT ![e].rows = @ \cup {row}]
         \/ work' = work
  PROVE  StorageOK'
<1>0. /\ DOMAIN Closed = {"ref_count", "start_time", "first_table", "sender_cnt", "overdue"}
      /\ DOMAIN Empty = {"tables", "metadata", "senders", "start_time", "rows"}
  BY DEF Closed, Empty
<1>1. DOMAIN db' = Domains /\ \A x \in Domains : DatabaseOK(x)'
  BY <1>0 DEF StorageOK, DatabaseOK
<1>2. DOMAIN work' = Domains /\ \A x \in Domains : ContentOK(work'[x])
  <2>1. CASE work' = work
    BY <2>1 DEF StorageOK
  <2>2. CASE work' = [work EXCEPT ![e].rows = @ \cup {row}]
    <3>1. \A x \in Domains :
            DOMAIN work'[x] = DOMAIN work[x]
            /\ work'[x].rows = IF x = e THEN work[e].rows \cup {row} ELSE work[x].rows
      BY <1>0, <2>2 DEF StorageOK, ContentOK
    <3> QED
      BY <2>2, <3>1 DEF StorageOK, ContentOK
  <2> QED
    BY <2>1, <2>2
<1>3. DOMAIN stored' = Domains /\ \A x \in Domains : ContentOK(stored'[x])
  BY DEF StorageOK
<1> QED
  BY <1>1, <1>2, <1>3 DEF StorageOK, ContentOK, RowOK
-----------------------------------------------------------------------------
(* Callbacks, message by message.                                          *)

Live(c) == handler[c].state \in {"C_HEADER", "C_TEXT_DATA", "C_BINARY_DATA"}

InHeader(c) == handler[c].state = "C_HEADER"

(* The table that a row of stream 0 goes to.                               *)
Table0(c) ==
  IF handler[c].tables[0] = NoTable THEN <<handler[c].database, MetaTable>>
  ELSE handler[c].tables[0]

(* The handler with the message consumed and, for a row of stream 0, its   *)
(* table looked up.                                                        *)
Prepared(c, h) ==
  \/ h = Consumed(c)
  \/ 0 \in DOMAIN handler[c].tables /\ h = WithStream(Consumed(c), 0, Table0(c))

(* The row has a stream whose table takes as many values.                  *)
Accepted(c, m) ==
  LET tables == handler[c].tables IN
  /\ m[2] \in DOMAIN tables /\ tables[m[2]] # NoTable
  /\ Len(db[tables[m[2]][1]].first_table[tables[m[2]][2]]) = m[3]

(* A message that leaves no trace.                                         *)
Passes(c, h) ==
  /\ Becomes(c, h) /\ UNCHANGED storage
  /\ IF InHeader(c) THEN Message(c)[1] \in {"key", "note"}
     ELSE /\ Message(c)[1] = "row" => ~Accepted(c, Message(c))
          /\ Message(c)[1] = "meta" /\ Message(c)[2][1] = "schema" => 0 \notin DOMAIN handler[c].tables

SetsContent(c, h) ==
  /\ InHeader(c) /\ Message(c)[1] = "content"
  /\ Becomes(c, [h EXCEPT !.content = Message(c)[2]]) /\ UNCHANGED storage

EndsHeader(c, h) ==
  /\ InHeader(c) /\ Message(c)[1] = "end"
  /\ Becomes(c, [h EXCEPT !.state = h.content]) /\ UNCHANGED storage

SetsDomain(c, h) == InHeader(c) /\ Message(c)[1] = "domain" /\ MetaDomain(c, h, Message(c)[2])

SetsStartTime(c, h) ==
  InHeader(c) /\ Message(c)[1] = "start-time" /\ MetaStartTime(c, h, Message(c)[2])

SetsSenderId(c, h) ==
  InHeader(c) /\ Message(c)[1] = "sender-id" /\ MetaSenderId(c, h, Message(c)[2])

SetsSchema(c, h) ==
  LET line == HeaderLine(Message(c)) IN
  /\ line[1] = "schema"
  /\ (Message(c)[1] = "meta") = ~InHeader(c)
  /\ ProcessSchema(c, h, line[2], line[3], line[4])

InsertsRow(c, h) ==
  /\ ~InHeader(c)
  /\ Message(c)[1] = "row" /\ Accepted(c, Message(c))
  /\ Insert(c, h, handler[c].tables[Message(c)[2]])

InsertsMeta(c, h) ==
  /\ ~InHeader(c)
  /\ Message(c)[1] = "meta" /\ Message(c)[2][1] = "note" /\ 0 \in DOMAIN handler[c].tables
  /\ Insert(c, h, Table0(c))

Outcome(c, h) ==
  \/ Passes(c, h) \/ SetsContent(c, h) \/ EndsHeader(c, h) \/ Fails(c, h)
  \/ SetsDomain(c, h) \/ SetsStartTime(c, h) \/ SetsSenderId(c, h) \/ SetsSchema(c, h)
  \/ InsertsRow(c, h) \/ InsertsMeta(c, h)

(* process_header, process_text_message and process_bin_message, and the   *)
(* part of a callback that skips a line.                                   *)
Processes(c) ==
  /\ Live(c) /\ handler[c].mbuf # << >>
  /\ UNCHANGED <<server, net, restarts>>
  /\ \/ InHeader(c) /\ Fails(c, handler[c])
     \/ \E h : Prepared(c, h) /\ Outcome(c, h)

(* Whatever a callback does with a message takes that message, or skips    *)
(* garbage.                                                                *)
LEMMA Processing ==
  ASSUME TypeOK, NEW c \in Clients, ProcessHeader(c) \/ ProcessMessage(c) \/ SkipGarbage(c)
  PROVE  Processes(c)
<1> DEFINE m == Message(c)
           h == Consumed(c)
<1>0. Live(c) /\ handler[c].mbuf # << >> /\ UNCHANGED <<server, net, restarts>>
  BY DEF ProcessHeader, ProcessMessage, SkipGarbage, Live
<1>1. CASE ProcessHeader(c)
  <2>0. InHeader(c) /\ Prepared(c, h) /\ h.state = "C_HEADER"
    BY <1>1 DEF ProcessHeader, InHeader, Prepared, Consumed, TypeOK, NoHandler
  <2>1. CASE m[1] = "end" /\ Becomes(c, [h EXCEPT !.state = h.content]) /\ UNCHANGED storage
    <3>1. EndsHeader(c, h)
      BY <2>0, <2>1 DEF EndsHeader
    <3> QED
      BY <1>0, <2>0, <3>1 DEF Processes, Outcome
  <2>2. CASE Fails(c, handler[c])
    BY <1>0, <2>0, <2>2 DEF Processes
  <2>3. CASE m[1] = "note" /\ Becomes(c, h) /\ UNCHANGED storage
    <3>1. Passes(c, h)
      BY <2>0, <2>3 DEF Passes
    <3> QED
      BY <1>0, <2>0, <3>1 DEF Processes, Outcome
  <2>4. CASE m[1] \notin {"end", "garbage", "note", "row", "meta"} /\ ProcessMeta(c, h, m)
    <3>1. HeaderLine(m) = m
      BY <2>4 DEF HeaderLine
    <3>2. Outcome(c, h)
      BY <2>0, <2>4, <3>1 DEF ProcessMeta, Outcome, SetsSchema, SetsDomain, SetsStartTime,
                              SetsSenderId, SetsContent, Passes
    <3> QED
      BY <1>0, <2>0, <3>2 DEF Processes
  <2> QED
    BY <1>1, <2>1, <2>2, <2>3, <2>4 DEF ProcessHeader
<1>2. CASE ProcessMessage(c)
  <2>0. ~InHeader(c) /\ Prepared(c, h) /\ h.tables = handler[c].tables /\ h.database = handler[c].database
        /\ h.state = handler[c].state
    BY <1>2 DEF ProcessMessage, InHeader, Prepared, Consumed, TypeOK, NoHandler
  <2>1. CASE m[1] = "row" /\ ProcessRow(c, h, m[2], m[3])
    <3>1. CASE Accepted(c, m)
      <4>1. InsertsRow(c, h)
        BY <2>0, <2>1, <3>1 DEF ProcessRow, Accepted, InsertsRow
      <4> QED
        BY <1>0, <2>0, <4>1 DEF Processes, Outcome
    <3>2. CASE ~Accepted(c, m)
      <4>1. Passes(c, h)
        BY <2>0, <2>1, <3>2 DEF ProcessRow, Accepted, Passes
      <4> QED
        BY <1>0, <2>0, <4>1 DEF Processes, Outcome
    <3> QED
      BY <3>1, <3>2
  <2>2. CASE m[1] = "meta" /\ ProcessMetaRow(c, h, m[2])
    <3> DEFINE h0 == WithStream(h, 0, Table0(c))
    <3>1. CASE 0 \notin DOMAIN handler[c].tables
      <4>1. Passes(c, h)
        BY <2>0, <2>2, <3>1 DEF ProcessMetaRow, Passes
      <4> QED
        BY <1>0, <2>0, <4>1 DEF Processes, Outcome
    <3>2. CASE 0 \in DOMAIN handler[c].tables
      <4>0. Prepared(c, h0) /\ h0.state = handler[c].state /\ HeaderLine(m) = m[2]
        BY <2>0, <2>2, <3>2 DEF Prepared, WithStream, HeaderLine, Consumed, TypeOK, NoHandler
      <4>1. CASE m[2][1] = "note" /\ Insert(c, h0, Table0(c))
        <5>1. InsertsMeta(c, h0)
          BY <2>0, <2>2, <3>2, <4>1 DEF InsertsMeta
        <5> QED
          BY <1>0, <4>0, <5>1 DEF Processes, Outcome
      <4>2. CASE m[2][1] # "note" /\ ProcessMeta(c, h0, m[2])
        <5>1. SetsSchema(c, h0) \/ Passes(c, h0)
          BY <2>0, <2>2, <4>0, <4>2 DEF ProcessMeta, SetsSchema, Passes, InHeader
        <5> QED
          BY <1>0, <4>0, <5>1 DEF Processes, Outcome
      <4> QED
        BY <2>0, <2>2, <3>2, <4>1, <4>2 DEF ProcessMetaRow, Table0
    <3> QED
      BY <3>1, <3>2
  <2> QED
    BY <1>2, <2>1, <2>2 DEF ProcessMessage
<1>3. CASE SkipGarbage(c)
  <2>1. Prepared(c, h) /\ Passes(c, h)
    BY <1>3 DEF SkipGarbage, Prepared, Passes, InHeader
  <2> QED
    BY <1>0, <2>1 DEF Processes, Outcome
<1> QED
  BY <1>1, <1>2, <1>3
(* The handler of c as it is found before a message.                       *)
LEMMA HandlerTypes ==
  ASSUME TypeOK, NEW c \in Clients
  PROVE  /\ HandlerShape(handler[c]) /\ ConnectionOK(c) /\ BufferOK(c) /\ StorageOK
         /\ DOMAIN handler = Clients
         /\ DOMAIN NoHandler = {"state", "content", "mbuf", "received", "database", "sender_id",
                               "time_offset", "tables", "is_active"}
BY TypeParts DEF HandlersOK, NoHandler

(* The message that is processed is the next one of the session.           *)
LEMMA NextMessage ==
  ASSUME TypeOK, NEW c \in Clients, handler[c].state # "none", handler[c].mbuf # << >>
  PROVE  /\ session[c] \in DOMAIN Script
         /\ Position(c) \in DOMAIN Script[session[c]]
         /\ DOMAIN Script[session[c]] = 1..Len(Script[session[c]])
         /\ Len(Script[session[c]]) \in Nat /\ Done(c) \in Nat
         /\ Message(c) = Script[session[c]][Position(c)]
         /\ Message(c) \in Messages /\ WellFormed(HeaderLine(Message(c)))
<1>1. /\ handler[c].mbuf \in Seq(Messages) /\ handler[c].received \in Nat
      /\ sock[c] \in Seq(Messages) /\ BufferOK(c)
      /\ session[c] \in DOMAIN Script
  BY HandlerTypes, TypeParts DEF HandlerShape, ConnectionOK, NetOK
<1>2. /\ Script[session[c]] \in Seq(Messages)
      /\ DOMAIN Script[session[c]] = 1..Len(Script[session[c]])
      /\ Len(Script[session[c]]) \in Nat
  BY <1>1, ScriptAssumption, LenProperties
<1>3. /\ Len(handler[c].mbuf) \in Nat \ {0} /\ Len(sock[c]) \in Nat
      /\ Head(handler[c].mbuf) = handler[c].mbuf[1] /\ handler[c].mbuf[1] \in Messages
  BY <1>1, LenProperties, EmptySeq, HeadTailProperties, ElementOfSeq
<1>4. /\ Done(c) \in Nat /\ Position(c) \in 1..Len(Script[session[c]])
      /\ handler[c].mbuf[1] = Script[session[c]][Position(c)]
  <2>1. /\ Len(handler[c].mbuf) <= handler[c].received
        /\ handler[c].received + Len(sock[c]) <= Len(Script[session[c]])
        /\ \A k \in 1..Len(handler[c].mbuf) :
             handler[c].mbuf[k] = Script[session[c]][Done(c) + k]
    BY <1>1 DEF BufferOK
  <2>2. 1 \in 1..Len(handler[c].mbuf)
    BY <1>3
  <2>3. Done(c) \in Nat /\ Position(c) \in 1..Len(Script[session[c]])
    <3>1. \A l, n, top, got \in Nat :
            l # 0 /\ l <= got /\ got + n <= top => got - l \in Nat /\ got - l + 1 \in 1..top
      OBVIOUS
    <3> QED
      BY <1>1, <1>2, <1>3, <2>1, <3>1 DEF Done, Position
  <2> QED
    BY <2>1, <2>2, <2>3 DEF Position
<1> QED
  BY <1>1, <1>2, <1>3, <1>4, ScriptAssumption DEF Message

(* A handler that has taken a message has the fields it should.            *)
LEMMA PreparedShape ==
  ASSUME TypeOK, NEW c \in Clients, handler[c].mbuf # << >>, NEW h, Prepared(c, h)
  PROVE  /\ HandlerShape(h) /\ h.mbuf = Tail(handler[c].mbuf)
         /\ h.received = handler[c].received /\ h.state = handler[c].state
         /\ h.content = handler[c].content /\ h.database = handler[c].database
         /\ h.sender_id = handler[c].sender_id /\ h.time_offset = handler[c].time_offset
         /\ h.is_active = handler[c].is_active
         /\ \/ h.tables = handler[c].tables
            \/ 0 \in DOMAIN handler[c].tables /\ h = WithStream(Consumed(c), 0, Table0(c))
<1> DEFINE t == Tail(handler[c].mbuf)
<1>0. /\ HandlerShape(handler[c])
      /\ DOMAIN NoHandler = {"state", "content", "mbuf", "received", "database", "sender_id",
                            "time_offset", "tables", "is_active"}
      /\ t \in Seq(Messages)
  BY HandlerTypes, HeadTailProperties DEF HandlerShape
<1> HIDE DEF t
<1>1. Consumed(c) = [handler[c] EXCEPT !.mbuf = t]
  BY DEF Consumed, t
<1>2. /\ HandlerShape(Consumed(c)) /\ Consumed(c).mbuf = t
      /\ Consumed(c).received = handler[c].received /\ Consumed(c).state = handler[c].state
      /\ Consumed(c).content = handler[c].content /\ Consumed(c).database = handler[c].database
      /\ Consumed(c).sender_id = handler[c].sender_id
      /\ Consumed(c).time_offset = handler[c].time_offset
      /\ Consumed(c).is_active = handler[c].is_active
      /\ Consumed(c).tables = handler[c].tables
  BY <1>0, <1>1 DEF HandlerShape
<1>3. CASE h = Consumed(c)
  BY <1>2, <1>3 DEF t
<1>4. CASE 0 \in DOMAIN handler[c].tables /\ h = WithStream(Consumed(c), 0, Table0(c))
  BY <1>0, <1>2, <1>4 DEF WithStream, HandlerShape, t
<1> QED
  BY <1>3, <1>4 DEF Prepared

(* What the outcomes have in common.                                       *)
Advances(c) ==
  /\ \A x \in Clients \ {c} : handler'[x] = handler[x]
  /\ DOMAIN handler' = Clients
  /\ HandlerShape(handler'[c]) /\ handler'[c].state # "none"
  /\ handler'[c].received = handler[c].received
  /\ \/ handler'[c].mbuf = Tail(handler[c].mbuf)
     \/ handler'[c].mbuf = handler[c].mbuf
  /\ StorageOK'

(* A handler that becomes one of the right shape has advanced.             *)
LEMMA BecomesAdvances ==
  ASSUME TypeOK, NEW c \in Clients, handler[c].mbuf # << >>,
         NEW h, Becomes(c, h), HandlerShape(h), h.state # "none",
         h.received = handler[c].received,
         h.mbuf \in {Tail(handler[c].mbuf), handler[c].mbuf}, StorageOK'
  PROVE  Advances(c)
BY HandlerTypes DEF Becomes, Advances

(* Each outcome of a message lets the handler advance.                     *)
LEMMA OutcomeAdvances ==
  ASSUME TypeOK, NEW c \in Clients, Live(c), handler[c].mbuf # << >>,
         NEW h, Prepared(c, h), Outcome(c, h)
  PROVE  Advances(c)
<1>0. /\ HandlerShape(h) /\ h.mbuf = Tail(handler[c].mbuf) /\ h.received = handler[c].received
      /\ h.state = handler[c].state /\ h.state # "none" /\ h.database = handler[c].database
      /\ handler[c].state # "none"
      /\ DOMAIN NoHandler = {"state", "content", "mbuf", "received", "database", "sender_id",
                            "time_offset", "tables", "is_active"}
      /\ StorageOK
  BY PreparedShape, HandlerTypes DEF Live
<1>1. WellFormed(HeaderLine(Message(c)))
  BY <1>0, NextMessage
<1>2. UNCHANGED storage => StorageOK'
  BY <1>0 DEF storage, StorageOK, DatabaseOK, ContentOK, RowOK
<1>e. /\ DOMAIN Closed = {"ref_count", "start_time", "first_table", "sender_cnt", "overdue"}
      /\ DOMAIN Empty = {"tables", "metadata", "senders", "start_time", "rows"}
  BY DEF Closed, Empty
<1>3. CASE Passes(c, h)
  BY <1>0, <1>2, <1>3, BecomesAdvances DEF Passes
<1>4. CASE SetsContent(c, h)
  <2> DEFINE h1 == [h EXCEPT !.content = Message(c)[2]]
  <2>1. Message(c)[2] \in {"C_TEXT_DATA", "C_BINARY_DATA"}
    BY <1>1, <1>4 DEF SetsContent, WellFormed, HeaderLine
  <2>2. HandlerShape(h1) /\ h1.mbuf = h.mbuf /\ h1.received = h.received /\ h1.state = h.state
    BY <1>0, <2>1 DEF HandlerShape
  <2> HIDE DEF h1
  <2>3. Becomes(c, h1) /\ UNCHANGED storage
    BY <1>4 DEF SetsContent, h1
  <2> QED
    BY <1>0, <1>2, <2>2, <2>3, BecomesAdvances
<1>5. CASE EndsHeader(c, h)
  <2> DEFINE h1 == [h EXCEPT !.state = h.content]
  <2>1. HandlerShape(h1) /\ h1.mbuf = h.mbuf /\ h1.received = h.received /\ h1.state # "none"
    BY <1>0 DEF HandlerShape
  <2> HIDE DEF h1
  <2>2. Becomes(c, h1) /\ UNCHANGED storage
    BY <1>5 DEF EndsHeader, h1
  <2> QED
    BY <1>0, <1>2, <2>1, <2>2, BecomesAdvances
<1>6. ASSUME NEW g, HandlerShape(g), g.mbuf = h.mbuf, g.received = h.received, Fails(c, g)
      PROVE  Advances(c)
  <2> DEFINE h1 == [g EXCEPT !.state = "C_PROTOCOL_ERROR"]
  <2>1. HandlerShape(h1) /\ h1.mbuf = h.mbuf /\ h1.received = h.received /\ h1.state # "none"
    BY <1>0, <1>6 DEF HandlerShape
  <2> HIDE DEF h1
  <2>2. Becomes(c, h1) /\ UNCHANGED storage
    BY <1>6 DEF Fails, h1
  <2> QED
    BY <1>0, <1>2, <2>1, <2>2, BecomesAdvances
<1>7. CASE SetsDomain(c, h)
  <2> DEFINE d == Message(c)[2]
  <2>1. d \in Domains
    BY <1>1, <1>7 DEF SetsDomain, WellFormed, HeaderLine
  <2> HIDE DEF d
  <2>2. CASE Becomes(c, [h EXCEPT !.database = d]) /\ FindDatabase(d)
    <3> DEFINE h1 == [h EXCEPT !.database = d]
    <3>1. HandlerShape(h1) /\ h1.mbuf = h.mbuf /\ h1.received = h.received /\ h1.state = h.state
      BY <1>0, <2>1 DEF HandlerShape
    <3> HIDE DEF h1
    <3>2. Becomes(c, h1) /\ StorageOK'
      BY <1>0, <2>1, <2>2, FindDatabaseType DEF h1
    <3> QED
      BY <1>0, <3>1, <3>2, BecomesAdvances
  <2>3. CASE Fails(c, [h EXCEPT !.database = NoDatabase])
    <3> DEFINE g == [h EXCEPT !.database = NoDatabase]
    <3>1. HandlerShape(g) /\ g.mbuf = h.mbuf /\ g.received = h.received
      BY <1>0 DEF HandlerShape
    <3> HIDE DEF g
    <3> QED
      BY <1>6, <2>3, <3>1 DEF g
  <2> QED
    BY <1>7, <2>2, <2>3 DEF SetsDomain, MetaDomain, d
<1>8. CASE SetsStartTime(c, h)
  <2> DEFINE t == Message(c)[2]
             d == h.database
  <2>1. CASE d = NoDatabase
    BY <1>0, <1>6, <1>8, <2>1 DEF SetsStartTime, MetaStartTime
  <2>2. CASE d \in Domains
    <3> DEFINE h1 == [h EXCEPT !.time_offset = t - db'[d].start_time]
    <3>1. HandlerShape(h1) /\ h1.mbuf = h.mbuf /\ h1.received = h.received /\ h1.state = h.state
      BY <1>0 DEF HandlerShape
    <3>2. d # NoDatabase
      BY <2>2, ServerAssumption
    <3>3. /\ Becomes(c, h1)
          /\ \/ UNCHANGED storage
             \/ /\ db' = [db EXCEPT ![d].start_time = t] /\ UNCHANGED stored
                /\ work' \in {[work EXCEPT ![d].start_time = t], work}
      BY <1>8, <3>2 DEF SetsStartTime, MetaStartTime, storage
    <3>4. StorageOK'
      <4>1. CASE /\ db' = [db EXCEPT ![d].start_time = t] /\ UNCHANGED stored
                 /\ work' \in {[work EXCEPT ![d].start_time = t], work}
        <5>1. /\ DOMAIN db = Domains /\ DOMAIN work = Domains
              /\ DOMAIN db[d] = DOMAIN Closed /\ DOMAIN work[d] = DOMAIN Empty
          BY <1>0, <2>2 DEF StorageOK, DatabaseOK, ContentOK
        <5>2. /\ DOMAIN db' = Domains /\ \A x \in Domains \ {d} : db'[x] = db[x]
              /\ DOMAIN db'[d] = DOMAIN db[d]
              /\ db'[d].ref_count = db[d].ref_count /\ db'[d].overdue = db[d].overdue
          BY <1>e, <2>2, <4>1, <5>1
        <5>3. /\ DOMAIN work' = Domains /\ \A x \in Domains \ {d} : work'[x] = work[x]
              /\ DOMAIN work'[d] = DOMAIN work[d] /\ work'[d].rows = work[d].rows
          BY <1>e, <2>2, <4>1, <5>1
        <5> QED
          BY <1>0, <2>2, <4>1, <5>2, <5>3, UntypedType
      <4> QED
        BY <1>2, <3>3, <4>1
    <3> HIDE DEF h1
    <3> QED
      BY <1>0, <3>1, <3>3, <3>4, BecomesAdvances
  <2> QED
    BY <1>0, <2>1, <2>2 DEF HandlerShape
<1>9. CASE SetsSenderId(c, h)
  <2> DEFINE s == Message(c)[2]
             d == h.database
  <2>1. CASE d = NoDatabase
    BY <1>0, <1>6, <1>9, <2>1 DEF SetsSenderId, MetaSenderId
  <2>2. CASE d \in Domains
    <3>2. d # NoDatabase
      BY <2>2, ServerAssumption
    <3>3. /\ \E id : Becomes(c, [h EXCEPT !.sender_id = id])
          /\ \/ UNCHANGED storage
             \/ /\ db' = [db EXCEPT ![d].sender_cnt = NextSenderId(d)] /\ UNCHANGED stored
                /\ work' \in {[work EXCEPT ![d].senders = Put(@, s, NextSenderId(d))], work}
      BY <1>9, <3>2 DEF SetsSenderId, MetaSenderId, storage
    <3>4. StorageOK'
      <4>1. CASE /\ db' = [db EXCEPT ![d].sender_cnt = NextSenderId(d)] /\ UNCHANGED stored
                 /\ work' \in {[work EXCEPT ![d].senders = Put(@, s, NextSenderId(d))], work}
        <5>1. /\ DOMAIN db = Domains /\ DOMAIN work = Domains
              /\ DOMAIN db[d] = DOMAIN Closed /\ DOMAIN work[d] = DOMAIN Empty
          BY <1>0, <2>2 DEF StorageOK, DatabaseOK, ContentOK
        <5>2. /\ DOMAIN db' = Domains /\ \A x \in Domains \ {d} : db'[x] = db[x]
              /\ DOMAIN db'[d] = DOMAIN db[d]
              /\ db'[d].ref_count = db[d].ref_count /\ db'[d].overdue = db[d].overdue
          BY <1>e, <2>2, <4>1, <5>1
        <5>3. /\ DOMAIN work' = Domains /\ \A x \in Domains \ {d} : work'[x] = work[x]
              /\ DOMAIN work'[d] = DOMAIN work[d] /\ work'[d].rows = work[d].rows
          BY <1>e, <2>2, <4>1, <5>1
        <5> QED
          BY <1>0, <2>2, <4>1, <5>2, <5>3, UntypedType
      <4> QED
        BY <1>2, <3>3, <4>1
    <3>5. PICK id : Becomes(c, [h EXCEPT !.sender_id = id])
      BY <3>3
    <3> DEFINE h1 == [h EXCEPT !.sender_id = id]
    <3>6. HandlerShape(h1) /\ h1.mbuf = h.mbuf /\ h1.received = h.received /\ h1.state = h.state
      BY <1>0 DEF HandlerShape
    <3> HIDE DEF h1
    <3>7. Becomes(c, h1)
      BY <3>5 DEF h1
    <3> QED
      BY <1>0, <3>4, <3>6, <3>7, BecomesAdvances
  <2> QED
    BY <1>0, <2>1, <2>2 DEF HandlerShape
<1>10. CASE SetsSchema(c, h)
  <2> DEFINE line == HeaderLine(Message(c))
             d == h.database
  <2>1. \/ Fails(c, h)
        \/ /\ d # NoDatabase
           /\ \E t : /\ Becomes(c, WithStream(h, line[2], <<d, t>>))
                    /\ \/ UNCHANGED storage
                       \/ /\ db' = [db EXCEPT ![d].first_table = Put(@, t, line[4])]
                          /\ work' = [work EXCEPT ![d] = WithTable(@, t, line[4])]
                          /\ UNCHANGED stored
    BY <1>10 DEF SetsSchema, ProcessSchema
  <2>2. CASE Fails(c, h)
    BY <1>0, <1>6, <2>2
  <2>3. CASE ~Fails(c, h)
    <3>1. PICK t : /\ Becomes(c, WithStream(h, line[2], <<d, t>>))
                   /\ \/ UNCHANGED storage
                      \/ /\ db' = [db EXCEPT ![d].first_table = Put(@, t, line[4])]
                         /\ work' = [work EXCEPT ![d] = WithTable(@, t, line[4])]
                         /\ UNCHANGED stored
      BY <2>1, <2>3
    <3> DEFINE h1 == WithStream(h, line[2], <<d, t>>)
    <3>2. d \in Domains
      BY <1>0, <2>1, <2>3 DEF HandlerShape
    <3>3. HandlerShape(h1) /\ h1.mbuf = h.mbuf /\ h1.received = h.received /\ h1.state = h.state
      BY <1>0 DEF HandlerShape, WithStream
    <3> HIDE DEF h1
    <3>4. StorageOK'
      <4>1. CASE /\ db' = [db EXCEPT ![d].first_table = Put(@, t, line[4])]
                 /\ work' = [work EXCEPT ![d] = WithTable(@, t, line[4])]
                 /\ UNCHANGED stored
        BY <1>0, <1>e, <3>2, <4>1, UntypedType DEF StorageOK, DatabaseOK, ContentOK, WithTable
      <4> QED
        BY <1>2, <3>1, <4>1
    <3>5. Becomes(c, h1)
      BY <3>1 DEF h1
    <3> QED
      BY <1>0, <3>3, <3>4, <3>5, BecomesAdvances
  <2> QED
    BY <2>2, <2>3
<1>11. ASSUME NEW table, Insert(c, h, table)
       PROVE  Advances(c)
  <2> DEFINE row == [client |-> <<c, connections[c]>>, session |-> session[c],
                     at |-> Position(c), table |-> table[2], sender_id |-> h.sender_id,
                     time_offset |-> h.time_offset]
  <2>1. RowOK(row)
    <3>1. connections[c] \in 0..MaxConnections
      BY DEF TypeOK
    <3>2. row.client = <<c, connections[c]>> /\ row.session = session[c] /\ row.at = Position(c)
      OBVIOUS
    <3> QED
      BY <1>0, <3>1, <3>2, NextMessage DEF RowOK
  <2> HIDE DEF row
  <2>2. /\ Becomes(c, h)
        /\ \/ UNCHANGED storage
           \/ /\ db' = [db EXCEPT ![h.database].overdue = 0]
              /\ stored' = stored \/ stored' = [stored EXCEPT ![h.database] = work[h.database]]
              /\ work' = [work EXCEPT ![table[1]].rows = @ \cup {row}] \/ work' = work
    BY <1>11 DEF Insert, Committed, row
  <2>3. StorageOK'
    BY <1>0, <1>2, <2>1, <2>2, InsertType
  <2> QED
    BY <1>0, <2>2, <2>3, BecomesAdvances
<1>12. CASE InsertsRow(c, h) \/ InsertsMeta(c, h)
  BY <1>11, <1>12 DEF InsertsRow, InsertsMeta
<1> QED
  BY <1>0, <1>3, <1>4, <1>5, <1>6, <1>7, <1>8, <1>9, <1>10, <1>12 DEF Outcome

(* Processing a message lets its handler advance and leaves the others     *)
(* alone.                                                                  *)
LEMMA ProcessingAdvances ==
  ASSUME TypeOK, NEW c \in Clients, Processes(c)
  PROVE  Advances(c)
<1>1. ASSUME InHeader(c), Fails(c, handler[c])
      PROVE  Advances(c)
  <2> DEFINE h == [handler[c] EXCEPT !.state = "C_PROTOCOL_ERROR"]
  <2>1. /\ HandlerShape(h) /\ h.mbuf = handler[c].mbuf /\ h.received = handler[c].received
        /\ h.state # "none" /\ StorageOK
    BY HandlerTypes DEF HandlerShape
  <2> HIDE DEF h
  <2>2. Becomes(c, h) /\ UNCHANGED storage
    BY <1>1 DEF Fails, h
  <2>3. StorageOK'
    BY <2>1, <2>2 DEF storage, StorageOK, DatabaseOK, ContentOK, RowOK
  <2> QED
    BY <2>1, <2>2, <2>3, BecomesAdvances DEF Processes
<1> QED
  BY <1>1, OutcomeAdvances DEF Processes

(* A handler that advances keeps the types.                                *)
LEMMA AdvanceType ==
  ASSUME TypeOK, NEW c \in Clients, Advances(c), handler[c].state # "none",
         handler[c].mbuf # << >>, UNCHANGED net, LoopOK',
         phase' \in {"read", "last"} => UNCHANGED <<phase, current>>
  PROVE  TypeOK'
<1>1. NetOK' /\ StorageOK' /\ UNCHANGED <<link, sock, session>>
  BY TypeParts DEF net, NetOK, Advances
<1>2. ASSUME NEW x \in Clients
      PROVE  HandlerShape(handler'[x])
  BY HandlerTypes DEF Advances
<1>3. ASSUME NEW x \in Clients
      PROVE  ConnectionOK(x)'
  <2>1. ConnectionOK(x)
    BY HandlerTypes
  <2>2. x # c => handler'[x] = handler[x]
    BY DEF Advances
  <2>3. handler'[c].state # "none"
    BY DEF Advances
  <2> QED
    BY <1>1, <2>1, <2>2, <2>3 DEF ConnectionOK
<1>4. ASSUME NEW x \in Clients \ {c}
      PROVE  BufferOK(x)'
  <2>1. handler'[x] = handler[x] /\ BufferOK(x)
    BY HandlerTypes DEF Advances
  <2> QED
    BY <1>1, <2>1 DEF BufferOK, Done
<1>5. BufferOK(c)'
  <2>0. /\ handler[c].mbuf \in Seq(Messages) /\ handler[c].received \in Nat /\ BufferOK(c)
        /\ handler'[c].received = handler[c].received
    BY HandlerTypes DEF HandlerShape, Advances
  <2>1. CASE handler'[c].mbuf = handler[c].mbuf
    BY <1>1, <2>0, <2>1 DEF BufferOK, Done
  <2>2. CASE handler'[c].mbuf = Tail(handler[c].mbuf)
    <3> DEFINE script == Script[session[c]]
    <3>0. script \in Seq(Messages)
      BY NextMessage, ScriptAssumption
    <3>1. /\ \A k \in 1..Len(handler[c].mbuf) :
               handler[c].mbuf[k] = script[handler[c].received - Len(handler[c].mbuf) + k]
          /\ Len(handler[c].mbuf) <= handler[c].received
          /\ handler[c].received + Len(sock[c]) <= Len(script)
          /\ \A k \in 1..Len(sock[c]) : sock[c][k] = script[handler[c].received + k]
      BY <2>0 DEF BufferOK, Done
    <3>2. /\ Len(handler'[c].mbuf) <= handler[c].received
          /\ \A k \in 1..Len(handler'[c].mbuf) :
               handler'[c].mbuf[k] = script[handler[c].received - Len(handler'[c].mbuf) + k]
      <4> DEFINE m == handler[c].mbuf
                 got == handler[c].received
      <4>1. /\ m \in Seq(Messages) /\ m # << >> /\ got \in Nat /\ Len(m) <= got
            /\ \A k \in 1..Len(m) : m[k] = script[got - Len(m) + k]
        BY <2>0, <3>1
      <4> HIDE DEF script, m, got
      <4>2. /\ Len(Tail(m)) <= got
            /\ \A k \in 1..Len(Tail(m)) : Tail(m)[k] = script[got - Len(Tail(m)) + k]
        BY <3>0, <4>1, Dequeued
      <4> QED
        BY <2>2, <4>2 DEF m, got
    <3> QED
      BY <1>1, <2>0, <3>1, <3>2 DEF BufferOK, Done
  <2> QED
    BY <2>1, <2>2 DEF Advances
<1> QED
  BY <1>1, <1>2, <1>3, <1>4, <1>5, TypePartsAfter DEF HandlersOK, Advances

(* client_handler_free.                                                    *)
LEMMA FreeType ==
  ASSUME TypeOK, NEW c \in Clients, FreeHandler(c), LoopOK',
         phase' \notin {"read", "last"}
  PROVE  TypeOK'
<1>0. DOMAIN handler = Clients /\ StorageOK /\ handler[c].database \in Domains \cup {NoDatabase}
  BY HandlerTypes DEF HandlerShape
<1>1. StorageOK'
  BY <1>0, ReleaseType DEF FreeHandler
<1>2. NetOK' /\ link'[c] = "none" /\ sock'[c] = << >> /\ session'[c] = NoSession
      /\ \A x \in Clients \ {c} : link'[x] = link[x] /\ sock'[x] = sock[x] /\ session'[x] = session[x]
  BY TypeParts, EmptySeq DEF FreeHandler, NetOK
<1>3. DOMAIN handler' = Clients /\ handler'[c] = NoHandler /\ \A x \in Clients \ {c} : handler'[x] = handler[x]
  BY <1>0 DEF FreeHandler
<1>4. HandlerShape(NoHandler) /\ NoHandler.state = "none"
  BY EmptySeq DEF HandlerShape, NoHandler
<1>5. ASSUME NEW x \in Clients
      PROVE  HandlerShape(handler'[x]) /\ ConnectionOK(x)' /\ BufferOK(x)'
  <2>1. HandlerShape(handler[x]) /\ ConnectionOK(x) /\ BufferOK(x)
    BY HandlerTypes
  <2>2. CASE x = c
    BY <1>2, <1>3, <1>4, <2>2 DEF ConnectionOK, BufferOK
  <2>3. CASE x # c
    BY <1>2, <1>3, <2>1, <2>3 DEF ConnectionOK, BufferOK, Done
  <2> QED
    BY <2>2, <2>3
<1> QED
  BY <1>1, <1>2, <1>3, <1>5, TypePartsAfter DEF HandlersOK

(* Exit and Crash.                                                         *)
LEMMA VanishType ==
  ASSUME TypeOK, Vanish
  PROVE  TypeOK'
<1>1. LoopOK'
  BY TypeParts DEF Vanish, LoopOK
<1>2. NetOK'
  BY TypeParts, EmptySeq DEF Vanish, NetOK
<1>3. StorageOK'
  <2>1. Closed.ref_count \in Int /\ Closed.overdue \in {0, 1}
    BY DEF Closed
  <2>2. /\ DOMAIN db' = Domains /\ work' = stored /\ stored' = stored
        /\ \A d \in Domains : db'[d] = Closed
    BY DEF Vanish
  <2> QED
    BY <2>1, <2>2, TypeParts DEF StorageOK, DatabaseOK, ContentOK, RowOK
<1>4. HandlerShape(NoHandler) /\ NoHandler.state = "none"
  BY EmptySeq DEF HandlerShape, NoHandler
<1>5. HandlersOK'
  BY <1>4 DEF HandlersOK, ConnectionOK, BufferOK, Vanish
<1> QED
  BY <1>1, <1>2, <1>3, <1>5, TypePartsAfter

(* on_client_connect.                                                      *)
LEMMA ConnectType ==
  ASSUME TypeOK, NEW c \in Clients, Connect(c)
  PROVE  TypeOK'
<1>0. /\ DOMAIN handler = Clients /\ StorageOK /\ LoopOK /\ NetOK
  BY TypeParts, HandlerTypes
<1>1. PICK s \in DOMAIN Script : sock' = [sock EXCEPT ![c] = Script[s]] /\ session' = [session EXCEPT ![c] = s]
  BY DEF Connect
<1>2. /\ UNCHANGED <<server, phase, current, storage, restarts>>
      /\ link' = [link EXCEPT ![c] = "open"] /\ connections' = [connections EXCEPT ![c] = @ + 1]
      /\ handler' = [handler EXCEPT ![c] = NewHandler]
      /\ connections[c] < MaxConnections /\ phase = "poll"
  BY DEF Connect
<1>3. StorageOK' /\ LoopOK'
  BY <1>0, <1>2 DEF storage, StorageOK, DatabaseOK, ContentOK, RowOK, LoopOK
<1>4. Script[s] \in Seq(Messages) /\ s # NoSession
  BY ScriptAssumption, ServerAssumption
<1>5. connections[c] \in 0..MaxConnections /\ connections[c] + 1 \in 0..MaxConnections
  BY <1>0, <1>2, ServerAssumption DEF NetOK
<1>6. NetOK'
  BY <1>0, <1>1, <1>2, <1>4, <1>5 DEF NetOK
<1>7. /\ HandlerShape(NewHandler) /\ NewHandler.state # "none" /\ NewHandler.mbuf = << >>
      /\ NewHandler.received = 0
  BY EmptySeq DEF HandlerShape, NewHandler, NoHandler
<1>8. ASSUME NEW x \in Clients
      PROVE  HandlerShape(handler'[x]) /\ ConnectionOK(x)' /\ BufferOK(x)'
  <2>1. HandlerShape(handler[x]) /\ ConnectionOK(x) /\ BufferOK(x)
    BY HandlerTypes
  <2>2. CASE x = c
    <3>1. handler'[c] = NewHandler /\ link'[c] = "open" /\ session'[c] = s /\ sock'[c] = Script[s]
      BY <1>0, <1>1, <1>2 DEF NetOK
    <3>2. Len(Script[s]) \in Nat /\ Len(<< >>) = 0
      BY <1>4, LenProperties
    <3>3. ConnectionOK(c)'
      BY <1>4, <1>7, <3>1 DEF ConnectionOK
    <3>4. BufferOK(c)'
      BY <1>7, <3>1, <3>2 DEF BufferOK
    <3> QED
      BY <1>7, <2>2, <3>1, <3>3, <3>4
  <2>3. CASE x # c
    <3>1. /\ handler'[x] = handler[x] /\ link'[x] = link[x] /\ session'[x] = session[x] /\ sock'[x] = sock[x]
          /\ current' = current /\ phase' = phase
      BY <1>0, <1>1, <1>2, <2>3 DEF NetOK
    <3> QED
      BY <2>1, <3>1 DEF ConnectionOK, BufferOK, Done
  <2> QED
    BY <2>2, <2>3
<1> QED
  BY <1>0, <1>2, <1>3, <1>6, <1>8, TypePartsAfter DEF HandlersOK

(* recv.                                                                   *)
LEMMA ReceiveType ==
  ASSUME TypeOK, NEW c \in Clients, NEW n \in 1..Len(sock[c]), Receive(c, n), LoopOK',
         phase' \in {"read", "last"} => current' = c
  PROVE  TypeOK' /\ Done(c)' = Done(c)
<1>0. /\ DOMAIN handler = Clients /\ StorageOK /\ LoopOK /\ NetOK /\ HandlerShape(handler[c])
      /\ ConnectionOK(c) /\ BufferOK(c) /\ sock[c] \in Seq(Messages)
      /\ DOMAIN NoHandler = {"state", "content", "mbuf", "received", "database", "sender_id",
                            "time_offset", "tables", "is_active"}
  BY TypeParts, HandlerTypes DEF NetOK
<1> DEFINE m == handler[c].mbuf
           got == handler[c].received
           all == m \o SubSeq(sock[c], 1, n)
           rest == SubSeq(sock[c], n + 1, Len(sock[c]))
           s == Script[session[c]]
<1>1. m \in Seq(Messages) /\ Len(m) \in Nat /\ got \in Nat /\ Len(sock[c]) \in Nat
  BY <1>0, LenProperties DEF HandlerShape
<1>2. handler[c].state # "none"
  <2>1. sock[c] # << >>
    BY <1>1
  <2> QED
    BY <1>0, <2>1 DEF ConnectionOK
<1>3. /\ Len(m) <= got /\ got + Len(sock[c]) <= Len(s)
      /\ \A k \in 1..Len(m) : m[k] = s[got - Len(m) + k]
      /\ \A k \in 1..Len(sock[c]) : sock[c][k] = s[got + k]
  BY <1>0, <1>2 DEF BufferOK, Done
<1>s. s \in Seq(Messages)
  BY <1>0, <1>2, ScriptAssumption DEF ConnectionOK, NetOK
<1>4. /\ handler' = [handler EXCEPT ![c].mbuf = all, ![c].received = got + n]
      /\ sock' = [sock EXCEPT ![c] = rest]
      /\ UNCHANGED <<server, link, session, connections, storage, restarts>>
  BY DEF Receive
<1>5. /\ all \in Seq(Messages) /\ rest \in Seq(Messages) /\ n \in Nat
      /\ Len(all) = Len(m) + n /\ Len(rest) = Len(sock[c]) - n
      /\ Len(all) <= got + n
      /\ \A k \in 1..Len(all) : all[k] = s[(got + n) - Len(all) + k]
      /\ \A k \in 1..Len(rest) : rest[k] = s[(got + n) + k]
  <2> DEFINE q == sock[c]
             all0 == m \o SubSeq(q, 1, n)
             rest0 == SubSeq(q, n + 1, Len(q))
  <2>1. /\ q \in Seq(Messages) /\ n \in 1..Len(q) /\ m \in Seq(Messages) /\ got \in Nat
        /\ Len(m) <= got /\ s \in Seq(Messages)
        /\ \A k \in 1..Len(m) : m[k] = s[got - Len(m) + k]
        /\ \A k \in 1..Len(q) : q[k] = s[got + k]
    BY <1>0, <1>1, <1>3, <1>s
  <2> HIDE DEF m, got, s, q
  <2>2. /\ all0 \in Seq(Messages) /\ rest0 \in Seq(Messages) /\ n \in Nat
        /\ Len(all0) = Len(m) + n /\ Len(rest0) = Len(q) - n
        /\ Len(all0) <= got + n
        /\ \A k \in 1..Len(all0) : all0[k] = s[(got + n) - Len(all0) + k]
        /\ \A k \in 1..Len(rest0) : rest0[k] = s[(got + n) + k]
    BY <2>1, Enqueued, SMTT(40)
  <2> QED
    BY <2>2 DEF m, got, s, q
<1> HIDE DEF all, rest
<1>6. StorageOK' /\ NetOK' /\ DOMAIN handler' = Clients
  BY <1>0, <1>4, <1>5 DEF storage, StorageOK, DatabaseOK, ContentOK, RowOK, NetOK
<1>7. /\ HandlerShape(handler'[c]) /\ handler'[c].mbuf = all /\ handler'[c].received = got + n
      /\ handler'[c].state = handler[c].state
  <2>1. got + n \in Nat
    BY <1>1, <1>5
  <2> QED
    BY <1>0, <1>4, <1>5, <2>1 DEF HandlerShape
<1>8. sock'[c] = rest /\ link' = link /\ session' = session
  BY <1>0, <1>4 DEF NetOK
<1>9. Done(c)' = Done(c)
  <2>1. Done(c)' = (got + n) - Len(all)
    BY <1>7 DEF Done
  <2>2. Len(all) = Len(m) + n /\ got \in Nat /\ Len(m) \in Nat /\ n \in Nat
    BY <1>1, <1>5
  <2>3. Done(c) = got - Len(m)
    BY DEF Done
  <2> HIDE DEF got, m
  <2> QED
    BY <2>1, <2>2, <2>3
<1>10. ConnectionOK(c)'
  BY <1>0, <1>2, <1>7, <1>8 DEF ConnectionOK
<1>11. BufferOK(c)'
  <2>1. (got + n) + Len(rest) = got + Len(sock[c])
    BY <1>1, <1>5
  <2> HIDE DEF got, m
  <2> QED
    BY <1>3, <1>5, <1>7, <1>8, <2>1 DEF BufferOK, Done
<1>12. ASSUME NEW x \in Clients \ {c}
       PROVE  HandlerShape(handler'[x]) /\ ConnectionOK(x)' /\ BufferOK(x)'
  <2>1. HandlerShape(handler[x]) /\ ConnectionOK(x) /\ BufferOK(x)
    BY HandlerTypes
  <2>2. handler'[x] = handler[x] /\ sock'[x] = sock[x]
    BY <1>0, <1>4 DEF NetOK
  <2> QED
    BY <1>8, <2>1, <2>2 DEF ConnectionOK, BufferOK, Done
<1> QED
  BY <1>6, <1>7, <1>9, <1>10, <1>11, <1>12, TypePartsAfter DEF HandlersOK
-----------------------------------------------------------------------------
(* What a step does to handlers and databases, whatever the loop does.     *)

(* Nothing happens to the handler but that messages are received, or that  *)
(* its channel is deactivated.                                             *)
Same(c) ==
  /\ handler'[c].state = handler[c].state /\ handler'[c].database = handler[c].database
  /\ handler'[c].tables = handler[c].tables /\ handler'[c].sender_id = handler[c].sender_id
  /\ handler'[c].time_offset = handler[c].time_offset
  /\ Done(c)' = Done(c) /\ session'[c] = session[c] /\ connections'[c] = connections[c]

SameBut(c) == \A x \in Clients \ {c} : Same(x)

Quiet == UNCHANGED storage /\ \A c \in Clients : Same(c)

Arrives(c) ==
  /\ handler[c].state = "none"
  /\ handler'[c] = NewHandler /\ session'[c] \in DOMAIN Script
  /\ UNCHANGED storage /\ SameBut(c)

Leaves(c) ==
  /\ handler[c].state # "none"
  /\ handler'[c] = NoHandler
  /\ Release(handler[c].database) /\ SameBut(c)

Ages(d) ==
  /\ db[d].ref_count > 0
  /\ db' = [db EXCEPT ![d].overdue = 1] /\ UNCHANGED <<work, stored>>
  /\ \A c \in Clients : Same(c)

Step ==
  \/ Quiet
  \/ \E c \in Clients : Arrives(c) \/ Leaves(c) \/ (Processes(c) /\ Advances(c) /\ SameBut(c))
  \/ \E d \in Domains : Ages(d)
  \/ Vanish

(* A handler that is not touched is the same.                              *)
LEMMA UnchangedIsSame ==
  ASSUME TypeOK, NEW c \in Clients, handler'[c] = handler[c], session'[c] = session[c],
         connections'[c] = connections[c]
  PROVE  Same(c)
BY DEF Same, Done

(* Steps that change neither handlers nor databases, but for is_active.    *)
LEMMA InactiveStep ==
  ASSUME TypeOK, LoopOK', UNCHANGED <<storage, session, connections>>,
         link' \in [Clients -> {"none", "open", "closed", "reset"}],
         \A c \in Clients : (link'[c] = "none") = (link[c] = "none"),
         sock' \in [Clients -> Seq(Messages)],
         \A c \in Clients : sock'[c] = sock[c] \/ sock'[c] = << >>,
         phase' \in {"read", "last"} => UNCHANGED <<phase, current>>,
         DOMAIN handler' = Clients,
         \A c \in Clients : \/ handler'[c] = handler[c]
                            \/ handler'[c] = [handler[c] EXCEPT !.is_active = 0]
  PROVE  TypeOK' /\ Quiet
<1>1. StorageOK'
  BY TypeParts DEF storage, StorageOK, DatabaseOK, ContentOK, RowOK
<1>2. NetOK'
  BY TypeParts DEF NetOK
<1>3. ASSUME NEW c \in Clients
      PROVE  HandlerShape(handler'[c]) /\ ConnectionOK(c)' /\ BufferOK(c)' /\ Same(c)
  <2>0. /\ HandlerShape(handler[c]) /\ ConnectionOK(c) /\ BufferOK(c)
        /\ DOMAIN NoHandler = {"state", "content", "mbuf", "received", "database", "sender_id",
                              "time_offset", "tables", "is_active"}
    BY HandlerTypes
  <2>1. /\ HandlerShape(handler'[c]) /\ handler'[c].state = handler[c].state
        /\ handler'[c].mbuf = handler[c].mbuf /\ handler'[c].received = handler[c].received
        /\ handler'[c].database = handler[c].database /\ handler'[c].tables = handler[c].tables
        /\ handler'[c].sender_id = handler[c].sender_id
        /\ handler'[c].time_offset = handler[c].time_offset
    BY <2>0 DEF HandlerShape
  <2>2. Same(c)
    BY <2>1 DEF Same, Done
  <2>3. handler[c] = NoHandler => handler'[c] = NoHandler
    <3>1. [NoHandler EXCEPT !.is_active = 0] = NoHandler
      BY DEF NoHandler
    <3> QED
      BY <3>1
  <2>4. /\ sock'[c] = sock[c] \/ sock'[c] = << >>
        /\ (link'[c] = "none") = (link[c] = "none") /\ session'[c] = session[c]
    OBVIOUS
  <2>5. ConnectionOK(c)'
    BY <2>0, <2>1, <2>3, <2>4 DEF ConnectionOK
  <2>6. BufferOK(c)'
    <3>1. CASE sock'[c] = sock[c]
      BY <2>0, <2>1, <2>4, <3>1 DEF BufferOK, Done
    <3>2. CASE sock'[c] = << >>
      <4>1. Len(sock[c]) \in Nat /\ Len(sock'[c]) = 0
        BY <3>2, LenProperties, TypeParts DEF NetOK
      <4>2. CASE handler[c].state = "none"
        BY <2>1, <4>2 DEF BufferOK
      <4>3. CASE handler[c].state # "none"
        <5>1. session[c] \in DOMAIN Script
          BY <2>0, <4>3, TypeParts DEF ConnectionOK, NetOK
        <5>2. Len(Script[session[c]]) \in Nat /\ handler[c].received \in Nat
          BY <2>0, <5>1, ScriptAssumption, LenProperties DEF HandlerShape
        <5>3. handler[c].received + Len(sock[c]) <= Len(Script[session[c]])
          BY <2>0, <4>3 DEF BufferOK
        <5>4. handler[c].received + 0 <= Len(Script[session[c]])
          BY <4>1, <5>2, <5>3
        <5> QED
          BY <2>0, <2>1, <2>4, <4>1, <4>3, <5>4 DEF BufferOK, Done
      <4> QED
        BY <4>2, <4>3
    <3> QED
      BY <2>4, <3>1, <3>2
  <2> QED
    BY <2>1, <2>2, <2>5, <2>6
<1> QED
  BY <1>1, <1>2, <1>3, TypePartsAfter DEF HandlersOK, Quiet

(* Every step keeps the types, and is one of the forms that the later      *)
(* proofs distinguish.                                                     *)
LEMMA TypeStep ==
  ASSUME TypeOK, [Next]_vars
  PROVE  TypeOK' /\ Step
<1>0. /\ LoopOK /\ NetOK /\ StorageOK /\ DOMAIN handler = Clients /\ NoClient \notin Clients
      /\ \A c \in Clients : link[c] \in {"none", "open", "closed", "reset"} /\ sock[c] \in Seq(Messages)
  BY TypeParts, ServerAssumption DEF HandlersOK, NetOK
<1>q. << >> \in Seq(Messages)
  BY EmptySeq
<1>1. ASSUME NEW c \in Clients, TypeOK', FreeHandler(c), handler[c].state # "none"
      PROVE  TypeOK' /\ Step
  <2>1. /\ Release(handler[c].database) /\ handler' = [handler EXCEPT ![c] = NoHandler]
        /\ session' = [session EXCEPT ![c] = NoSession] /\ UNCHANGED connections
    BY <1>1 DEF FreeHandler
  <2>2. \A x \in Clients \ {c} : handler'[x] = handler[x] /\ session'[x] = session[x]
    BY <1>0, <2>1 DEF NetOK
  <2>3. SameBut(c)
    BY <2>1, <2>2, UnchangedIsSame DEF SameBut
  <2>4. handler'[c] = NoHandler
    BY <1>0, <2>1
  <2> QED
    BY <1>1, <2>1, <2>3, <2>4 DEF Leaves, Step
<1>2. ASSUME NEW c \in Clients, link[c] # "none"
      PROVE  handler[c].state # "none"
  BY <1>2, HandlerTypes DEF ConnectionOK
<1>3. ASSUME NEW c \in Clients, Callback(c)
      PROVE  TypeOK' /\ Step
  <2>0. handler[c].state # "none" /\ current = c /\ phase \in {"read", "last"}
    <3>1. InCallback(c)
      BY <1>3 DEF Callback, ProcessHeader, ProcessMessage, SkipGarbage, Disconnect, CallbackDone
    <3> QED
      BY <3>1, HandlerTypes DEF InCallback, ConnectionOK
  <2>1. CASE ProcessHeader(c) \/ ProcessMessage(c) \/ SkipGarbage(c)
    <3>1. Processes(c) /\ Advances(c)
      BY <2>1, Processing, ProcessingAdvances
    <3>2. UNCHANGED <<server, net, restarts>> /\ handler[c].mbuf # << >>
      BY <3>1 DEF Processes
    <3>3. UNCHANGED <<phase, current>> \/ Returns
      BY <2>1 DEF ProcessHeader, ProcessMessage, SkipGarbage
    <3>4. LoopOK' /\ (phase' \in {"read", "last"} => UNCHANGED <<phase, current>>)
      BY <1>0, <2>0, <3>2, <3>3 DEF LoopOK, Returns
    <3>5. TypeOK'
      BY <2>0, <3>1, <3>2, <3>4, AdvanceType
    <3>6. SameBut(c)
      BY <3>1, <3>2, UnchangedIsSame DEF SameBut, net, Advances
    <3> QED
      BY <3>1, <3>5, <3>6 DEF Step
  <2>2. CASE Disconnect(c)
    <3>1. FreeHandler(c) /\ Returns /\ UNCHANGED <<server, restarts>>
      BY <2>2 DEF Disconnect
    <3>2. LoopOK' /\ phase' \notin {"read", "last"}
      BY <1>0, <2>0, <3>1 DEF LoopOK, Returns
    <3>3. TypeOK'
      BY <3>1, <3>2, FreeType
    <3> QED
      BY <1>1, <2>0, <3>1, <3>3
  <2>3. CASE CallbackDone(c)
    <3>1. Returns /\ UNCHANGED <<server, net, handler, storage, restarts>>
      BY <2>3 DEF CallbackDone
    <3>2. LoopOK' /\ phase' \notin {"read", "last"}
      BY <1>0, <2>0, <3>1 DEF LoopOK, Returns
    <3>3. TypeOK' /\ Quiet
      BY <1>0, <3>1, <3>2, InactiveStep DEF net, NetOK
    <3> QED
      BY <3>3 DEF Step
  <2> QED
    BY <1>3, <2>1, <2>2, <2>3 DEF Callback
<1>4. ASSUME NEW c \in Clients, EventLoop(c) \/ Idle(c)
      PROVE  TypeOK' /\ Step
  <2>1. ASSUME NEW n \in 1..Len(sock[c]), Read(c, n) \/ ReadLast(c, n)
        PROVE  TypeOK' /\ Step
    <3>1. /\ Receive(c, n) /\ phase' \in {"read", "last"} /\ current' = c
          /\ UNCHANGED <<server, link, session, connections, storage, restarts>>
      BY <2>1 DEF Read, ReadLast, Receive
    <3>2. LoopOK'
      BY <1>0, <3>1 DEF LoopOK
    <3>3. TypeOK' /\ Done(c)' = Done(c)
      BY <3>1, <3>2, ReceiveType
    <3>4. handler' = [handler EXCEPT ![c].mbuf = @ \o SubSeq(sock[c], 1, n), ![c].received = @ + n]
      BY <3>1 DEF Receive
    <3>5. \A x \in Clients \ {c} : Same(x)
      BY <1>0, <3>1, <3>4, UnchangedIsSame
    <3>6. Same(c)
      BY <1>0, <3>1, <3>3, <3>4, HandlerTypes DEF Same, HandlerShape
    <3> QED
      BY <3>1, <3>3, <3>5, <3>6 DEF Step, Quiet
  <2>2. CASE EndOfFile(c) \/ Idle(c)
    <3>1. /\ FreeHandler(c) /\ phase = "poll" /\ UNCHANGED <<server, phase, current, restarts>>
          /\ link[c] # "none"
      BY <2>2 DEF EndOfFile, Idle, Polls
    <3>2. LoopOK' /\ phase' \notin {"read", "last"}
      BY <1>0, <3>1 DEF LoopOK
    <3>3. TypeOK'
      BY <3>1, <3>2, FreeType
    <3> QED
      BY <1>1, <1>2, <3>1, <3>3
  <2>3. CASE HangUp(c) \/ Error(c)
    <3>1. /\ handler' = [handler EXCEPT ![c].is_active = 0]
          /\ UNCHANGED <<server, net, storage, restarts>>
          /\ \/ phase' = "drain" /\ current' = c
             \/ UNCHANGED <<phase, current>>
      BY <2>3 DEF HangUp, Error
    <3>2. LoopOK' /\ (phase' \in {"read", "last"} => UNCHANGED <<phase, current>>)
      BY <1>0, <3>1 DEF LoopOK
    <3>3. \A x \in Clients : \/ handler'[x] = handler[x]
                             \/ handler'[x] = [handler[x] EXCEPT !.is_active = 0]
      BY <1>0, <3>1
    <3>4. TypeOK' /\ Quiet
      BY <1>0, <3>1, <3>2, <3>3, InactiveStep DEF net, NetOK
    <3> QED
      BY <3>4 DEF Step
  <2>4. CASE DrainEnd(c)
    <3>1. /\ \/ link[c] # "none" /\ FreeHandler(c)
             \/ UNCHANGED <<net, handler, storage>>
          /\ phase' = "poll" /\ current' = NoClient /\ UNCHANGED <<server, restarts>>
      BY <2>4 DEF DrainEnd
    <3>2. LoopOK'
      BY <1>0, <3>1 DEF LoopOK
    <3>3. CASE link[c] # "none" /\ FreeHandler(c)
      <4>1. TypeOK'
        BY <3>1, <3>2, <3>3, FreeType
      <4> QED
        BY <1>1, <1>2, <3>3, <4>1
    <3>4. CASE UNCHANGED <<net, handler, storage>>
      <4>1. TypeOK' /\ Quiet
        BY <1>0, <3>1, <3>2, <3>4, InactiveStep DEF net, NetOK
      <4> QED
        BY <4>1 DEF Step
    <3> QED
      BY <3>1, <3>3, <3>4
  <2> QED
    BY <1>4, <2>1, <2>2, <2>3, <2>4 DEF EventLoop
<1>5. ASSUME NEW c \in Clients, Connect(c)
      PROVE  TypeOK' /\ Step
  <2>1. PICK s \in DOMAIN Script : session' = [session EXCEPT ![c] = s]
    BY <1>5 DEF Connect
  <2>2. /\ link[c] = "none" /\ connections' = [connections EXCEPT ![c] = @ + 1]
        /\ handler' = [handler EXCEPT ![c] = NewHandler] /\ UNCHANGED storage
    BY <1>5 DEF Connect
  <2>3. handler[c].state = "none"
    BY <2>2, HandlerTypes DEF ConnectionOK
  <2>4. handler'[c] = NewHandler /\ session'[c] \in DOMAIN Script
    BY <1>0, <2>1, <2>2 DEF NetOK
  <2>5. \A x \in Clients \ {c} : /\ handler'[x] = handler[x] /\ session'[x] = session[x]
                                 /\ connections'[x] = connections[x]
    BY <1>0, <2>1, <2>2 DEF NetOK
  <2>6. SameBut(c)
    BY <2>5, UnchangedIsSame DEF SameBut
  <2> QED
    BY <1>5, <2>2, <2>3, <2>4, <2>6, ConnectType DEF Arrives, Step
<1>6. ASSUME NEW c \in Clients, ClientCloses(c) \/ Reset(c)
      PROVE  TypeOK' /\ Step
  <2>1. /\ link[c] # "none"
        /\ link' = [link EXCEPT ![c] = "closed"] \/ link' = [link EXCEPT ![c] = "reset"]
        /\ sock' = sock \/ sock' = [sock EXCEPT ![c] = << >>]
        /\ UNCHANGED <<server, phase, current, session, connections, handler, storage, restarts>>
    BY <1>6 DEF ClientCloses, Reset
  <2>2. LoopOK'
    BY <1>0, <2>1 DEF LoopOK
  <2>3. link' \in [Clients -> {"none", "open", "closed", "reset"}]
        /\ \A x \in Clients : (link'[x] = "none") = (link[x] = "none")
    BY <1>0, <2>1 DEF NetOK
  <2>4. sock' \in [Clients -> Seq(Messages)] /\ \A x \in Clients : sock'[x] = sock[x] \/ sock'[x] = << >>
    BY <1>0, <1>q, <2>1, ZenonT(40) DEF NetOK
  <2>5. TypeOK' /\ Quiet
    BY <1>0, <2>1, <2>2, <2>3, <2>4, InactiveStep
  <2> QED
    BY <2>5 DEF Step
<1>7. ASSUME NEW d \in Domains, SecondPasses(d)
      PROVE  TypeOK' /\ Step
  <2>1. /\ db[d].ref_count > 0 /\ db' = [db EXCEPT ![d].overdue = 1]
        /\ UNCHANGED <<server, phase, current, net, handler, work, stored, restarts>>
    BY <1>7 DEF SecondPasses
  <2>2. UNCHANGED <<link, sock, session, connections>>
    BY <2>1 DEF net
  <2>3. \A c \in Clients : Same(c)
    BY <2>1, <2>2, UnchangedIsSame
  <2>4. StorageOK'
    <3>1. DOMAIN Closed = {"ref_count", "start_time", "first_table", "sender_cnt", "overdue"}
      BY DEF Closed
    <3> QED
      BY <1>0, <2>1, <3>1 DEF StorageOK, DatabaseOK, ContentOK, RowOK
  <2>5. LoopOK' /\ NetOK' /\ HandlersOK'
    BY <2>1, <2>2, TypeParts DEF LoopOK, NetOK, HandlersOK, ConnectionOK, BufferOK, Done
  <2> QED
    BY <2>1, <2>3, <2>4, <2>5, TypePartsAfter DEF Ages, Step
<1>8. CASE Terminate
  <2>1. /\ server' = "stopping" /\ UNCHANGED <<phase, current, net, storage, restarts>>
        /\ handler' = [c \in Clients |-> [handler[c] EXCEPT !.is_active = 0]]
    BY <1>8 DEF Terminate
  <2>2. LoopOK'
    BY <1>0, <2>1 DEF LoopOK
  <2>3. TypeOK' /\ Quiet
    BY <1>0, <2>1, <2>2, InactiveStep DEF net, NetOK
  <2> QED
    BY <2>3 DEF Step
<1>9. CASE Exit \/ Crash
  BY <1>9, VanishType DEF Exit, Crash, Step
<1>10. CASE Restart \/ UNCHANGED vars
  <2>1. /\ UNCHANGED <<phase, current, net, handler, storage>> /\ server' \in {"up", server}
        /\ restarts' \in {restarts, restarts + 1} /\ (restarts' # restarts => restarts < MaxRestarts)
    BY <1>10 DEF Restart, vars
  <2>2. LoopOK'
    BY <1>0, <2>1, ServerAssumption DEF LoopOK
  <2>3. TypeOK' /\ Quiet
    BY <1>0, <2>1, <2>2, InactiveStep DEF net, NetOK
  <2> QED
    BY <2>3 DEF Step
<1> QED
  BY <1>3, <1>4, <1>5, <1>6, <1>7, <1>8, <1>9, <1>10 DEF Next
-----------------------------------------------------------------------------

(* The initial state is of the right types.                                *)
LEMMA TypeInit ==
  ASSUME Init
  PROVE  TypeOK
<1>1. LoopOK
  BY ServerAssumption DEF Init, LoopOK
<1>2. NetOK
  <2>1. << >> \in Seq(Messages) /\ 0 \in 0..MaxConnections
    BY EmptySeq, ServerAssumption
  <2> QED
    BY <2>1 DEF Init, NetOK
<1>3. HandlersOK
  <2>1. /\ DOMAIN handler = Clients
        /\ \A c \in Clients : /\ handler[c] = NoHandler /\ link[c] = "none"
                              /\ session[c] = NoSession /\ sock[c] = << >>
        /\ phase = "poll"
    BY DEF Init
  <2>2. HandlerShape(NoHandler) /\ NoHandler.state = "none"
    <3>1. << >> \in Seq(Messages)
      BY EmptySeq
    <3> QED
      BY <3>1 DEF HandlerShape, NoHandler
  <2> QED
    BY <2>1, <2>2 DEF HandlersOK, ConnectionOK, BufferOK
<1>4. StorageOK
  BY DEF Init, StorageOK, DatabaseOK, ContentOK, Closed, Empty
<1> QED
  BY <1>1, <1>2, <1>3, <1>4, TypeParts

(* Every state has its type.  For any sessions and any bounds, the handler *)
(* of a connection exists as long as the connection, the loop is in a      *)
(* callback only of a handler that exists, and what is in the buffer and   *)
(* in the socket is what follows in the session what has been processed.   *)
THEOREM TypeCorrect == Spec => []TypeOK
<1>1. Init => TypeOK
  BY TypeInit
<1>2. TypeOK /\ [Next]_vars => TypeOK'
  BY TypeStep
<1> QED
  BY <1>1, <1>2, PTL DEF Spec

-----------------------------------------------------------------------------
(***************************************************************************)
(* However clients of the databases come and go, what their handlers point *)
(* to has not been freed: the reference counts of MeasurementServer.       *)
(***************************************************************************)

Refers(h, d) ==
  \/ h.database = d
  \/ \E i \in DOMAIN h.tables : h.tables[i] # NoTable /\ h.tables[i][1] = d

Referrers(d) == {c \in Clients : Refers(handler[c], d)}

(* The tables of a handler are in lists of open databases, and a handler   *)
(* that has streams has stream 0 and a database.                           *)
RefsOK(h, dbs) ==
  /\ \A i \in DOMAIN h.tables : h.tables[i] # NoTable =>
       h.tables[i][1] \in Domains /\ h.tables[i][2] \in DOMAIN dbs[h.tables[i][1]].first_table
  /\ DOMAIN h.tables # {} => 0 \in DOMAIN h.tables
  /\ DOMAIN h.tables # {} /\ h.state # "C_PROTOCOL_ERROR" => h.database # NoDatabase

MetaKnown(s) == MetaTable \in DOMAIN s.tables => MetaTable \in s.metadata

(* A database counts at least the handlers that refer to it: a handler     *)
(* that is given a second database keeps the first one open for ever.      *)
CountInv == \A d \in Domains : Cardinality(Referrers(d)) <= db[d].ref_count

MetaInv ==
  \A d \in Domains :
    /\ db[d].ref_count > 0 => MetaTable \in DOMAIN db[d].first_table
    /\ MetaKnown(work[d]) /\ MetaKnown(stored[d])

RefInv == CountInv /\ MetaInv /\ \A c \in Clients : RefsOK(handler[c], db)

(* A database that a handler refers to is open, and that handler is the    *)
(* only one if the count is 1.                                             *)
LEMMA ReferredIsOpen ==
  ASSUME TypeOK, RefInv, NEW c \in Clients, NEW d \in Domains, Refers(handler[c], d)
  PROVE  /\ db[d].ref_count > 0
         /\ db[d].ref_count = 1 => \A x \in Clients : Refers(handler[x], d) => x = c
<1>1. db[d].ref_count \in Int /\ Cardinality(Referrers(d)) <= db[d].ref_count
  BY DEF TypeOK, RefInv, CountInv
<1>2. c \in Referrers(d) /\ Referrers(d) \in SUBSET Clients
  BY DEF Referrers
<1>3. db[d].ref_count > 0 /\ (db[d].ref_count = 1 => Referrers(d) = {c})
  BY <1>1, <1>2, Counting, ServerAssumption
<1> QED
  BY <1>3 DEF Referrers

(* A handler that a step leaves alone refers to what it did.               *)
LEMMA SameRefers ==
  ASSUME NEW x, Same(x)
  PROVE  /\ \A d : Refers(handler'[x], d) <=> Refers(handler[x], d)
         /\ \A dbs : RefsOK(handler'[x], dbs) <=> RefsOK(handler[x], dbs)
BY DEF Same, Refers, RefsOK

(* The lists of the databases that x refers to have lost nothing.          *)
LEMMA StillRefsOK ==
  ASSUME NEW h, RefsOK(h, db),
         \A d \in Domains : Refers(h, d) => DOMAIN db[d].first_table \subseteq DOMAIN db'[d].first_table
  PROVE  RefsOK(h, db')
BY DEF RefsOK, Refers

(* A step of c in which no database is closed, and c gets no new one.      *)
LEMMA NoNewReference ==
  ASSUME TypeOK, RefInv, NEW c \in Clients, SameBut(c),
         RefsOK(handler'[c], db'),
         \A d \in Domains :
           /\ Refers(handler'[c], d) => Refers(handler[c], d)
           /\ db'[d].ref_count = db[d].ref_count
           /\ DOMAIN db[d].first_table \subseteq DOMAIN db'[d].first_table
           /\ MetaKnown(work'[d]) /\ MetaKnown(stored'[d])
  PROVE  RefInv'
<1>1. CountInv'
  <2> SUFFICES ASSUME NEW d \in Domains
               PROVE  Cardinality(Referrers(d)') <= db'[d].ref_count
    BY DEF CountInv
  <2>1. Referrers(d)' \subseteq Referrers(d)
    BY SameRefers DEF Referrers, SameBut
  <2>2. db[d].ref_count \in Int /\ Cardinality(Referrers(d)) <= db[d].ref_count
    BY DEF TypeOK, RefInv, CountInv
  <2>3. Referrers(d) \in SUBSET Clients /\ Referrers(d)' \in SUBSET Clients
    BY DEF Referrers
  <2> QED
    BY <2>1, <2>2, <2>3, Counting, ServerAssumption
<1>2. MetaInv'
  BY DEF RefInv, MetaInv
<1>3. \A x \in Clients : RefsOK(handler'[x], db')
  <2> TAKE x \in Clients
  <2>1. CASE x # c
    BY <2>1, SameRefers, StillRefsOK DEF RefInv, SameBut
  <2> QED
    BY <2>1
<1> QED
  BY <1>1, <1>2, <1>3 DEF RefInv

(* No handler refers to a database before the first client comes.          *)
LEMMA RefInit ==
  ASSUME Init
  PROVE  RefInv
<1>1. /\ \A c \in Clients : handler[c] = NoHandler
      /\ \A d \in Domains : db[d] = Closed /\ work[d] = Empty /\ stored[d] = Empty
  BY DEF Init
<1>2. NoHandler.database = NoDatabase /\ NoHandler.tables = << >> /\ DOMAIN << >> = {}
      /\ Closed.ref_count = 0 /\ Empty.tables = << >>
  BY DEF NoHandler, Closed, Empty
<1>3. \A d \in Domains : Referrers(d) = {}
  BY <1>1, <1>2, ServerAssumption DEF Referrers, Refers
<1>4. CountInv
  <2>1. Cardinality({}) = 0
    BY FS_EmptySet
  <2> SUFFICES ASSUME NEW d \in Domains
               PROVE  Cardinality(Referrers(d)) <= db[d].ref_count
    BY DEF CountInv
  <2>2. Cardinality(Referrers(d)) = 0
    BY <1>3, <2>1
  <2>3. db[d].ref_count = 0
    BY <1>1, <1>2
  <2> QED
    BY <2>2, <2>3
<1>5. MetaInv
  BY <1>1, <1>2 DEF MetaInv, MetaKnown
<1> QED
  BY <1>1, <1>2, <1>4, <1>5 DEF RefInv, RefsOK

(* After a crash there is no handler and no open database.                 *)
LEMMA RefVanish ==
  ASSUME TypeOK, RefInv, Vanish
  PROVE  RefInv'
<1>1. /\ \A c \in Clients : handler'[c] = NoHandler
      /\ \A d \in Domains : db'[d] = Closed
      /\ work' = stored /\ stored' = stored
  BY DEF Vanish
<1>2. NoHandler.database = NoDatabase /\ NoHandler.tables = << >> /\ DOMAIN << >> = {}
      /\ Closed.ref_count = 0
  BY DEF NoHandler, Closed
<1>3. \A d \in Domains : Referrers(d)' = {}
  BY <1>1, <1>2, ServerAssumption DEF Referrers, Refers
<1>4. CountInv'
  BY <1>1, <1>2, <1>3, FS_EmptySet DEF CountInv
<1>5. MetaInv'
  BY <1>1, <1>2 DEF RefInv, MetaInv, MetaKnown
<1> QED
  BY <1>1, <1>2, <1>4, <1>5 DEF RefInv, RefsOK

(* database_release: the last client closes the database.                  *)
LEMMA RefLeave ==
  ASSUME TypeOK, RefInv, NEW c \in Clients, Leaves(c)
  PROVE  RefInv'
<1> DEFINE e == handler[c].database
<1>0. /\ handler'[c] = NoHandler /\ Release(e) /\ SameBut(c)
      /\ NoHandler.database = NoDatabase /\ NoHandler.tables = << >> /\ DOMAIN << >> = {}
      /\ e \in Domains \cup {NoDatabase}
      /\ DOMAIN db = Domains /\ DOMAIN work = Domains /\ DOMAIN stored = Domains
      /\ NoDatabase \notin Domains
  BY ServerAssumption DEF Leaves, NoHandler, TypeOK
<1>1. \A d \in Domains : /\ ~Refers(handler'[c], d)
                         /\ \A x \in Clients \ {c} : Refers(handler'[x], d) <=> Refers(handler[x], d)
  BY <1>0, SameRefers DEF Refers, SameBut
<1>2. \A d \in Domains \ {e} : db'[d] = db[d] /\ work'[d] = work[d] /\ stored'[d] = stored[d]
  BY <1>0 DEF Release, Close, storage
<1>3. e \in Domains =>
        /\ Refers(handler[c], e) /\ db[e].ref_count > 0
        /\ work'[e] = work[e] /\ stored'[e] \in {work[e], stored[e]}
        /\ \/ db[e].ref_count = 1 /\ db'[e] = Closed
           \/ db[e].ref_count # 1 /\ db'[e].ref_count = db[e].ref_count - 1
              /\ db'[e].first_table = db[e].first_table
  <2> SUFFICES ASSUME e \in Domains
               PROVE  /\ Refers(handler[c], e) /\ db[e].ref_count > 0
                      /\ work'[e] = work[e] /\ stored'[e] \in {work[e], stored[e]}
                      /\ \/ db[e].ref_count = 1 /\ db'[e] = Closed
                         \/ db[e].ref_count # 1 /\ db'[e].ref_count = db[e].ref_count - 1
                            /\ db'[e].first_table = db[e].first_table
    OBVIOUS
  <2>1. Refers(handler[c], e) /\ db[e].ref_count > 0
    BY ReferredIsOpen DEF Refers
  <2>2. CASE db[e].ref_count = 1
    BY <1>0, <2>1, <2>2 DEF Release, LastClient, Close
  <2>3. CASE db[e].ref_count # 1
    <3>1. DOMAIN db[e] = {"ref_count", "start_time", "first_table", "sender_cnt", "overdue"}
      BY DEF TypeOK, Closed
    <3>2. db' = [db EXCEPT ![e].ref_count = @ - 1] /\ UNCHANGED <<work, stored>>
      BY <1>0, <2>3 DEF Release, LastClient
    <3> QED
      BY <1>0, <2>1, <2>3, <3>1, <3>2
  <2> QED
    BY <2>2, <2>3
<1>4. CountInv'
  <2> SUFFICES ASSUME NEW d \in Domains
               PROVE  Cardinality(Referrers(d)') <= db'[d].ref_count
    BY DEF CountInv
  <2>1. db[d].ref_count \in Int /\ Cardinality(Referrers(d)) <= db[d].ref_count
    BY DEF TypeOK, RefInv, CountInv
  <2>2. /\ Referrers(d) \in SUBSET Clients /\ Referrers(d)' \in SUBSET Clients
        /\ Referrers(d)' \subseteq Referrers(d) \ {c}
    BY <1>1 DEF Referrers
  <2>3. CASE d # e
    <3>1. db'[d].ref_count = db[d].ref_count
      BY <1>2, <2>3
    <3> QED
      BY <2>1, <2>2, <3>1, Counting, ServerAssumption
  <2>4. CASE d = e
    <3>1. c \in Referrers(d) /\ db'[d].ref_count = db[d].ref_count - 1
      BY <1>3, <2>4 DEF Referrers, Closed
    <3> QED
      BY <2>1, <2>2, <3>1, Counting, ServerAssumption
  <2> QED
    BY <2>3, <2>4
<1>5. MetaInv'
  <2> SUFFICES ASSUME NEW d \in Domains
               PROVE  /\ db'[d].ref_count > 0 => MetaTable \in DOMAIN db'[d].first_table
                      /\ MetaKnown(work'[d]) /\ MetaKnown(stored'[d])
    BY DEF MetaInv
  <2>1. CASE d # e
    BY <1>2, <2>1 DEF RefInv, MetaInv
  <2>2. CASE d = e
    <3>1. db'[e] = Closed => ~(db'[e].ref_count > 0)
      BY DEF Closed
    <3> QED
      BY <1>3, <2>2, <3>1 DEF RefInv, MetaInv
  <2> QED
    BY <2>1, <2>2
<1>6. ASSUME NEW x \in Clients
      PROVE  RefsOK(handler'[x], db')
  <2>1. CASE x = c
    BY <1>0, <2>1 DEF RefsOK
  <2>2. CASE x # c
    <3>1. \A d \in Domains : Refers(handler[x], d) => DOMAIN db[d].first_table \subseteq DOMAIN db'[d].first_table
      <4>1. Refers(handler[x], e) /\ e \in Domains => db[e].ref_count # 1
        BY <1>3, <2>2, ReferredIsOpen
      <4> QED
        BY <1>2, <1>3, <4>1
    <3>2. RefsOK(handler[x], db')
      BY <3>1, StillRefsOK DEF RefInv
    <3> QED
      BY <1>0, <2>2, <3>2, SameRefers DEF SameBut
  <2> QED
    BY <2>1, <2>2
<1> QED
  BY <1>4, <1>5, <1>6 DEF RefInv
-----------------------------------------------------------------------------
(* The references of a handler that has consumed a message, and of one     *)
(* that is given a table.                                                  *)
LEMMA PreparedRefs ==
  ASSUME TypeOK, RefInv, NEW c \in Clients, Live(c), handler[c].mbuf # << >>,
         NEW h, Prepared(c, h)
  PROVE  RefsOK(h, db) /\ \A d \in Domains : Refers(h, d) => Refers(handler[c], d)
<1>0. /\ h.state = handler[c].state /\ h.database = handler[c].database
      /\ h.state # "C_PROTOCOL_ERROR"
      /\ h.database \in Domains \cup {NoDatabase}
      /\ RefsOK(handler[c], db)
  BY PreparedShape DEF Live, RefInv, HandlerShape
<1>1. CASE h.tables = handler[c].tables
  BY <1>0, <1>1 DEF RefsOK, Refers
<1>2. CASE 0 \in DOMAIN handler[c].tables /\ h = WithStream(Consumed(c), 0, Table0(c))
  <2>1. handler[c].database \in Domains
    BY <1>0, <1>2 DEF RefsOK
  <2>2. MetaTable \in DOMAIN db[handler[c].database].first_table
    BY <2>1, ReferredIsOpen DEF Refers, RefInv, MetaInv
  <2>3. /\ DOMAIN NoHandler = {"state", "content", "mbuf", "received", "database", "sender_id",
                              "time_offset", "tables", "is_active"}
        /\ DOMAIN handler[c] = DOMAIN NoHandler
    BY HandlerTypes DEF HandlerShape
  <2>4. /\ DOMAIN h.tables = DOMAIN handler[c].tables
        /\ \A j \in DOMAIN h.tables : h.tables[j] = IF j = 0 THEN Table0(c) ELSE handler[c].tables[j]
    BY <1>2, <2>3 DEF WithStream, Consumed
  <2>5. CASE handler[c].tables[0] = NoTable
    <3>1. Table0(c)[1] = handler[c].database /\ Table0(c)[2] = MetaTable
      BY <2>5 DEF Table0
    <3> QED
      BY <1>0, <1>2, <2>1, <2>2, <2>4, <3>1 DEF RefsOK, Refers
  <2>6. CASE handler[c].tables[0] # NoTable
    <3>1. Table0(c) = handler[c].tables[0]
      BY <2>6 DEF Table0
    <3>2. \A j \in DOMAIN h.tables : h.tables[j] = handler[c].tables[j]
      BY <2>4, <3>1
    <3> QED
      BY <1>0, <2>4, <3>2 DEF RefsOK, Refers
  <2> QED
    BY <2>5, <2>6
<1> QED
  BY <1>1, <1>2, PreparedShape

(* A stream that is given a table of the handler's database refers to no   *)
(* other database.                                                         *)
LEMMA StreamRefs ==
  ASSUME NEW h, DOMAIN h = DOMAIN NoHandler, NEW dbs, RefsOK(h, dbs),
         NEW i \in Nat, NEW d \in Domains, h.database = d, NEW t,
         t \in DOMAIN dbs[d].first_table
  PROVE  /\ RefsOK(WithStream(h, i, <<d, t>>), dbs)
         /\ \A e \in Domains : Refers(WithStream(h, i, <<d, t>>), e) => Refers(h, e)
<1> DEFINE h1 == WithStream(h, i, <<d, t>>)
<1>1. DOMAIN NoHandler = {"state", "content", "mbuf", "received", "database", "sender_id",
                         "time_offset", "tables", "is_active"}
  BY DEF NoHandler
<1>2. /\ h1.state = h.state /\ h1.database = d /\ 0 \in DOMAIN h1.tables
      /\ \A j \in DOMAIN h1.tables :
           \/ h1.tables[j] = <<d, t>> \/ h1.tables[j] = NoTable
           \/ j \in DOMAIN h.tables /\ h1.tables[j] = h.tables[j]
  BY <1>1 DEF WithStream
<1> HIDE DEF h1
<1>3. d # NoDatabase
  BY ServerAssumption
<1>4. RefsOK(h1, dbs) /\ \A e \in Domains : Refers(h1, e) => Refers(h, e)
  BY <1>2, <1>3 DEF RefsOK, Refers
<1> QED
  BY <1>4 DEF h1

(* database_find: the database is opened, or has one more client.          *)
LEMMA RefFind ==
  ASSUME TypeOK, RefInv, NEW c \in Clients, SameBut(c), NEW d \in Domains, FindDatabase(d),
         NEW h, DOMAIN h = DOMAIN NoHandler, RefsOK(h, db),
         \A e \in Domains : Refers(h, e) => Refers(handler[c], e),
         handler'[c] = [h EXCEPT !.database = d]
  PROVE  RefInv'
<1>0. /\ DOMAIN Closed = {"ref_count", "start_time", "first_table", "sender_cnt", "overdue"}
      /\ DOMAIN db = Domains /\ DOMAIN work = Domains /\ DOMAIN stored = Domains
      /\ DOMAIN Empty = {"tables", "metadata", "senders", "start_time", "rows"}
      /\ DOMAIN stored[d] = DOMAIN Empty
      /\ \A e \in Domains : DOMAIN db[e] = DOMAIN Closed /\ db[e].ref_count \in Int
  BY DEF Closed, Empty, TypeOK
<1>1. /\ stored' = stored
      /\ \A e \in Domains \ {d} : db'[e] = db[e] /\ work'[e] = work[e]
  BY <1>0 DEF FindDatabase
<1>2. \/ /\ db[d].ref_count > 0 /\ db'[d].ref_count = db[d].ref_count + 1
         /\ db'[d].first_table = db[d].first_table /\ work'[d] = work[d]
      \/ /\ ~(db[d].ref_count > 0) /\ db'[d].ref_count = 1
         /\ MetaTable \in DOMAIN db'[d].first_table /\ MetaTable \in work'[d].metadata
  <2>1. CASE db[d].ref_count > 0
    <3>1. db' = [db EXCEPT ![d].ref_count = @ + 1] /\ work' = work
      BY <2>1 DEF FindDatabase
    <3> QED
      BY <1>0, <2>1, <3>1
  <2>2. CASE ~(db[d].ref_count > 0)
    <3> DEFINE s == WithMetaTable(stored[d])
    <3>1. /\ work' = [work EXCEPT ![d] = s]
          /\ db' = [db EXCEPT ![d] = [Closed EXCEPT !.ref_count = 1, !.start_time = s.start_time,
                                                    !.first_table = LoadTables(s)]]
      BY <2>2 DEF FindDatabase
    <3>2. MetaTable \in DOMAIN s.tables /\ MetaTable \in s.metadata
      BY <1>0 DEF WithMetaTable, Put, RefInv, MetaInv, MetaKnown
    <3>3. MetaTable \in DOMAIN LoadTables(s)
      BY <3>2 DEF LoadTables
    <3> HIDE DEF s
    <3>4. db'[d].ref_count = 1 /\ db'[d].first_table = LoadTables(s) /\ work'[d] = s
      BY <1>0, <3>1
    <3> QED
      BY <2>2, <3>2, <3>3, <3>4
  <2> QED
    BY <2>1, <2>2
<1>3. handler'[c].database = d /\ handler'[c].tables = h.tables
  <2>1. DOMAIN h = {"state", "content", "mbuf", "received", "database", "sender_id",
                   "time_offset", "tables", "is_active"}
    BY DEF NoHandler
  <2> QED
    BY <2>1
<1>4. CountInv'
  <2> SUFFICES ASSUME NEW e \in Domains
               PROVE  Cardinality(Referrers(e)') <= db'[e].ref_count
    BY DEF CountInv
  <2>1. db[e].ref_count \in Int /\ Cardinality(Referrers(e)) <= db[e].ref_count
    BY <1>0 DEF RefInv, CountInv
  <2>2. \A x \in Clients \ {c} : Refers(handler'[x], e) <=> Refers(handler[x], e)
    BY SameRefers DEF SameBut
  <2>3. /\ Referrers(e) \in SUBSET Clients /\ Referrers(e)' \in SUBSET Clients
        /\ Referrers(e)' \subseteq Referrers(e) \cup {c}
    BY <2>2 DEF Referrers
  <2>4. CASE e # d
    <3>1. Referrers(e)' \subseteq Referrers(e)
      <4>1. Refers(handler'[c], e) => Refers(handler[c], e)
        BY <1>3, <2>4 DEF Refers
      <4> QED
        BY <2>2, <4>1 DEF Referrers
    <3>2. db'[e].ref_count = db[e].ref_count
      BY <1>1, <2>4
    <3> QED
      BY <2>1, <2>3, <3>1, <3>2, Counting, ServerAssumption
  <2>5. CASE e = d /\ db[d].ref_count > 0
    <3>1. db'[e].ref_count = db[e].ref_count + 1
      BY <1>2, <2>5
    <3> QED
      BY <2>1, <2>3, <3>1, Counting, ServerAssumption
  <2>6. CASE e = d /\ ~(db[d].ref_count > 0)
    <3>1. Referrers(e) = {}
      BY <2>6, ReferredIsOpen DEF Referrers
    <3>2. {} \in SUBSET Clients /\ Cardinality({}) <= 0 /\ 0 \in Int
      BY FS_EmptySet
    <3>3. Referrers(e)' \subseteq {} \cup {c}
      BY <2>3, <3>1
    <3>4. Cardinality(Referrers(e)') <= 0 + 1
      BY <2>3, <3>2, <3>3, Counting, ServerAssumption
    <3>5. db'[e].ref_count = 0 + 1
      BY <1>2, <2>6
    <3> QED
      BY <3>4, <3>5
  <2> QED
    BY <2>4, <2>5, <2>6
<1>5. MetaInv'
  <2> SUFFICES ASSUME NEW e \in Domains
               PROVE  /\ db'[e].ref_count > 0 => MetaTable \in DOMAIN db'[e].first_table
                      /\ MetaKnown(work'[e]) /\ MetaKnown(stored'[e])
    BY DEF MetaInv
  <2>1. CASE e # d
    BY <1>1, <2>1 DEF RefInv, MetaInv
  <2>2. CASE e = d
    BY <1>1, <1>2, <2>2 DEF RefInv, MetaInv, MetaKnown
  <2> QED
    BY <2>1, <2>2
<1>6. ASSUME NEW x \in Clients
      PROVE  RefsOK(handler'[x], db')
  <2>1. ASSUME NEW g, RefsOK(g, db), db[d].ref_count > 0 \/ ~Refers(g, d)
        PROVE  RefsOK(g, db')
    BY <1>1, <1>2, <2>1, StillRefsOK
  <2>2. CASE x # c
    <3>1. RefsOK(handler[x], db) /\ (db[d].ref_count > 0 \/ ~Refers(handler[x], d))
      BY ReferredIsOpen DEF RefInv
    <3> QED
      BY <2>1, <2>2, <3>1, SameRefers DEF SameBut
  <2>3. CASE x = c
    <3>1. db[d].ref_count > 0 \/ ~Refers(h, d)
      BY ReferredIsOpen
    <3>2. RefsOK(h, db')
      BY <2>1, <3>1
    <3>3. d # NoDatabase
      BY ServerAssumption
    <3> QED
      BY <1>3, <2>3, <3>2, <3>3 DEF RefsOK
  <2> QED
    BY <2>2, <2>3
<1> QED
  BY <1>4, <1>5, <1>6 DEF RefInv

(* A step of c in which no database is opened or closed.                   *)
LEMMA RefOutcome ==
  ASSUME TypeOK, RefInv, NEW c \in Clients, Live(c), handler[c].mbuf # << >>, SameBut(c),
         NEW h, Prepared(c, h), Outcome(c, h)
  PROVE  RefInv'
<1>0. /\ DOMAIN NoHandler = {"state", "content", "mbuf", "received", "database", "sender_id",
                            "time_offset", "tables", "is_active"}
      /\ HandlerShape(h) /\ DOMAIN h = DOMAIN NoHandler
      /\ RefsOK(h, db) /\ \A d \in Domains : Refers(h, d) => Refers(handler[c], d)
      /\ h.state # "C_PROTOCOL_ERROR" /\ h.content # "C_PROTOCOL_ERROR"
      /\ DOMAIN handler = Clients
      /\ h.database \in Domains \cup {NoDatabase} /\ NoDatabase \notin Domains
  BY PreparedShape, PreparedRefs, HandlerTypes, ServerAssumption DEF HandlerShape, Live
<1>d. /\ DOMAIN Closed = {"ref_count", "start_time", "first_table", "sender_cnt", "overdue"}
      /\ DOMAIN Empty = {"tables", "metadata", "senders", "start_time", "rows"}
      /\ DOMAIN db = Domains /\ DOMAIN work = Domains /\ DOMAIN stored = Domains
      /\ \A d \in Domains : /\ DOMAIN db[d] = DOMAIN Closed
                            /\ DOMAIN work[d] = DOMAIN Empty /\ DOMAIN stored[d] = DOMAIN Empty
                            /\ MetaKnown(work[d]) /\ MetaKnown(stored[d])
  BY DEF Closed, Empty, TypeOK, RefInv, MetaInv
<1> DEFINE Keeps(d) == /\ db'[d].ref_count = db[d].ref_count
                       /\ DOMAIN db[d].first_table \subseteq DOMAIN db'[d].first_table
                       /\ MetaKnown(work'[d]) /\ MetaKnown(stored'[d])
<1>1. ASSUME NEW g, Becomes(c, g), RefsOK(g, db'), \A d \in Domains : Refers(g, d) => Refers(h, d),
             \A d \in Domains : Keeps(d)
      PROVE  RefInv'
  <2>1. handler'[c] = g
    BY <1>0, <1>1 DEF Becomes
  <2> QED
    BY <1>0, <1>1, <2>1, NoNewReference
<1>2. UNCHANGED storage => \A d \in Domains : Keeps(d)
  BY <1>d DEF storage
<1>3. ASSUME NEW g, Becomes(c, g), g.tables = h.tables, g.database = h.database,
             \A d \in Domains : Keeps(d)
      PROVE  RefInv'
  <2>1. \A d \in Domains : Refers(g, d) => Refers(h, d)
    BY <1>3 DEF Refers
  <2>2. RefsOK(h, db')
    BY <1>0, <1>3, StillRefsOK
  <2>3. RefsOK(g, db')
    BY <1>0, <1>3, <2>2 DEF RefsOK
  <2> HIDE DEF Keeps
  <2> QED
    BY <1>1, <1>3, <2>1, <2>3
<1>4. CASE Passes(c, h)
  BY <1>2, <1>3, <1>4 DEF Passes
<1>5. CASE SetsContent(c, h)
  <2> DEFINE g == [h EXCEPT !.content = Message(c)[2]]
  <2>1. g.tables = h.tables /\ g.database = h.database
    BY <1>0
  <2>2. Becomes(c, g) /\ UNCHANGED storage
    BY <1>5 DEF SetsContent
  <2> HIDE DEF g, Keeps
  <2> QED
    BY <1>2, <1>3, <2>1, <2>2
<1>6. CASE EndsHeader(c, h)
  <2> DEFINE g == [h EXCEPT !.state = h.content]
  <2>1. g.tables = h.tables /\ g.database = h.database
    BY <1>0
  <2>2. Becomes(c, g) /\ UNCHANGED storage
    BY <1>6 DEF EndsHeader
  <2> HIDE DEF g, Keeps
  <2> QED
    BY <1>2, <1>3, <2>1, <2>2
<1>7. CASE Fails(c, h)
  <2> DEFINE g == [h EXCEPT !.state = "C_PROTOCOL_ERROR"]
  <2>1. g.tables = h.tables /\ g.database = h.database
    BY <1>0
  <2>2. Becomes(c, g) /\ UNCHANGED storage
    BY <1>7 DEF Fails
  <2> HIDE DEF g, Keeps
  <2> QED
    BY <1>2, <1>3, <2>1, <2>2
<1>8. CASE SetsDomain(c, h)
  <2> DEFINE d == Message(c)[2]
  <2>1. d \in Domains
    <3>1. WellFormed(HeaderLine(Message(c))) /\ Message(c)[1] = "domain"
      BY <1>8, NextMessage DEF Live, SetsDomain
    <3> QED
      BY <3>1 DEF WellFormed, HeaderLine
  <2> HIDE DEF d
  <2>2. CASE Becomes(c, [h EXCEPT !.database = d]) /\ FindDatabase(d)
    <3>1. handler'[c] = [h EXCEPT !.database = d]
      BY <1>0, <2>2 DEF Becomes
    <3> QED
      BY <1>0, <2>1, <2>2, <3>1, RefFind
  <2>3. CASE Fails(c, [h EXCEPT !.database = NoDatabase])
    <3> DEFINE g == [[h EXCEPT !.database = NoDatabase] EXCEPT !.state = "C_PROTOCOL_ERROR"]
    <3>1. g.tables = h.tables /\ g.database = NoDatabase /\ g.state = "C_PROTOCOL_ERROR"
      BY <1>0
    <3> HIDE DEF g
    <3>2. Becomes(c, g) /\ UNCHANGED storage
      BY <2>3 DEF Fails, g
    <3>3. RefsOK(g, db') /\ \A e \in Domains : Refers(g, e) => Refers(h, e)
      BY <1>0, <3>1, <3>2 DEF RefsOK, Refers, storage
    <3> HIDE DEF Keeps
    <3> QED
      BY <1>1, <1>2, <3>2, <3>3
  <2> QED
    BY <1>8, <2>2, <2>3 DEF SetsDomain, MetaDomain, d
<1>9. CASE SetsStartTime(c, h) /\ ~Fails(c, h)
  <2> DEFINE t == Message(c)[2]
             d == h.database
             g == [h EXCEPT !.time_offset = t - db'[d].start_time]
  <2>1. d \in Domains
    BY <1>0, <1>9 DEF SetsStartTime, MetaStartTime
  <2>2. /\ Becomes(c, g)
        /\ \/ UNCHANGED storage
           \/ /\ db' = [db EXCEPT ![d].start_time = t] /\ UNCHANGED stored
              /\ work' \in {[work EXCEPT ![d].start_time = t], work}
    BY <1>0, <1>9, <2>1 DEF SetsStartTime, MetaStartTime, storage
  <2>3. g.tables = h.tables /\ g.database = h.database
    BY <1>0
  <2>4. \A e \in Domains : Keeps(e)
    <3>1. CASE db' = [db EXCEPT ![d].start_time = t] /\ UNCHANGED stored
               /\ work' \in {[work EXCEPT ![d].start_time = t], work}
      <4>1. \A e \in Domains : /\ work'[e].tables = work[e].tables
                               /\ work'[e].metadata = work[e].metadata
                               /\ db'[e].ref_count = db[e].ref_count
                               /\ db'[e].first_table = db[e].first_table
        BY <1>d, <3>1
      <4> QED
        BY <1>d, <3>1, <4>1 DEF MetaKnown
    <3> QED
      BY <1>2, <2>2, <3>1
  <2> HIDE DEF g, Keeps
  <2> QED
    BY <1>3, <2>2, <2>3, <2>4
<1>10. CASE SetsSenderId(c, h) /\ ~Fails(c, h)
  <2> DEFINE s == Message(c)[2]
             d == h.database
  <2>1. d \in Domains
    BY <1>0, <1>10 DEF SetsSenderId, MetaSenderId
  <2>2. /\ \E id : Becomes(c, [h EXCEPT !.sender_id = id])
        /\ \/ UNCHANGED storage
           \/ /\ db' = [db EXCEPT ![d].sender_cnt = NextSenderId(d)] /\ UNCHANGED stored
              /\ work' \in {[work EXCEPT ![d].senders = Put(@, s, NextSenderId(d))], work}
    BY <1>0, <1>10, <2>1 DEF SetsSenderId, MetaSenderId, storage
  <2>3. PICK id : Becomes(c, [h EXCEPT !.sender_id = id])
    BY <2>2
  <2> DEFINE g == [h EXCEPT !.sender_id = id]
  <2>4. g.tables = h.tables /\ g.database = h.database
    BY <1>0
  <2>5. \A e \in Domains : Keeps(e)
    <3>1. CASE db' = [db EXCEPT ![d].sender_cnt = NextSenderId(d)] /\ UNCHANGED stored
               /\ work' \in {[work EXCEPT ![d].senders = Put(@, s, NextSenderId(d))], work}
      <4>1. \A e \in Domains : /\ work'[e].tables = work[e].tables
                               /\ work'[e].metadata = work[e].metadata
                               /\ db'[e].ref_count = db[e].ref_count
                               /\ db'[e].first_table = db[e].first_table
        BY <1>d, <3>1
      <4> QED
        BY <1>d, <3>1, <4>1 DEF MetaKnown
    <3> QED
      BY <1>2, <2>2, <3>1
  <2> HIDE DEF g, Keeps
  <2>6. Becomes(c, g)
    BY <2>3 DEF g
  <2> QED
    BY <1>3, <2>4, <2>5, <2>6
<1>11. CASE SetsSchema(c, h) /\ ~Fails(c, h)
  <2> DEFINE line == HeaderLine(Message(c))
             d == h.database
             i == line[2]
  <2>1. d \in Domains /\ i \in Nat
    <3>1. WellFormed(line) /\ line[1] = "schema"
      BY <1>11, NextMessage DEF Live, SetsSchema
    <3> QED
      BY <1>0, <1>11, <3>1 DEF SetsSchema, ProcessSchema, WellFormed
  <2>2. PICK t : /\ Becomes(c, WithStream(h, i, <<d, t>>))
                 /\ \/ t \in DOMAIN db[d].first_table /\ UNCHANGED storage
                    \/ /\ t \notin DOMAIN db[d].first_table
                       /\ db' = [db EXCEPT ![d].first_table = Put(@, t, line[4])]
                       /\ work' = [work EXCEPT ![d] = WithTable(@, t, line[4])]
                       /\ UNCHANGED stored
    BY <1>0, <1>11, <2>1 DEF SetsSchema, ProcessSchema
  <2>3. (\A e \in Domains : Keeps(e)) /\ t \in DOMAIN db'[d].first_table
    <3>1. CASE t \in DOMAIN db[d].first_table /\ UNCHANGED storage
      BY <1>2, <3>1 DEF storage
    <3>2. CASE /\ t \notin DOMAIN db[d].first_table
               /\ db' = [db EXCEPT ![d].first_table = Put(@, t, line[4])]
               /\ work' = [work EXCEPT ![d] = WithTable(@, t, line[4])]
               /\ UNCHANGED stored
      <4>1. \A e \in Domains \ {d} : db'[e] = db[e] /\ work'[e] = work[e]
        BY <1>d, <3>2
      <4>2. /\ db'[d].ref_count = db[d].ref_count
            /\ DOMAIN db'[d].first_table = DOMAIN db[d].first_table \cup {t}
        BY <1>d, <2>1, <3>2 DEF Put
      <4>3. /\ DOMAIN work'[d].tables = DOMAIN work[d].tables \cup {t}
            /\ work[d].metadata \subseteq work'[d].metadata
        BY <1>d, <2>1, <3>2 DEF Put, WithTable
      <4>4. t # MetaTable
        <5>1. Refers(handler[c], d)
          BY <1>0, <2>1 DEF Refers
        <5>2. MetaTable \in DOMAIN db[d].first_table
          BY <2>1, <5>1, ReferredIsOpen DEF RefInv, MetaInv
        <5> QED
          BY <3>2, <5>2
      <4>5. MetaKnown(work'[d])
        BY <1>d, <2>1, <4>3, <4>4 DEF MetaKnown
      <4> QED
        BY <1>d, <3>2, <4>1, <4>2, <4>5
    <3> QED
      BY <2>2, <3>1, <3>2
  <2> DEFINE g == WithStream(h, i, <<d, t>>)
  <2> HIDE DEF i, Keeps
  <2>4. RefsOK(h, db')
    BY <1>0, <2>3, StillRefsOK DEF Keeps
  <2>5. RefsOK(g, db') /\ \A e \in Domains : Refers(g, e) => Refers(h, e)
    BY <1>0, <2>1, <2>3, <2>4, StreamRefs
  <2> HIDE DEF g
  <2>6. Becomes(c, g)
    BY <2>2 DEF g
  <2> QED
    BY <1>1, <2>3, <2>5, <2>6
<1>12. CASE InsertsRow(c, h) \/ InsertsMeta(c, h)
  <2>1. PICK table : Insert(c, h, table)
    BY <1>12 DEF InsertsRow, InsertsMeta
  <2> DEFINE d == h.database
             row == [client |-> <<c, connections[c]>>, session |-> session[c],
                     at |-> Position(c), table |-> table[2], sender_id |-> h.sender_id,
                     time_offset |-> h.time_offset]
  <2>2. /\ Becomes(c, h)
        /\ \/ UNCHANGED storage
           \/ /\ db' = [db EXCEPT ![d].overdue = 0]
              /\ stored' = stored \/ stored' = [stored EXCEPT ![d] = work[d]]
              /\ work' = [work EXCEPT ![table[1]].rows = @ \cup {row}] \/ work' = work
    BY <2>1 DEF Insert, Committed
  <2> HIDE DEF row
  <2>3. \A e \in Domains : Keeps(e)
    <3>1. CASE /\ db' = [db EXCEPT ![d].overdue = 0]
               /\ stored' = stored \/ stored' = [stored EXCEPT ![d] = work[d]]
               /\ work' = [work EXCEPT ![table[1]].rows = @ \cup {row}] \/ work' = work
      <4>1. \A e \in Domains : /\ db'[e].ref_count = db[e].ref_count
                               /\ db'[e].first_table = db[e].first_table
        BY <1>d, <3>1
      <4>2. \A e \in Domains : work'[e].tables = work[e].tables /\ work'[e].metadata = work[e].metadata
        <5>1. CASE work' = [work EXCEPT ![table[1]].rows = @ \cup {row}]
          BY <1>d, <5>1
        <5> QED
          BY <3>1, <5>1
      <4>3. \A e \in Domains : stored'[e] \in {work[e], stored[e]}
        BY <1>d, <3>1
      <4> QED
        BY <1>d, <4>1, <4>2, <4>3 DEF MetaKnown
    <3> QED
      BY <1>2, <2>2, <3>1
  <2> HIDE DEF Keeps
  <2> QED
    BY <1>3, <2>2, <2>3
<1> QED
  BY <1>4, <1>5, <1>6, <1>7, <1>8, <1>9, <1>10, <1>11, <1>12 DEF Outcome

(* Every step keeps the count of each database up with the handlers that   *)
(* refer to it.                                                            *)
LEMMA RefStep ==
  ASSUME TypeOK, RefInv, Step
  PROVE  RefInv'
<1>0. /\ DOMAIN Closed = {"ref_count", "start_time", "first_table", "sender_cnt", "overdue"}
      /\ DOMAIN NoHandler = {"state", "content", "mbuf", "received", "database", "sender_id",
                            "time_offset", "tables", "is_active"}
      /\ DOMAIN db = Domains /\ \A d \in Domains : DOMAIN db[d] = DOMAIN Closed
  BY DEF Closed, NoHandler, TypeOK
<1>1. ASSUME \A c \in Clients : Same(c), UNCHANGED <<work, stored>>,
             \A d \in Domains : /\ db'[d].ref_count = db[d].ref_count
                                /\ db'[d].first_table = db[d].first_table
      PROVE  RefInv'
  <2>1. \A d \in Domains : Referrers(d)' = Referrers(d)
    BY <1>1, SameRefers DEF Referrers
  <2>2. CountInv' /\ MetaInv'
    BY <1>1, <2>1 DEF RefInv, CountInv, MetaInv, MetaKnown
  <2>3. \A x \in Clients : RefsOK(handler[x], db')
    BY <1>1, StillRefsOK DEF RefInv
  <2>4. \A x \in Clients : RefsOK(handler'[x], db')
    BY <1>1, <2>3, SameRefers
  <2> QED
    BY <2>2, <2>4 DEF RefInv
<1>2. CASE Quiet
  BY <1>1, <1>2 DEF Quiet, storage
<1>3. ASSUME NEW c \in Clients, Arrives(c)
      PROVE  RefInv'
  <2>1. /\ handler'[c].database = NoDatabase /\ handler'[c].tables = << >>
        /\ DOMAIN << >> = {} /\ NoDatabase \notin Domains
    BY <1>0, <1>3, ServerAssumption DEF Arrives, NewHandler, NoHandler
  <2>2. RefsOK(handler'[c], db') /\ \A d \in Domains : ~Refers(handler'[c], d)
    BY <2>1 DEF RefsOK, Refers
  <2>3. SameBut(c) /\ UNCHANGED <<db, work, stored>>
    BY <1>3 DEF Arrives, storage
  <2> QED
    BY <2>2, <2>3, NoNewReference DEF RefInv, MetaInv
<1>4. ASSUME NEW c \in Clients, Processes(c), SameBut(c)
      PROVE  RefInv'
  <2>1. Live(c) /\ handler[c].mbuf # << >>
    BY <1>4 DEF Processes
  <2>2. CASE Fails(c, handler[c])
    <3>1. /\ handler'[c].tables = handler[c].tables /\ handler'[c].database = handler[c].database
          /\ handler'[c].state = "C_PROTOCOL_ERROR" /\ UNCHANGED <<db, work, stored>>
      BY <1>0, <2>2, HandlerTypes DEF Fails, Becomes, storage, HandlerShape
    <3>2. RefsOK(handler[c], db)
      BY DEF RefInv
    <3>3. RefsOK(handler'[c], db') /\ \A d \in Domains : Refers(handler'[c], d) => Refers(handler[c], d)
      BY <3>1, <3>2 DEF RefsOK, Refers
    <3> QED
      BY <1>4, <3>1, <3>3, NoNewReference DEF RefInv, MetaInv
  <2>3. CASE \E h : Prepared(c, h) /\ Outcome(c, h)
    BY <1>4, <2>1, <2>3, RefOutcome
  <2> QED
    BY <1>4, <2>2, <2>3 DEF Processes
<1>5. ASSUME NEW d \in Domains, Ages(d)
      PROVE  RefInv'
  BY <1>0, <1>1, <1>5 DEF Ages
<1> QED
  BY <1>2, <1>3, <1>4, <1>5, RefLeave, RefVanish DEF Step

(* Types and references are right in every state.                          *)
LEMMA RefCorrect == Spec => [](TypeOK /\ RefInv)
<1>1. Init => TypeOK /\ RefInv
  BY TypeInit, RefInit
<1>2. (TypeOK /\ RefInv) /\ [Next]_vars => (TypeOK /\ RefInv)'
  BY TypeStep, RefStep
<1> QED
  BY <1>1, <1>2, PTL DEF Spec

(* However clients come and go, fail, and name databases twice, the        *)
(* database and the tables that a handler points to have not been freed:   *)
(* database_release counts at least the handlers that refer to a database. *)
THEOREM NothingFreedIsUsed == Spec => []HandlersPointToLiveData
<1>1. TypeOK /\ RefInv => HandlersPointToLiveData
  <2> SUFFICES ASSUME TypeOK, RefInv, NEW c \in Clients
               PROVE  /\ handler[c].database # NoDatabase => db[handler[c].database].ref_count > 0
                      /\ \A i \in DOMAIN handler[c].tables :
                           handler[c].tables[i] # NoTable =>
                             /\ db[handler[c].tables[i][1]].ref_count > 0
                             /\ handler[c].tables[i][2]
                                  \in DOMAIN db[handler[c].tables[i][1]].first_table
    BY DEF HandlersPointToLiveData
  <2>1. handler[c].database \in Domains \cup {NoDatabase} /\ RefsOK(handler[c], db)
    BY DEF TypeOK, RefInv
  <2> QED
    BY <2>1, ReferredIsOpen DEF RefsOK, Refers
<1> QED
  BY <1>1, RefCorrect, PTL

-----------------------------------------------------------------------------
(* What a message changes.                                                 *)

(* The content of a database that is not open is what was committed.       *)
ClosedInv ==
  \A d \in Domains : db[d].ref_count > 0 \/ (work[d] = stored[d] /\ db[d] = Closed)

KeepsDatabase(c) ==
  /\ handler'[c].database = handler[c].database
  /\ \A d \in Domains : db'[d].ref_count = db[d].ref_count

KeepsSenders(c) ==
  /\ handler'[c].sender_id = handler[c].sender_id
  /\ \A d \in Domains : /\ work'[d].senders = work[d].senders
                        /\ db'[d].sender_cnt = db[d].sender_cnt

(* A database that is opened reads its date.                               *)
KeepsTimes(c) ==
  /\ handler'[c].time_offset = handler[c].time_offset
  /\ \A d \in Domains : /\ work'[d].start_time = work[d].start_time
                        /\ \/ /\ db'[d].start_time = db[d].start_time
                              /\ db'[d].ref_count > 0 => db[d].ref_count > 0
                           \/ db'[d].start_time = work[d].start_time

Grows(f, g) == \A x \in DOMAIN f : x \in DOMAIN g /\ g[x] = f[x]

(* A database that is opened reads its tables, and has the default one.    *)
KeepsTables(c, h) ==
  /\ handler'[c].tables = h.tables
  /\ \A d \in Domains : /\ Grows(work[d].tables, work'[d].tables)
                        /\ \/ db'[d].first_table = db[d].first_table
                           \/ db'[d].first_table = LoadTables(work'[d])

KeepsRows == \A d \in Domains : work'[d].rows = work[d].rows

Commits ==
  \A d \in Domains :
    /\ stored'[d] \in {stored[d], work[d]}
    /\ \/ db'[d].ref_count > 0
       \/ db'[d] = db[d] /\ work'[d] = work[d] /\ stored'[d] = stored[d]

KeepsState(c) == handler'[c].state = handler[c].state

Ends(c, h) == EndsHeader(c, h) /\ handler'[c].state \in {"C_TEXT_DATA", "C_BINARY_DATA"}

Changed(c, h) ==
  /\ Ends(c, h) \/ KeepsState(c)
  /\ SetsDomain(c, h) \/ KeepsDatabase(c)
  /\ SetsSenderId(c, h) \/ KeepsSenders(c)
  /\ SetsStartTime(c, h) \/ KeepsTimes(c)
  /\ SetsSchema(c, h) \/ KeepsTables(c, h)
  /\ InsertsRow(c, h) \/ InsertsMeta(c, h) \/ KeepsRows
  /\ Commits

Rejected(c) == handler'[c].state = "C_PROTOCOL_ERROR" /\ UNCHANGED storage

(* What an accepted message changes depends on its kind.                   *)
LEMMA Changes ==
  ASSUME TypeOK, RefInv, ClosedInv, NEW c \in Clients, Live(c), handler[c].mbuf # << >>,
         NEW h, Prepared(c, h), Outcome(c, h)
  PROVE  Rejected(c) \/ Changed(c, h)
<1>0. /\ DOMAIN NoHandler = {"state", "content", "mbuf", "received", "database", "sender_id",
                            "time_offset", "tables", "is_active"}
      /\ DOMAIN h = DOMAIN NoHandler
      /\ h.database = handler[c].database /\ h.sender_id = handler[c].sender_id
      /\ h.time_offset = handler[c].time_offset /\ h.state = handler[c].state
      /\ h.content \in {"C_TEXT_DATA", "C_BINARY_DATA"}
      /\ DOMAIN handler = Clients
      /\ h.database \in Domains \cup {NoDatabase} /\ NoDatabase \notin Domains
  BY PreparedShape, HandlerTypes, ServerAssumption DEF HandlerShape
<1>d. /\ DOMAIN Closed = {"ref_count", "start_time", "first_table", "sender_cnt", "overdue"}
      /\ DOMAIN Empty = {"tables", "metadata", "senders", "start_time", "rows"}
      /\ DOMAIN db = Domains /\ DOMAIN work = Domains /\ DOMAIN stored = Domains
      /\ \A d \in Domains : /\ DOMAIN db[d] = DOMAIN Closed /\ db[d].ref_count \in Int
                            /\ DOMAIN work[d] = DOMAIN Empty /\ DOMAIN stored[d] = DOMAIN Empty
  BY DEF Closed, Empty, TypeOK
<1>o. \A d \in Domains : Refers(h, d) => db[d].ref_count > 0
  BY PreparedRefs, ReferredIsOpen
<1>k. ASSUME UNCHANGED storage
      PROVE  /\ KeepsRows /\ Commits
             /\ handler'[c].state = h.state => KeepsState(c)
             /\ handler'[c].database = h.database => KeepsDatabase(c)
             /\ handler'[c].sender_id = h.sender_id => KeepsSenders(c)
             /\ handler'[c].time_offset = h.time_offset => KeepsTimes(c)
             /\ handler'[c].tables = h.tables => KeepsTables(c, h)
  <2>1. \A d \in Domains : Grows(work[d].tables, work[d].tables)
    BY DEF Grows
  <2>2. db' = db /\ work' = work /\ stored' = stored
    BY <1>k DEF storage
  <2>3. Commits
    BY <2>2 DEF ClosedInv, Commits
  <2> QED
    BY <1>0, <2>1, <2>2, <2>3 DEF KeepsState, KeepsDatabase, KeepsSenders, KeepsTimes, KeepsTables,
                                        KeepsRows
<1>1. ASSUME NEW g, Fails(c, g), DOMAIN g = DOMAIN NoHandler
      PROVE  Rejected(c)
  BY <1>0, <1>1 DEF Fails, Becomes, Rejected
<1>2. CASE Passes(c, h) \/ SetsContent(c, h) \/ EndsHeader(c, h)
  <2>1. UNCHANGED storage
    BY <1>2 DEF Passes, SetsContent, EndsHeader
  <2>2. /\ handler'[c].database = h.database /\ handler'[c].sender_id = h.sender_id
        /\ handler'[c].time_offset = h.time_offset /\ handler'[c].tables = h.tables
    BY <1>0, <1>2 DEF Passes, SetsContent, EndsHeader, Becomes
  <2>3. \/ handler'[c].state = h.state
        \/ Ends(c, h)
    BY <1>0, <1>2 DEF Passes, SetsContent, EndsHeader, Ends, Becomes
  <2> QED
    BY <1>k, <2>1, <2>2, <2>3 DEF Changed, KeepsState
<1>3. CASE Fails(c, h)
  BY <1>0, <1>1, <1>3
<1>4. CASE SetsDomain(c, h)
  <2> DEFINE d == Message(c)[2]
  <2>1. d \in Domains
    <3>1. WellFormed(HeaderLine(Message(c))) /\ Message(c)[1] = "domain"
      BY <1>4, NextMessage DEF Live, SetsDomain
    <3> QED
      BY <3>1 DEF WellFormed, HeaderLine
  <2> HIDE DEF d
  <2>2. CASE Becomes(c, [h EXCEPT !.database = d]) /\ FindDatabase(d)
    <3>1. /\ handler'[c].sender_id = h.sender_id /\ handler'[c].state = h.state
          /\ handler'[c].time_offset = h.time_offset /\ handler'[c].tables = h.tables
      BY <1>0, <2>2 DEF Becomes
    <3>2. CASE db[d].ref_count > 0
      <4>1. db' = [db EXCEPT ![d].ref_count = @ + 1] /\ work' = work /\ stored' = stored
        BY <2>2, <3>2 DEF FindDatabase
      <4>2. \A e \in Domains : /\ db'[e].sender_cnt = db[e].sender_cnt
                               /\ db'[e].start_time = db[e].start_time
                               /\ db'[e].first_table = db[e].first_table
        BY <1>d, <4>1
      <4>3. \A e \in Domains : e # d => db'[e] = db[e]
        BY <1>d, <4>1
      <4>4. db'[d].ref_count > 0
        BY <1>d, <2>1, <3>2, <4>1
      <4>5. Commits
        BY <4>1, <4>3, <4>4 DEF ClosedInv, Commits
      <4>6. \A e \in Domains : db'[e].ref_count > 0 => db[e].ref_count > 0
        BY <3>2, <4>3
      <4> QED
        BY <1>0, <1>4, <3>1, <4>1, <4>2, <4>5, <4>6
        DEF Changed, KeepsState, KeepsSenders, KeepsTimes, KeepsTables, KeepsRows, Grows
    <3>3. CASE ~(db[d].ref_count > 0)
      <4> DEFINE s == WithMetaTable(work[d])
      <4>1. work[d] = stored[d] /\ db[d] = Closed
        BY <2>1, <3>3 DEF ClosedInv
      <4>2. /\ work' = [work EXCEPT ![d] = s]
            /\ db' = [db EXCEPT ![d] = [Closed EXCEPT !.ref_count = 1, !.start_time = s.start_time,
                                                      !.first_table = LoadTables(s)]]
            /\ stored' = stored
        BY <2>2, <3>3, <4>1 DEF FindDatabase
      <4>3. /\ s.senders = work[d].senders /\ s.start_time = work[d].start_time
            /\ s.rows = work[d].rows /\ Grows(work[d].tables, s.tables)
        BY <1>d, <2>1 DEF WithMetaTable, Put, Grows
      <4> HIDE DEF s
      <4>4. /\ work'[d] = s /\ db'[d].ref_count = 1 /\ db'[d].start_time = s.start_time
            /\ db'[d].first_table = LoadTables(s) /\ db'[d].sender_cnt = 0
        <5>1. Closed.sender_cnt = 0
          BY DEF Closed
        <5> QED
          BY <1>d, <2>1, <4>2, <5>1
      <4>5. \A e \in Domains : e # d => db'[e] = db[e] /\ work'[e] = work[e]
        BY <1>d, <4>2
      <4>6. Commits
        BY <4>2, <4>4, <4>5 DEF ClosedInv, Commits
      <4>7. db[d].sender_cnt = 0 /\ db[d].ref_count <= 0
        BY <4>1 DEF Closed
      <4> QED
        BY <1>0, <1>4, <2>1, <3>1, <4>3, <4>4, <4>5, <4>6, <4>7
        DEF Changed, KeepsState, KeepsSenders, KeepsTimes, KeepsTables, KeepsRows, Grows
    <3> QED
      BY <3>2, <3>3
  <2>3. CASE Fails(c, [h EXCEPT !.database = NoDatabase])
    BY <1>0, <1>1, <2>3
  <2> QED
    BY <1>4, <2>2, <2>3 DEF SetsDomain, MetaDomain, d
<1>5. CASE SetsStartTime(c, h) /\ ~Fails(c, h)
  <2> DEFINE t == Message(c)[2]
             d == h.database
  <2>1. d \in Domains /\ db[d].ref_count > 0
    BY <1>0, <1>o, <1>5 DEF SetsStartTime, MetaStartTime, Refers
  <2>2. /\ Becomes(c, [h EXCEPT !.time_offset = t - db'[d].start_time])
        /\ \/ UNCHANGED storage
           \/ /\ db' = [db EXCEPT ![d].start_time = t] /\ UNCHANGED stored
              /\ work' \in {[work EXCEPT ![d].start_time = t], work}
    BY <1>0, <1>5, <2>1 DEF SetsStartTime, MetaStartTime, storage
  <2>3. /\ handler'[c].sender_id = h.sender_id /\ handler'[c].state = h.state
        /\ handler'[c].database = h.database /\ handler'[c].tables = h.tables
    BY <1>0, <2>2 DEF Becomes
  <2>4. CASE UNCHANGED storage
    BY <1>k, <1>5, <2>3, <2>4 DEF Changed, KeepsState
  <2>5. CASE /\ db' = [db EXCEPT ![d].start_time = t] /\ UNCHANGED stored
             /\ work' \in {[work EXCEPT ![d].start_time = t], work}
    <3>1. \A e \in Domains :
            /\ db'[e].ref_count = db[e].ref_count /\ db'[e].sender_cnt = db[e].sender_cnt
            /\ db'[e].first_table = db[e].first_table /\ work'[e].tables = work[e].tables
            /\ work'[e].senders = work[e].senders /\ work'[e].rows = work[e].rows
            /\ e # d => db'[e] = db[e] /\ work'[e] = work[e]
      BY <1>d, <2>5
    <3>2. Commits
      BY <2>1, <2>5, <3>1 DEF ClosedInv, Commits
    <3> QED
      BY <1>0, <1>5, <2>3, <3>1, <3>2
      DEF Changed, KeepsState, KeepsDatabase, KeepsSenders, KeepsTables, KeepsRows, Grows
  <2> QED
    BY <2>2, <2>4, <2>5
<1>6. CASE SetsSenderId(c, h) /\ ~Fails(c, h)
  <2> DEFINE s == Message(c)[2]
             d == h.database
  <2>1. d \in Domains /\ db[d].ref_count > 0
    BY <1>0, <1>o, <1>6 DEF SetsSenderId, MetaSenderId, Refers
  <2>2. /\ \E id : Becomes(c, [h EXCEPT !.sender_id = id])
        /\ \/ UNCHANGED storage
           \/ /\ db' = [db EXCEPT ![d].sender_cnt = NextSenderId(d)] /\ UNCHANGED stored
              /\ work' \in {[work EXCEPT ![d].senders = Put(@, s, NextSenderId(d))], work}
    BY <1>0, <1>6, <2>1 DEF SetsSenderId, MetaSenderId, storage
  <2>3. /\ handler'[c].time_offset = h.time_offset /\ handler'[c].state = h.state
        /\ handler'[c].database = h.database /\ handler'[c].tables = h.tables
    BY <1>0, <2>2 DEF Becomes
  <2>4. CASE UNCHANGED storage
    BY <1>k, <1>6, <2>3, <2>4 DEF Changed, KeepsState
  <2>5. CASE /\ db' = [db EXCEPT ![d].sender_cnt = NextSenderId(d)] /\ UNCHANGED stored
             /\ work' \in {[work EXCEPT ![d].senders = Put(@, s, NextSenderId(d))], work}
    <3>1. \A e \in Domains :
            /\ db'[e].ref_count = db[e].ref_count /\ db'[e].start_time = db[e].start_time
            /\ db'[e].first_table = db[e].first_table /\ work'[e].tables = work[e].tables
            /\ work'[e].start_time = work[e].start_time /\ work'[e].rows = work[e].rows
            /\ e # d => db'[e] = db[e] /\ work'[e] = work[e]
      BY <1>d, <2>5, SMTT(40)
    <3>2. Commits
      BY <2>1, <2>5, <3>1 DEF ClosedInv, Commits
    <3> QED
      BY <1>0, <1>6, <2>3, <3>1, <3>2
      DEF Changed, KeepsState, KeepsDatabase, KeepsTimes, KeepsTables, KeepsRows, Grows
  <2> QED
    BY <2>2, <2>4, <2>5
<1>7. CASE SetsSchema(c, h) /\ ~Fails(c, h)
  <2> DEFINE line == HeaderLine(Message(c))
             d == h.database
  <2>1. d \in Domains /\ db[d].ref_count > 0
    BY <1>0, <1>o, <1>7 DEF SetsSchema, ProcessSchema, Refers
  <2>2. PICK t : /\ Becomes(c, WithStream(h, line[2], <<d, t>>))
                 /\ \/ UNCHANGED storage
                    \/ /\ db' = [db EXCEPT ![d].first_table = Put(@, t, line[4])]
                       /\ work' = [work EXCEPT ![d] = WithTable(@, t, line[4])]
                       /\ UNCHANGED stored
    BY <1>0, <1>7, <2>1 DEF SetsSchema, ProcessSchema
  <2>3. /\ handler'[c].sender_id = h.sender_id /\ handler'[c].time_offset = h.time_offset
        /\ handler'[c].database = h.database /\ handler'[c].state = h.state
    BY <1>0, <2>2 DEF Becomes, WithStream
  <2>4. CASE UNCHANGED storage
    BY <1>k, <1>7, <2>3, <2>4 DEF Changed, KeepsState
  <2>5. CASE /\ db' = [db EXCEPT ![d].first_table = Put(@, t, line[4])]
             /\ work' = [work EXCEPT ![d] = WithTable(@, t, line[4])]
             /\ UNCHANGED stored
    <3>1. \A e \in Domains :
            /\ db'[e].ref_count = db[e].ref_count /\ db'[e].start_time = db[e].start_time
            /\ db'[e].sender_cnt = db[e].sender_cnt
            /\ e # d => db'[e] = db[e] /\ work'[e] = work[e]
      BY <1>d, <2>5
    <3>2. \A e \in Domains :
            /\ work'[e].senders = work[e].senders
            /\ work'[e].start_time = work[e].start_time /\ work'[e].rows = work[e].rows
      BY <1>d, <2>5 DEF WithTable
    <3>3. Commits
      BY <2>1, <2>5, <3>1 DEF ClosedInv, Commits
    <3> QED
      BY <1>0, <1>7, <2>3, <3>1, <3>2, <3>3
      DEF Changed, KeepsState, KeepsDatabase, KeepsTimes, KeepsSenders, KeepsRows
  <2> QED
    BY <2>2, <2>4, <2>5
<1>8. CASE InsertsRow(c, h) \/ InsertsMeta(c, h)
  <2>1. PICK table : /\ Insert(c, h, table) /\ DOMAIN handler[c].tables # {}
                     /\ table = Table0(c) \/ \E i \in DOMAIN handler[c].tables :
                                               table = handler[c].tables[i] /\ table # NoTable
    <3>1. CASE InsertsRow(c, h)
      BY <3>1 DEF InsertsRow, Accepted
    <3>2. CASE InsertsMeta(c, h)
      BY <3>2 DEF InsertsMeta
    <3> QED
      BY <1>8, <3>1, <3>2
  <2> DEFINE d == h.database
             row == [client |-> <<c, connections[c]>>, session |-> session[c],
                     at |-> Position(c), table |-> table[2], sender_id |-> h.sender_id,
                     time_offset |-> h.time_offset]
  <2>2. d \in Domains /\ db[d].ref_count > 0
    <3>1. RefsOK(handler[c], db) /\ handler[c].state # "C_PROTOCOL_ERROR"
      BY DEF RefInv, Live
    <3> QED
      BY <1>0, <1>o, <2>1, <3>1 DEF RefsOK, Refers
  <2>3. table[1] \in Domains /\ db[table[1]].ref_count > 0
    <3>1. RefsOK(handler[c], db) /\ Refers(handler[c], d)
      BY <1>0 DEF RefInv, Refers
    <3>2. table[1] \in Domains /\ Refers(handler[c], table[1])
      BY <1>0, <2>1, <2>2, <3>1 DEF RefsOK, Refers, Table0, InsertsMeta
    <3> QED
      BY <3>2, ReferredIsOpen
  <2>4. /\ Becomes(c, h)
        /\ \/ UNCHANGED storage
           \/ /\ db' = [db EXCEPT ![d].overdue = 0]
              /\ stored' = stored \/ stored' = [stored EXCEPT ![d] = work[d]]
              /\ work' = [work EXCEPT ![table[1]].rows = @ \cup {row}] \/ work' = work
    BY <2>1 DEF Insert, Committed
  <2>5. handler'[c] = h
    BY <1>0, <2>4 DEF Becomes
  <2> HIDE DEF row
  <2>6. CASE UNCHANGED storage
    BY <1>k, <1>8, <2>5, <2>6 DEF Changed, KeepsState
  <2>7. CASE /\ db' = [db EXCEPT ![d].overdue = 0]
             /\ stored' = stored \/ stored' = [stored EXCEPT ![d] = work[d]]
             /\ work' = [work EXCEPT ![table[1]].rows = @ \cup {row}] \/ work' = work
    <3>1. \A e \in Domains :
            /\ db'[e].ref_count = db[e].ref_count /\ db'[e].start_time = db[e].start_time
            /\ db'[e].sender_cnt = db[e].sender_cnt /\ db'[e].first_table = db[e].first_table
            /\ e # d => db'[e] = db[e]
      BY <1>d, <2>7
    <3>2. \A e \in Domains :
            /\ work'[e].senders = work[e].senders /\ work'[e].tables = work[e].tables
            /\ work'[e].start_time = work[e].start_time
            /\ e # table[1] => work'[e] = work[e]
      BY <1>d, <2>7
    <3>3. \A e \in Domains : stored'[e] \in {stored[e], work[e]} /\ (e # d => stored'[e] = stored[e])
      BY <1>d, <2>7
    <3>4. Commits
      BY <1>d, <2>2, <2>3, <3>1, <3>2, <3>3 DEF ClosedInv, Commits
    <3> QED
      BY <1>0, <1>8, <2>5, <3>1, <3>2, <3>4
      DEF Changed, KeepsState, KeepsDatabase, KeepsTimes, KeepsSenders, KeepsTables, Grows
  <2> QED
    BY <2>4, <2>6, <2>7
<1> QED
  BY <1>2, <1>3, <1>4, <1>5, <1>6, <1>7, <1>8 DEF Outcome

(* Whatever comes of a message, it has been consumed.                      *)
LEMMA Consumes ==
  ASSUME TypeOK, NEW c \in Clients, handler[c].mbuf # << >>, NEW h, Prepared(c, h), Outcome(c, h)
  PROVE  handler'[c].mbuf = Tail(handler[c].mbuf) /\ handler'[c].received = handler[c].received
<1>0. /\ DOMAIN NoHandler = {"state", "content", "mbuf", "received", "database", "sender_id",
                            "time_offset", "tables", "is_active"}
      /\ DOMAIN h = DOMAIN NoHandler /\ DOMAIN handler = Clients
      /\ h.mbuf = Tail(handler[c].mbuf) /\ h.received = handler[c].received
  BY PreparedShape, HandlerTypes DEF HandlerShape
<1>1. handler'[c].mbuf = h.mbuf /\ handler'[c].received = h.received
  <2>1. CASE Passes(c, h) \/ SetsContent(c, h) \/ EndsHeader(c, h) \/ Fails(c, h)
    BY <1>0, <2>1 DEF Passes, SetsContent, EndsHeader, Fails, Becomes
  <2>2. CASE SetsDomain(c, h)
    BY <1>0, <2>2 DEF SetsDomain, MetaDomain, Fails, Becomes
  <2>3. CASE SetsStartTime(c, h)
    BY <1>0, <2>3 DEF SetsStartTime, MetaStartTime, Fails, Becomes
  <2>4. CASE SetsSenderId(c, h)
    BY <1>0, <2>4 DEF SetsSenderId, MetaSenderId, Fails, Becomes
  <2>5. CASE SetsSchema(c, h)
    <3>1. Fails(c, h) \/ \E i, t : Becomes(c, WithStream(h, i, t))
      BY <2>5 DEF SetsSchema, ProcessSchema
    <3>2. CASE Fails(c, h)
      BY <1>0, <3>2 DEF Fails, Becomes
    <3>3. ASSUME NEW i, NEW t, Becomes(c, WithStream(h, i, t))
          PROVE  handler'[c].mbuf = h.mbuf /\ handler'[c].received = h.received
      BY <1>0, <3>3 DEF WithStream, Becomes
    <3> QED
      BY <3>1, <3>2, <3>3
  <2>6. CASE InsertsRow(c, h) \/ InsertsMeta(c, h)
    BY <1>0, <2>6 DEF InsertsRow, InsertsMeta, Insert, Becomes
  <2> QED
    BY <2>1, <2>2, <2>3, <2>4, <2>5, <2>6 DEF Outcome
<1> QED
  BY <1>0, <1>1

(* A message is processed without a protocol error.                        *)
Handled(c, h) ==
  /\ Live(c) /\ handler[c].mbuf # << >>
  /\ SameBut(c) /\ session'[c] = session[c] /\ connections'[c] = connections[c]
  /\ Done(c)' = Done(c) + 1
  /\ Prepared(c, h) /\ Outcome(c, h) /\ Changed(c, h)

(* Nothing is inserted.                                                    *)
Rests ==
  /\ work' = work
  /\ \A d \in Domains :
       /\ stored'[d] \in {stored[d], work[d]}
       /\ \/ db'[d] = Closed /\ work[d] = stored'[d]
          \/ /\ db[d].ref_count > 0 /\ db'[d].ref_count > 0
             /\ db'[d].start_time = db[d].start_time /\ db'[d].sender_cnt = db[d].sender_cnt
             /\ db'[d].first_table = db[d].first_table
  /\ \A x \in Clients :
       \/ Same(x) \/ ~Live(x)'
       \/ handler'[x] = NewHandler /\ Done(x)' = 0 /\ session'[x] \in DOMAIN Script

(* A step is a crash, leaves handlers and databases alone, or handles one  *)
(* message.                                                                *)
LEMMA StepForms ==
  ASSUME TypeOK, RefInv, ClosedInv, Step
  PROVE  Vanish \/ Rests \/ \E c \in Clients : \E h : Handled(c, h)
<1>0. /\ DOMAIN NoHandler = {"state", "content", "mbuf", "received", "database", "sender_id",
                            "time_offset", "tables", "is_active"}
      /\ DOMAIN Closed = {"ref_count", "start_time", "first_table", "sender_cnt", "overdue"}
      /\ DOMAIN db = Domains /\ DOMAIN work = Domains /\ DOMAIN stored = Domains
      /\ DOMAIN handler = Clients /\ NoDatabase \notin Domains
      /\ \A d \in Domains : /\ DOMAIN db[d] = DOMAIN Closed /\ db[d].ref_count \in Int
                            /\ db[d].ref_count > 0 \/ (work[d] = stored[d] /\ db[d] = Closed)
  <2>1. /\ DOMAIN db = Domains /\ DOMAIN work = Domains /\ DOMAIN stored = Domains
        /\ DOMAIN handler = Clients
        /\ \A d \in Domains : DOMAIN db[d] = DOMAIN Closed /\ db[d].ref_count \in Int
    BY DEF TypeOK
  <2>2. \A d \in Domains : db[d].ref_count > 0 \/ (work[d] = stored[d] /\ db[d] = Closed)
    BY DEF ClosedInv
  <2>3. NoDatabase \notin Domains
    BY ServerAssumption
  <2> QED
    BY <2>1, <2>2, <2>3 DEF NoHandler, Closed
<1>1. CASE Quiet
  BY <1>0, <1>1 DEF Quiet, Rests, storage
<1>2. ASSUME NEW c \in Clients, Arrives(c)
      PROVE  Rests
  <2>1. handler'[c] = NewHandler /\ session'[c] \in DOMAIN Script /\ Done(c)' = 0
    <3>1. Len(<< >>) = 0
      BY EmptySeq, LenProperties
    <3> QED
      BY <1>0, <1>2, <3>1 DEF Arrives, Done, NewHandler, NoHandler
  <2> QED
    BY <1>0, <1>2, <2>1 DEF Arrives, SameBut, Rests, storage
<1>3. ASSUME NEW c \in Clients, Leaves(c)
      PROVE  Rests
  <2> DEFINE e == handler[c].database
  <2>1. e \in Domains => db[e].ref_count > 0
    BY ReferredIsOpen DEF Refers
  <2>2. \A d \in Domains :
          /\ work'[d] = work[d] /\ stored'[d] \in {stored[d], work[d]}
          /\ \/ db'[d] = Closed /\ work[d] = stored'[d]
             \/ /\ db[d].ref_count > 0 /\ db'[d].ref_count > 0
                /\ db'[d].start_time = db[d].start_time /\ db'[d].sender_cnt = db[d].sender_cnt
                /\ db'[d].first_table = db[d].first_table
    <3>1. CASE UNCHANGED storage
      BY <1>0, <3>1 DEF storage
    <3>2. CASE e \in Domains /\ Close(e)
      BY <1>0, <3>2 DEF Close
    <3>3. CASE /\ e \in Domains /\ db[e].ref_count # 1
               /\ db' = [db EXCEPT ![e].ref_count = @ - 1] /\ UNCHANGED <<work, stored>>
      <4>1. db'[e].ref_count > 0
        BY <1>0, <2>1, <3>3
      <4> QED
        BY <1>0, <2>1, <3>3, <4>1
    <3>4. handler[c].database \in Domains \cup {NoDatabase}
      BY DEF TypeOK
    <3> QED
      BY <1>3, <3>1, <3>2, <3>3, <3>4 DEF Leaves, Release, LastClient
  <2>3. ~Live(c)'
    BY <1>3 DEF Leaves, Live, NoHandler
  <2>4. work' = work
    BY <1>3 DEF Leaves, Release, Close, storage
  <2> QED
    BY <1>3, <2>2, <2>3, <2>4 DEF Leaves, SameBut, Rests
<1>4. ASSUME NEW c \in Clients, Processes(c), Advances(c), SameBut(c), ~Rests
      PROVE  \E h : Handled(c, h)
  <2>1. Live(c) /\ handler[c].mbuf # << >> /\ UNCHANGED net
    BY <1>4 DEF Processes
  <2>2. ASSUME Rejected(c)
        PROVE  Rests
    BY <1>0, <1>4, <2>2 DEF Rejected, SameBut, Rests, storage, Live
  <2>3. CASE Fails(c, handler[c])
    <3>1. Rejected(c)
      BY <1>0, <2>3, HandlerTypes DEF Fails, Becomes, Rejected, HandlerShape
    <3> QED
      BY <1>4, <2>2, <3>1
  <2>4. ASSUME NEW h, Prepared(c, h), Outcome(c, h)
        PROVE  Handled(c, h)
    <3>1. Changed(c, h)
      BY <1>4, <2>1, <2>2, <2>4, Changes
    <3>2. session'[c] = session[c] /\ connections'[c] = connections[c]
      BY <2>1 DEF net
    <3>3. handler'[c].mbuf = Tail(handler[c].mbuf) /\ handler'[c].received = handler[c].received
      BY <2>1, <2>4, Consumes
    <3>4. Len(Tail(handler[c].mbuf)) = Len(handler[c].mbuf) - 1
      BY <2>1, HeadTailProperties, HandlerTypes DEF HandlerShape
    <3>5. Done(c)' = Done(c) + 1
      <4>1. handler[c].received \in Nat /\ Len(handler[c].mbuf) \in Nat
        BY HandlerTypes, LenProperties DEF HandlerShape
      <4> QED
        BY <3>3, <3>4, <4>1 DEF Done
    <3> QED
      BY <1>4, <2>1, <2>4, <3>1, <3>2, <3>5 DEF Handled
  <2> QED
    BY <1>4, <2>3, <2>4 DEF Processes
<1>5. ASSUME NEW d \in Domains, Ages(d)
      PROVE  Rests
  <2>1. \A e \in Domains :
          \/ db'[e] = db[e]
          \/ /\ db[e].ref_count > 0 /\ db'[e].ref_count > 0
             /\ db'[e].start_time = db[e].start_time /\ db'[e].sender_cnt = db[e].sender_cnt
             /\ db'[e].first_table = db[e].first_table
    BY <1>0, <1>5 DEF Ages
  <2> QED
    BY <1>0, <1>5, <2>1 DEF Ages, Rests
<1> QED
  BY <1>1, <1>2, <1>3, <1>4, <1>5 DEF Step

(* What a message leaves of the handlers of the other clients.             *)
LEMMA OthersSame ==
  ASSUME NEW c \in Clients, NEW h, Handled(c, h)
  PROVE  \A x \in Clients \ {c} : Same(x)
BY DEF Handled, SameBut

(* A database is committed before it is closed.                            *)
LEMMA ClosedStep ==
  ASSUME TypeOK, RefInv, ClosedInv, Step
  PROVE  ClosedInv'
<1>1. CASE Vanish
  BY <1>1 DEF Vanish, ClosedInv
<1>2. CASE Rests
  BY <1>2 DEF Rests, ClosedInv
<1>3. ASSUME NEW c \in Clients, NEW h, Handled(c, h)
      PROVE  ClosedInv'
  BY <1>3 DEF Handled, Changed, Commits, ClosedInv
<1> QED
  BY <1>1, <1>2, <1>3, StepForms
-----------------------------------------------------------------------------
(* Where a handler is in its session.                                      *)

(* Among the first n messages of session s there is one of this kind.      *)
Has(s, key, n) == \E p \in Positions(s, key) : p <= n

HeaderInv ==
  \A c \in Clients : Live(c) =>
    IF InHeader(c)
      THEN \A p \in 1..Done(c) : Script[session[c]][p][1] \notin {"end", "row", "meta", "garbage"}
      ELSE Has(session[c], "end", Done(c))

(* The database is the one of the session, and so is that of the streams.  *)
DatabaseInv ==
  \A c \in Clients : Live(c) /\ session[c] \in Proper =>
    /\ IF Has(session[c], "domain", Done(c))
         THEN handler[c].database = Domain[session[c]]
         ELSE handler[c].database = NoDatabase /\ DOMAIN handler[c].tables = {}
    /\ \A i \in DOMAIN handler[c].tables :
         handler[c].tables[i] # NoTable => handler[c].tables[i][1] = handler[c].database

Keys == {"domain", "start-time", "sender-id"}

(* A message taken is one more element of the session that is done.        *)
LEMMA HasMore ==
  ASSUME TypeOK, NEW c \in Clients, Live(c), handler[c].mbuf # << >>
  PROVE  /\ \A key : Has(session[c], key, Done(c) + 1)
                       <=> Has(session[c], key, Done(c)) \/ Message(c)[1] = key
         /\ Done(c) \in Nat /\ Position(c) = Done(c) + 1
         /\ DOMAIN Script[session[c]] \subseteq Nat /\ Position(c) \in DOMAIN Script[session[c]]
         /\ Message(c) = Script[session[c]][Position(c)]
<1>1. /\ Position(c) \in DOMAIN Script[session[c]]
      /\ DOMAIN Script[session[c]] = 1..Len(Script[session[c]])
      /\ Len(Script[session[c]]) \in Nat /\ Done(c) \in Nat
      /\ Message(c) = Script[session[c]][Position(c)]
  BY NextMessage DEF Live
<1>2. \A p \in DOMAIN Script[session[c]] : p <= Done(c) + 1 <=> p <= Done(c) \/ p = Position(c)
  BY <1>1 DEF Position
<1> QED
  BY <1>1, <1>2 DEF Has, Positions, Position

(* A new connection has sent no header.                                    *)
LEMMA NothingYet ==
  ASSUME NEW s \in DOMAIN Script
  PROVE  \A key : ~Has(s, key, 0)
<1>1. DOMAIN Script[s] = 1..Len(Script[s])
  BY ScriptAssumption, LenProperties
<1> QED
  BY <1>1 DEF Has, Positions

(* A proper session has each header once, before its end of headers.       *)
LEMMA ProperSession ==
  ASSUME NEW s \in Proper
  PROVE  /\ s \in DOMAIN Script /\ DOMAIN Script[s] = 1..Len(Script[s]) /\ Len(Script[s]) \in Nat
         /\ \A key \in Keys : \E p \in DOMAIN Script[s] :
              Positions(s, key) = {p} /\ HeaderValue(key)[s] = Script[s][p][2]
         /\ \E e \in Positions(s, "end") :
              /\ \E p \in 1..(e - 1) : Script[s][p][1] = "schema"
              /\ \A p \in 1..(e - 1) : Script[s][p][1] \in Keys \cup {"content", "key", "schema"}
              /\ \A p \in DOMAIN Script[s] : p > e => Script[s][p][1] \in {"row", "meta"}
<1>1. s \in DOMAIN Script
  BY DEF Proper
<1>2. DOMAIN Script[s] = 1..Len(Script[s]) /\ Len(Script[s]) \in Nat
  BY <1>1, ScriptAssumption, LenProperties
<1>3. ASSUME NEW key \in Keys
      PROVE  \E p \in DOMAIN Script[s] :
               Positions(s, key) = {p} /\ HeaderValue(key)[s] = Script[s][p][2]
  <2>1. PICK p \in DOMAIN Script[s] : Positions(s, key) = {p}
    BY DEF Proper, Keys
  <2>2. (CHOOSE q \in Positions(s, key) : TRUE) = p
    BY <2>1
  <2> QED
    BY <2>1, <2>2 DEF HeaderValue
<1>4. \E e \in Positions(s, "end") :
        /\ \E p \in 1..(e - 1) : Script[s][p][1] = "schema"
        /\ \A p \in 1..(e - 1) : Script[s][p][1] \in Keys \cup {"content", "key", "schema"}
        /\ \A p \in DOMAIN Script[s] : p > e => Script[s][p][1] \in {"row", "meta"}
  BY DEF Proper, Keys
<1> QED
  BY <1>1, <1>2, <1>3, <1>4

(* What the next message of a proper session can be.                       *)
LEMMA ProperMessage ==
  ASSUME TypeOK, HeaderInv, NEW c \in Clients, Live(c), handler[c].mbuf # << >>,
         session[c] \in Proper
  PROVE  /\ \A key \in Keys : Message(c)[1] = key =>
              ~Has(session[c], key, Done(c)) /\ HeaderValue(key)[session[c]] = Message(c)[2]
         /\ ~InHeader(c) =>
              /\ Message(c)[1] \in {"row", "meta"}
              /\ \A key \in Keys : Has(session[c], key, Done(c))
              /\ \E q \in 1..Done(c) : Script[session[c]][q][1] = "schema"
<1> DEFINE s == session[c]
<1>0. /\ Done(c) \in Nat /\ Position(c) = Done(c) + 1 /\ Position(c) \in DOMAIN Script[s]
      /\ Message(c) = Script[s][Position(c)]
  BY HasMore
<1>1. /\ DOMAIN Script[s] = 1..Len(Script[s]) /\ Len(Script[s]) \in Nat
      /\ \A key \in Keys : \E p \in DOMAIN Script[s] :
           Positions(s, key) = {p} /\ HeaderValue(key)[s] = Script[s][p][2]
  BY ProperSession
<1>2. PICK e \in Positions(s, "end") :
              /\ \E p \in 1..(e - 1) : Script[s][p][1] = "schema"
              /\ \A p \in 1..(e - 1) : Script[s][p][1] \in Keys \cup {"content", "key", "schema"}
              /\ \A p \in DOMAIN Script[s] : p > e => Script[s][p][1] \in {"row", "meta"}
  BY ProperSession
<1>3. ASSUME NEW key \in Keys, Message(c)[1] = key
      PROVE  ~Has(s, key, Done(c)) /\ HeaderValue(key)[s] = Message(c)[2]
  <2>1. PICK p \in DOMAIN Script[s] : Positions(s, key) = {p} /\ HeaderValue(key)[s] = Script[s][p][2]
    BY <1>1
  <2>2. p = Position(c)
    BY <1>0, <1>3, <2>1 DEF Positions
  <2> QED
    BY <1>0, <2>1, <2>2 DEF Has
<1>4. ASSUME ~InHeader(c)
      PROVE  /\ Message(c)[1] \in {"row", "meta"}
             /\ \A key \in Keys : Has(s, key, Done(c))
             /\ \E q \in 1..Done(c) : Script[s][q][1] = "schema"
  <2>1. e \in 1..Len(Script[s]) /\ Script[s][e][1] = "end"
    BY <1>1 DEF Positions
  <2>2. e <= Done(c)
    <3>1. PICK p \in DOMAIN Script[s] : Script[s][p][1] = "end" /\ p <= Done(c)
      BY <1>4 DEF HeaderInv, Has, Positions
    <3>2. ~(p > e)
      BY <1>2, <3>1
    <3>3. p \notin 1..(e - 1)
      BY <1>2, <3>1 DEF Keys
    <3> QED
      BY <1>1, <2>1, <3>1, <3>2, <3>3
  <2>3. Message(c)[1] \in {"row", "meta"}
    BY <1>0, <1>2, <2>1, <2>2
  <2>4. \A key \in Keys : Has(s, key, Done(c))
    <3> SUFFICES ASSUME NEW key \in Keys
                 PROVE  Has(s, key, Done(c))
      OBVIOUS
    <3>1. PICK p \in DOMAIN Script[s] : Positions(s, key) = {p}
      BY <1>1
    <3>2. Script[s][p][1] = key /\ p \in Positions(s, key)
      BY <3>1 DEF Positions
    <3>3. ~(p > e)
      BY <1>2, <3>2 DEF Keys
    <3> QED
      BY <1>0, <1>1, <2>1, <2>2, <3>2, <3>3 DEF Has
  <2>5. \E q \in 1..Done(c) : Script[s][q][1] = "schema"
    <3>1. PICK q \in 1..(e - 1) : Script[s][q][1] = "schema"
      BY <1>2
    <3>2. q \in 1..Done(c)
      BY <1>0, <2>1, <2>2
    <3> QED
      BY <3>1, <3>2
  <2> QED
    BY <2>3, <2>4, <2>5
<1> QED
  BY <1>3, <1>4

(* A handler that a step leaves alone is where it was in its session.      *)
LEMMA SameState ==
  ASSUME NEW x, Same(x)
  PROVE  (Live(x)' <=> Live(x)) /\ (InHeader(x)' <=> InHeader(x))
BY DEF Same, Live, InHeader

(* A message ends the headers of its own handler, and of no other.         *)
LEMMA HandledState ==
  ASSUME TypeOK, NEW c \in Clients, NEW h, Handled(c, h)
  PROVE  /\ Live(c)'
         /\ InHeader(c)' => InHeader(c) /\ ~EndsHeader(c, h)
         /\ ~InHeader(c)' => ~InHeader(c) \/ Message(c)[1] = "end"
<1>1. KeepsState(c) /\ ~EndsHeader(c, h) => Live(c)' /\ (InHeader(c)' <=> InHeader(c))
  BY DEF Handled, KeepsState, Live, InHeader
<1>2. CASE Ends(c, h)
  BY <1>2 DEF Ends, EndsHeader, Live, InHeader
<1>3. CASE KeepsState(c) /\ EndsHeader(c, h)
  <2>1. handler'[c].state = h.content /\ h.content # "C_HEADER" /\ h.state = "C_HEADER"
    <3>1. HandlerShape(h) /\ h.state = handler[c].state
      BY PreparedShape DEF Handled
    <3>2. DOMAIN NoHandler = {"state", "content", "mbuf", "received", "database", "sender_id",
                             "time_offset", "tables", "is_active"}
      BY HandlerTypes
    <3> QED
      BY <1>3, <3>1, <3>2, HandlerTypes DEF EndsHeader, Becomes, HandlerShape, InHeader
  <2> QED
    BY <1>3, <2>1, PreparedShape DEF KeepsState, Handled
<1> QED
  BY <1>1, <1>2, <1>3 DEF Handled, Changed

(* A handler that is in the headers has taken nothing else, and one past   *)
(* them has taken their end.                                               *)
LEMMA HeaderStep ==
  ASSUME TypeOK, RefInv, ClosedInv, HeaderInv, Step
  PROVE  HeaderInv'
<1> DEFINE Kinds == {"end", "row", "meta", "garbage"}
           HeaderOK(x) == Live(x) =>
              IF InHeader(x) THEN \A p \in 1..Done(x) : Script[session[x]][p][1] \notin Kinds
              ELSE Has(session[x], "end", Done(x))
<1>0. \A x \in Clients : HeaderOK(x)
  BY DEF HeaderInv
<1>1. CASE Vanish
  BY <1>1 DEF Vanish, HeaderInv, Live, NoHandler
<1>2. ASSUME NEW x \in Clients, Same(x)
      PROVE  HeaderOK(x)'
  BY <1>0, <1>2, SameState DEF Same
<1>3. CASE Rests
  <2>1. ASSUME NEW x \in Clients, handler'[x] = NewHandler, Done(x)' = 0
        PROVE  HeaderOK(x)'
    BY <2>1 DEF InHeader, NewHandler, NoHandler
  <2> QED
    BY <1>2, <1>3, <2>1 DEF Rests, HeaderInv
<1>4. ASSUME NEW c \in Clients, NEW h, Handled(c, h)
      PROVE  HeaderOK(c)'
  <2>0. Live(c) /\ handler[c].mbuf # << >> /\ session'[c] = session[c] /\ Done(c)' = Done(c) + 1
    BY <1>4 DEF Handled
  <2>1. /\ \A key : Has(session[c], key, Done(c) + 1)
                       <=> Has(session[c], key, Done(c)) \/ Message(c)[1] = key
        /\ Done(c) \in Nat /\ Position(c) = Done(c) + 1
        /\ Message(c) = Script[session[c]][Position(c)]
    BY <2>0, HasMore
  <2>2. CASE InHeader(c)'
    <3>1. InHeader(c) /\ ~EndsHeader(c, h)
      BY <1>4, <2>2, HandledState
    <3>2. Message(c)[1] \notin Kinds
      <4>1. ~Rejected(c)
        BY <2>2 DEF InHeader, Rejected
      <4>2. ~Fails(c, h)
        BY <1>4, <4>1, HandlerTypes, PreparedShape
        DEF Fails, Becomes, Rejected, Handled, HandlerShape
      <4>3. HeaderLine(Message(c))[1] = "schema" /\ Message(c)[1] # "meta" => Message(c)[1] = "schema"
        BY DEF HeaderLine
      <4> QED
        BY <1>4, <3>1, <4>2, <4>3 DEF Handled, Outcome, Passes, SetsContent, SetsDomain, SetsStartTime,
                                      SetsSenderId, SetsSchema, InsertsRow, InsertsMeta
    <3>3. \A p \in 1..(Done(c) + 1) : p \in 1..Done(c) \/ p = Position(c)
      BY <2>1
    <3> QED
      BY <1>0, <2>0, <2>1, <2>2, <3>1, <3>2, <3>3
  <2>3. CASE ~InHeader(c)'
    <3>1. ~InHeader(c) \/ Message(c)[1] = "end"
      BY <1>4, <2>3, HandledState
    <3> QED
      BY <1>0, <2>0, <2>1, <2>3, <3>1
  <2> QED
    BY <2>2, <2>3
<1> QED
  BY <1>1, <1>2, <1>3, <1>4, StepForms, OthersSame DEF HeaderInv

(* A message that was handled has not failed its handler.                  *)
LEMMA HandledSucceeds ==
  ASSUME TypeOK, NEW c \in Clients, NEW h, Handled(c, h)
  PROVE  ~Fails(c, h)
<1>1. Live(c)'
  BY HandledState
<1>2. DOMAIN h = DOMAIN NoHandler
  BY PreparedShape DEF Handled, HandlerShape
<1> QED
  BY <1>1, <1>2, HandlerTypes DEF Fails, Becomes, Live

(* The headers of a proper session are dealt with.                         *)
LEMMA KeyOutcome ==
  ASSUME TypeOK, HeaderInv, NEW c \in Clients, NEW h, Handled(c, h), session[c] \in Proper
  PROVE  /\ Message(c)[1] = "domain" <=> SetsDomain(c, h)
         /\ Message(c)[1] = "start-time" <=> SetsStartTime(c, h)
         /\ Message(c)[1] = "sender-id" <=> SetsSenderId(c, h)
<1>1. Message(c)[1] \in Keys => InHeader(c)
  BY ProperMessage DEF Handled, Keys
<1>2. HeaderLine(Message(c))[1] = "schema" /\ Message(c)[1] # "meta" => Message(c)[1] = "schema"
  BY DEF HeaderLine
<1> QED
  BY <1>1, <1>2, HandledSucceeds
  DEF Handled, Outcome, Passes, SetsContent, EndsHeader, SetsDomain, SetsStartTime,
      SetsSenderId, SetsSchema, InsertsRow, InsertsMeta, Keys

(* The tables of the handler when the message has been consumed.           *)
LEMMA PreparedTables ==
  ASSUME TypeOK, NEW c \in Clients, handler[c].mbuf # << >>, NEW h, Prepared(c, h)
  PROVE  /\ DOMAIN h.tables = DOMAIN handler[c].tables
         /\ \A j \in DOMAIN h.tables :
              \/ h.tables[j] = handler[c].tables[j]
              \/ /\ j = 0 /\ handler[c].tables[j] = NoTable
                 /\ h.tables[j] = <<handler[c].database, MetaTable>>
<1>1. CASE h.tables = handler[c].tables
  BY <1>1
<1>2. CASE 0 \in DOMAIN handler[c].tables /\ h = WithStream(Consumed(c), 0, Table0(c))
  <2>1. /\ DOMAIN NoHandler = {"state", "content", "mbuf", "received", "database", "sender_id",
                              "time_offset", "tables", "is_active"}
        /\ DOMAIN handler[c] = DOMAIN NoHandler
    BY HandlerTypes DEF HandlerShape
  <2>2. /\ DOMAIN h.tables = DOMAIN handler[c].tables
        /\ \A j \in DOMAIN h.tables : h.tables[j] = IF j = 0 THEN Table0(c) ELSE handler[c].tables[j]
    BY <1>2, <2>1 DEF WithStream, Consumed
  <2> QED
    BY <2>2 DEF Table0
<1> QED
  BY <1>1, <1>2, PreparedShape

(* process_schema and database_find_or_create_table: the first name that   *)
(* fits.                                                                   *)
LEMMA SchemaOutcome ==
  ASSUME TypeOK, RefInv, NEW c \in Clients, NEW h, Handled(c, h), SetsSchema(c, h)
  PROVE  LET line == HeaderLine(Message(c))
             d == h.database
         IN  /\ d \in Domains /\ db[d].ref_count > 0 /\ line[2] \in Nat
             /\ \E k \in Attempts(d, line[3], line[4]) :
                  LET t == Renamed(line[3], k) IN
                  /\ \A l \in Attempts(d, line[3], line[4]) : k <= l
                  /\ DOMAIN handler'[c].tables = DOMAIN h.tables \cup 0..line[2]
                  /\ handler'[c].tables[line[2]] = <<d, t>>
                  /\ \A j \in DOMAIN handler'[c].tables \ {line[2]} :
                       handler'[c].tables[j] = IF j \in DOMAIN h.tables THEN h.tables[j] ELSE NoTable
                  /\ \/ t \in DOMAIN db[d].first_table /\ UNCHANGED storage
                     \/ /\ t \notin DOMAIN db[d].first_table
                        /\ t \notin DOMAIN work[d].tables
                        /\ db' = [db EXCEPT ![d].first_table = Put(@, t, line[4])]
                        /\ work' = [work EXCEPT ![d] = WithTable(@, t, line[4])]
                        /\ UNCHANGED stored
<1> DEFINE line == HeaderLine(Message(c))
           d == h.database
           A == Attempts(d, line[3], line[4])
           first == CHOOSE k \in A : \A l \in A : k <= l
           t == Renamed(line[3], first)
<1>0. /\ DOMAIN NoHandler = {"state", "content", "mbuf", "received", "database", "sender_id",
                            "time_offset", "tables", "is_active"}
      /\ DOMAIN h = DOMAIN NoHandler /\ DOMAIN handler = Clients
      /\ d \in Domains \cup {NoDatabase} /\ NoDatabase \notin Domains
  BY PreparedShape, HandlerTypes, ServerAssumption DEF Handled, HandlerShape
<1>1. line[2] \in Nat
  <2>1. WellFormed(line) /\ line[1] = "schema"
    BY NextMessage DEF Handled, Live, SetsSchema
  <2> QED
    BY <2>1 DEF WellFormed
<1>2. ~Fails(c, h)
  BY HandledSucceeds
<1>3. /\ d # NoDatabase /\ A # {}
      /\ Becomes(c, WithStream(h, line[2], <<d, t>>))
      /\ \/ t \in DOMAIN db[d].first_table /\ UNCHANGED storage
         \/ /\ t \notin DOMAIN db[d].first_table /\ t \notin DOMAIN work[d].tables
            /\ db' = [db EXCEPT ![d].first_table = Put(@, t, line[4])]
            /\ work' = [work EXCEPT ![d] = WithTable(@, t, line[4])]
            /\ UNCHANGED stored
  BY <1>2 DEF SetsSchema, ProcessSchema
<1>4. d \in Domains /\ db[d].ref_count > 0
  <2>1. d \in Domains /\ Refers(h, d)
    BY <1>0, <1>3 DEF Refers
  <2> QED
    BY <2>1, PreparedRefs, ReferredIsOpen DEF Handled
<1>5. first \in A /\ \A l \in A : first <= l
  <2>1. A \in SUBSET Nat
    BY ServerAssumption DEF Attempts
  <2>2. \E k \in A : \A l \in A : k <= l
    BY <1>3, <2>1, LeastNat
  <2> HIDE DEF A
  <2> QED
    BY <2>2
<1>6. handler'[c] = WithStream(h, line[2], <<d, t>>)
  BY <1>0, <1>3 DEF Becomes
<1>7. /\ DOMAIN handler'[c].tables = DOMAIN h.tables \cup 0..line[2]
      /\ handler'[c].tables[line[2]] = <<d, t>>
      /\ \A j \in DOMAIN handler'[c].tables \ {line[2]} :
           handler'[c].tables[j] = IF j \in DOMAIN h.tables THEN h.tables[j] ELSE NoTable
  <2> HIDE DEF line, t
  <2> QED
    BY <1>0, <1>1, <1>6 DEF WithStream
<1> HIDE DEF first
<1> QED
  BY <1>1, <1>3, <1>4, <1>5, <1>7

(* A handler has the database that its headers name once it has taken that *)
(* header.                                                                 *)
LEMMA DatabaseStep ==
  ASSUME TypeOK, RefInv, ClosedInv, HeaderInv, DatabaseInv, Step
  PROVE  DatabaseInv'
<1> DEFINE DatabaseOf(x) ==
             /\ IF Has(session[x], "domain", Done(x))
                  THEN handler[x].database = Domain[session[x]]
                  ELSE handler[x].database = NoDatabase /\ DOMAIN handler[x].tables = {}
             /\ \A i \in DOMAIN handler[x].tables :
                  handler[x].tables[i] # NoTable => handler[x].tables[i][1] = handler[x].database
           Right(x) == Live(x) /\ session[x] \in Proper => DatabaseOf(x)
<1>0. \A x \in Clients : Right(x)
  BY DEF DatabaseInv
<1>1. CASE Vanish
  BY <1>1 DEF Vanish, DatabaseInv, Live, NoHandler
<1>2. ASSUME NEW x \in Clients, Same(x)
      PROVE  Right(x)'
  BY <1>0, <1>2, SameState DEF Same
<1>3. CASE Rests
  <2>1. ASSUME NEW x \in Clients, handler'[x] = NewHandler, Done(x)' = 0, session'[x] \in DOMAIN Script
        PROVE  Right(x)'
    <3>1. ~Has(session'[x], "domain", 0)
      BY <2>1, NothingYet
    <3>2. handler'[x].database = NoDatabase /\ handler'[x].tables = << >> /\ DOMAIN << >> = {}
      BY <2>1 DEF NewHandler, NoHandler
    <3> QED
      BY <2>1, <3>1, <3>2
  <2> QED
    BY <1>2, <1>3, <2>1 DEF Rests, DatabaseInv
<1>4. ASSUME NEW c \in Clients, NEW h, Handled(c, h)
      PROVE  Right(c)'
  <2> SUFFICES ASSUME session[c] \in Proper
               PROVE  DatabaseOf(c)'
    BY <1>4 DEF Handled
  <2>0. Live(c) /\ handler[c].mbuf # << >> /\ session'[c] = session[c] /\ Done(c)' = Done(c) + 1
    BY <1>4 DEF Handled
  <2>1. \A key : Has(session[c], key, Done(c) + 1)
                       <=> Has(session[c], key, Done(c)) \/ Message(c)[1] = key
    BY <2>0, HasMore
  <2>2. DatabaseOf(c)
    BY <1>0, <2>0
  <2>3. /\ DOMAIN h.tables = DOMAIN handler[c].tables
        /\ \A j \in DOMAIN h.tables :
              h.tables[j] = handler[c].tables[j] \/ h.tables[j] = <<handler[c].database, MetaTable>>
        /\ h.database = handler[c].database
    BY <1>4, PreparedTables, PreparedShape DEF Handled
  <2>4. CASE SetsDomain(c, h)
    <3>1. Message(c)[1] = "domain"
      BY <1>4, <2>4, KeyOutcome
    <3>2. ~Has(session[c], "domain", Done(c)) /\ Domain[session[c]] = Message(c)[2]
      BY <2>0, <3>1, ProperMessage DEF Keys, Domain
    <3>3. DOMAIN h.tables = {}
      BY <2>2, <2>3, <3>2
    <3>4. handler'[c].database = Message(c)[2] /\ handler'[c].tables = h.tables
      <4>1. Live(c)'
        BY <1>4, HandledState
      <4>2. /\ DOMAIN h = {"state", "content", "mbuf", "received", "database", "sender_id",
                          "time_offset", "tables", "is_active"}
            /\ DOMAIN handler = Clients
        BY <1>4, PreparedShape, HandlerTypes DEF Handled, HandlerShape
      <4> QED
        BY <2>4, <4>1, <4>2 DEF SetsDomain, MetaDomain, Fails, Becomes, Live
    <3> QED
      BY <2>0, <2>1, <3>1, <3>2, <3>3, <3>4
  <2>5. CASE ~SetsDomain(c, h)
    <3>1. Message(c)[1] # "domain" /\ handler'[c].database = handler[c].database
      BY <1>4, <2>5, KeyOutcome DEF Handled, Changed, KeepsDatabase
    <3>2. CASE SetsSchema(c, h)
      <4>1. /\ h.database \in Domains
            /\ \A j \in DOMAIN handler'[c].tables :
                 \/ handler'[c].tables[j][1] = h.database
                 \/ handler'[c].tables[j] = NoTable
                 \/ j \in DOMAIN h.tables /\ handler'[c].tables[j] = h.tables[j]
        <5> DEFINE i == HeaderLine(Message(c))[2]
        <5>1. /\ h.database \in Domains
              /\ \E t :
                   /\ DOMAIN handler'[c].tables = DOMAIN h.tables \cup 0..i
                   /\ handler'[c].tables[i] = <<h.database, t>>
                   /\ \A j \in DOMAIN handler'[c].tables \ {i} :
                        handler'[c].tables[j] = IF j \in DOMAIN h.tables THEN h.tables[j] ELSE NoTable
          <6> DEFINE line == HeaderLine(Message(c))
                     d == h.database
                     t(k) == Renamed(line[3], k)
          <6>1. /\ d \in Domains
                /\ \E k \in Attempts(d, line[3], line[4]) :
                     /\ \A l \in Attempts(d, line[3], line[4]) : k <= l
                     /\ DOMAIN handler'[c].tables = DOMAIN h.tables \cup 0..line[2]
                     /\ handler'[c].tables[line[2]] = <<d, t(k)>>
                     /\ \A j \in DOMAIN handler'[c].tables \ {line[2]} :
                          handler'[c].tables[j] = IF j \in DOMAIN h.tables THEN h.tables[j] ELSE NoTable
            BY <1>4, <3>2, SchemaOutcome, Zenon
          <6> HIDE DEF t
          <6> QED
            BY <6>1
        <5> HIDE DEF i
        <5> QED
          BY <5>1
      <4>2. h.database # NoDatabase
        BY <4>1, ServerAssumption
      <4>3. Has(session[c], "domain", Done(c)) /\ handler[c].database = Domain[session[c]]
        BY <2>2, <2>3, <4>2
      <4>4. \A j \in DOMAIN h.tables : h.tables[j] # NoTable => h.tables[j][1] = handler[c].database
        BY <2>2, <2>3
      <4> QED
        BY <2>0, <2>1, <2>3, <3>1, <4>1, <4>3, <4>4
    <3>3. CASE ~SetsSchema(c, h)
      <4>1. handler'[c].tables = h.tables
        BY <1>4, <3>3 DEF Handled, Changed, KeepsTables
      <4> QED
        BY <2>0, <2>1, <2>2, <2>3, <3>1, <4>1
    <3> QED
      BY <3>2, <3>3
  <2> QED
    BY <2>4, <2>5
<1> QED
  BY <1>1, <1>2, <1>3, <1>4, StepForms, OthersSame DEF DatabaseInv

(* What every proof about the content of databases builds on.              *)
BaseInv == TypeOK /\ RefInv /\ ClosedInv /\ HeaderInv /\ DatabaseInv

(* The base invariant holds at first.                                      *)
LEMMA BaseInit ==
  ASSUME Init
  PROVE  BaseInv
<1>1. \A c \in Clients : ~Live(c)
  BY DEF Init, Live, NoHandler
<1>2. ClosedInv
  BY DEF Init, ClosedInv
<1> QED
  BY <1>1, <1>2, TypeInit, RefInit DEF BaseInv, HeaderInv, DatabaseInv

(* Every step keeps the base invariant.                                    *)
LEMMA BaseStep ==
  ASSUME BaseInv, [Next]_vars
  PROVE  BaseInv' /\ Step
BY TypeStep, RefStep, ClosedStep, HeaderStep, DatabaseStep DEF BaseInv

(* The base invariant holds in every state.                                *)
LEMMA BaseCorrect == Spec => []BaseInv
BY BaseInit, BaseStep, PTL DEF Spec

(* The row that ProcessMessage stores.                                     *)
RowOf(c, table) ==
  [client |-> <<c, connections[c]>>, session |-> session[c], at |-> Position(c),
   table |-> table[2], sender_id |-> handler[c].sender_id,
   time_offset |-> handler[c].time_offset]

(* A row goes to a table of the database of its session.                   *)
LEMMA InsertOutcome ==
  ASSUME BaseInv, NEW c \in Clients, NEW h, Handled(c, h), InsertsRow(c, h) \/ InsertsMeta(c, h)
  PROVE  /\ ~InHeader(c)
         /\ \E table :
              /\ InsertsRow(c, h) => table = handler[c].tables[Message(c)[2]]
              /\ InsertsMeta(c, h) => Message(c)[1] = "meta"
              /\ session[c] \in Proper => table[1] = handler[c].database
              /\ \A d \in Domains : \/ work'[d].rows = work[d].rows
                                    \/ d = table[1] /\ work'[d].rows = work[d].rows \cup {RowOf(c, table)}
              /\ table[1] \in Domains
              /\ ~BackendMayFail => RowOf(c, table) \in work'[table[1]].rows
<1>0. /\ TypeOK /\ RefInv /\ DatabaseInv
      /\ Live(c) /\ handler[c].mbuf # << >> /\ Prepared(c, h) /\ RefsOK(handler[c], db)
  BY DEF BaseInv, Handled, RefInv
<1>1. PICK table : /\ Insert(c, h, table) /\ DOMAIN handler[c].tables # {}
                   /\ InsertsRow(c, h) => table = handler[c].tables[Message(c)[2]]
                   /\ InsertsMeta(c, h) => Message(c)[1] = "meta"
                   /\ \/ /\ table = <<handler[c].database, MetaTable>>
                         /\ 0 \in DOMAIN handler[c].tables
                      \/ \E i \in DOMAIN handler[c].tables : table = handler[c].tables[i] /\ table # NoTable
  <2>1. CASE InsertsRow(c, h)
    BY <2>1 DEF InsertsRow, InsertsMeta, Accepted
  <2>2. CASE InsertsMeta(c, h)
    BY <2>2 DEF InsertsRow, InsertsMeta, Table0
  <2> QED
    BY <2>1, <2>2
<1>2. table[1] \in Domains
  <2>1. CASE table = <<handler[c].database, MetaTable>>
    <3>1. handler[c].database # NoDatabase
      BY <1>0, <1>1 DEF RefsOK, Live
    <3>2. handler[c].database \in Domains \cup {NoDatabase}
      BY <1>0 DEF TypeOK
    <3> QED
      BY <2>1, <3>1, <3>2
  <2> QED
    BY <1>0, <1>1, <2>1 DEF RefsOK
<1>3. session[c] \in Proper => table[1] = handler[c].database
  BY <1>0, <1>1 DEF DatabaseInv
<1>4. h.sender_id = handler[c].sender_id /\ h.time_offset = handler[c].time_offset
  BY <1>0, PreparedShape
<1>5. \/ BackendMayFail /\ UNCHANGED storage
      \/ work' = [work EXCEPT ![table[1]].rows = @ \cup {RowOf(c, table)}]
      \/ BackendMayFail /\ work' = work
  BY <1>1, <1>4 DEF Insert, RowOf
<1>6. /\ DOMAIN Empty = {"tables", "metadata", "senders", "start_time", "rows"}
      /\ DOMAIN work = Domains /\ \A d \in Domains : DOMAIN work[d] = DOMAIN Empty
  BY <1>0 DEF Empty, TypeOK
<1>7. /\ \A d \in Domains : \/ work'[d].rows = work[d].rows
                            \/ d = table[1] /\ work'[d].rows = work[d].rows \cup {RowOf(c, table)}
      /\ ~BackendMayFail => RowOf(c, table) \in work'[table[1]].rows
  <2>1. CASE BackendMayFail /\ work' = work
    BY <2>1
  <2>2. CASE work' = [work EXCEPT ![table[1]].rows = @ \cup {RowOf(c, table)}]
    BY <1>2, <1>6, <2>2
  <2> QED
    BY <1>5, <2>1, <2>2 DEF storage
<1> QED
  BY <1>1, <1>2, <1>3, <1>7 DEF InsertsRow, InsertsMeta
-----------------------------------------------------------------------------
(* Sender identifiers, if the backend does what it is asked to.            *)

Signed(C, r) ==
  Sender[r.session] \in DOMAIN C.senders /\ r.sender_id = C.senders[Sender[r.session]]

SendersOK(C) ==
  /\ \A s \in DOMAIN C.senders : C.senders[s] \in Nat \ {0}
  /\ \A s, t \in DOMAIN C.senders : C.senders[s] = C.senders[t] => s = t
  /\ \E n \in Nat : \A s \in DOMAIN C.senders : C.senders[s] <= n
  /\ \A r \in ProperRows(C.rows) : Signed(C, r)

(* The counter of an open database is not behind its identifiers.          *)
CounterOK(d) ==
  /\ db[d].sender_cnt \in Nat
  /\ db[d].sender_cnt = 0 \/ \A s \in DOMAIN work[d].senders : work[d].senders[s] <= db[d].sender_cnt

SignsRight(c) ==
  Live(c) /\ session[c] \in Proper /\ Has(session[c], "sender-id", Done(c)) =>
    LET d == handler[c].database IN
    /\ d \in Domains
    /\ Sender[session[c]] \in DOMAIN work[d].senders
    /\ handler[c].sender_id = work[d].senders[Sender[session[c]]]

SenderInv ==
  /\ \A d \in Domains : SendersOK(work[d]) /\ SendersOK(stored[d]) /\ CounterOK(d)
  /\ \A c \in Clients : SignsRight(c)

(* sq3_add_sender_id: an identifier that no sender of the database has.    *)
LEMMA NextSenderIdIsNew ==
  ASSUME NEW d \in Domains, SendersOK(work[d]), CounterOK(d)
  PROVE  /\ NextSenderId(d) \in Nat \ {0}
         /\ \A s \in DOMAIN work[d].senders : work[d].senders[s] < NextSenderId(d)
<1> DEFINE ids == {work[d].senders[s] : s \in DOMAIN work[d].senders}
           max == CHOOSE i \in ids \cup {0} : \A j \in ids : j <= i
           Bounds == {n \in Nat : \A j \in ids : j <= n}
<1>1. ids \subseteq Nat /\ Bounds # {} /\ Bounds \in SUBSET Nat
  <2>1. \A s \in DOMAIN work[d].senders : work[d].senders[s] \in Nat \ {0}
    BY DEF SendersOK
  <2>2. PICK n \in Nat : \A s \in DOMAIN work[d].senders : work[d].senders[s] <= n
    BY DEF SendersOK
  <2>3. n \in Bounds
    BY <2>2
  <2> QED
    BY <2>1, <2>3
<1>2. PICK n \in Bounds : \A m \in Bounds : n <= m
  <2> HIDE DEF Bounds
  <2> QED
    BY <1>1, LeastNat
<1>3. n \in ids \cup {0}
  <2> SUFFICES ASSUME n \notin ids \cup {0}
               PROVE  FALSE
    OBVIOUS
  <2>1. n \in Nat /\ n # 0 /\ \A j \in ids : j <= n /\ j # n
    OBVIOUS
  <2>2. n - 1 \in Nat /\ \A j \in ids : j <= n - 1
    <3> HIDE DEF ids
    <3> QED
      BY <1>1, <2>1
  <2>3. n - 1 \in Bounds
    BY <2>2
  <2>4. n <= n - 1
    BY <1>2, <2>3
  <2> QED
    BY <2>1, <2>4
<1>4. max \in ids \cup {0} /\ \A j \in ids : j <= max
  <2>1. \E i \in ids \cup {0} : \A j \in ids : j <= i
    BY <1>2, <1>3
  <2> HIDE DEF ids
  <2> QED
    BY <2>1
<1>5. NextSenderId(d) = 1 + IF db[d].sender_cnt > 0 THEN db[d].sender_cnt ELSE max
  BY DEF NextSenderId
<1>6. max \in Nat /\ db[d].sender_cnt \in Nat
  BY <1>1, <1>4 DEF CounterOK
<1>7. \A s \in DOMAIN work[d].senders : work[d].senders[s] \in ids /\ work[d].senders[s] \in Nat
  BY <1>1
<1> HIDE DEF max, ids
<1> QED
  BY <1>4, <1>5, <1>6, <1>7 DEF CounterOK

(* No sender has an identifier at first.                                   *)
LEMMA SenderInit ==
  ASSUME Init
  PROVE  SenderInv
<1>1. /\ \A d \in Domains : work[d] = Empty /\ stored[d] = Empty /\ db[d].sender_cnt = 0
      /\ \A c \in Clients : ~Live(c)
  BY DEF Init, Closed, Live, NoHandler
<1>2. Empty.senders = << >> /\ DOMAIN << >> = {} /\ Empty.rows = {} /\ 0 \in Nat
  BY DEF Empty
<1>3. SendersOK(Empty)
  BY <1>2 DEF SendersOK, ProperRows
<1> QED
  BY <1>1, <1>3 DEF SenderInv, CounterOK, SignsRight

(* Content with the same senders, and no more than one row more.           *)
LEMMA SameSenders ==
  ASSUME NEW C, NEW D, SendersOK(C), D.senders = C.senders,
         NEW r, D.rows \subseteq C.rows \cup {r}, r.session \in Proper => Signed(C, r)
  PROVE  SendersOK(D)
<1>1. \A q \in ProperRows(D.rows) : Signed(C, q)
  BY DEF ProperRows, SendersOK
<1> QED
  BY <1>1 DEF SendersOK, Signed

(* Content with one sender more.                                           *)
LEMMA OneMoreSender ==
  ASSUME NEW C, NEW D, SendersOK(C), D.rows = C.rows, NEW s, s \notin DOMAIN C.senders,
         NEW n \in Nat \ {0}, \A t \in DOMAIN C.senders : C.senders[t] < n,
         D.senders = Put(C.senders, s, n)
  PROVE  SendersOK(D) /\ \A t \in DOMAIN D.senders : D.senders[t] <= n
<1>1. /\ DOMAIN D.senders = DOMAIN C.senders \cup {s} /\ D.senders[s] = n
      /\ \A t \in DOMAIN C.senders : D.senders[t] = C.senders[t]
  BY DEF Put
<1>2. \A t \in DOMAIN C.senders : C.senders[t] \in Nat \ {0} /\ C.senders[t] # n /\ C.senders[t] <= n
  BY DEF SendersOK
<1>3. \A t \in DOMAIN D.senders : D.senders[t] <= n /\ D.senders[t] \in Nat \ {0}
  BY <1>1, <1>2
<1>4. \A t, u \in DOMAIN D.senders : D.senders[t] = D.senders[u] => t = u
  BY <1>1, <1>2 DEF SendersOK
<1>5. \A r \in ProperRows(D.rows) : Signed(D, r)
  BY <1>1 DEF SendersOK, Signed
<1> QED
  BY <1>3, <1>4, <1>5 DEF SendersOK

(* Every step keeps the identifiers of the senders distinct, in the        *)
(* database, in what was committed and in the counter.                     *)
LEMMA SenderStep ==
  ASSUME ~BackendMayFail, BaseInv, SenderInv, Step
  PROVE  SenderInv'
<1>0. /\ TypeOK /\ RefInv /\ ClosedInv /\ HeaderInv /\ DatabaseInv
      /\ \A d \in Domains : SendersOK(work[d]) /\ SendersOK(stored[d]) /\ CounterOK(d)
      /\ \A x \in Clients : SignsRight(x)
  BY DEF BaseInv, SenderInv
<1>1. CASE Vanish
  <2>1. \A x \in Clients : ~Live(x)'
    BY <1>1 DEF Vanish, Live, NoHandler
  <2>2. \A d \in Domains : work'[d] = stored[d] /\ stored'[d] = stored[d] /\ db'[d].sender_cnt = 0
    BY <1>1 DEF Vanish, Closed
  <2> QED
    BY <1>0, <2>1, <2>2 DEF SenderInv, CounterOK, SignsRight
<1>2. CASE Rests
  <2>1. \A d \in Domains : CounterOK(d)'
    <3>1. Closed.sender_cnt = 0
      BY DEF Closed
    <3> QED
      BY <1>0, <1>2, <3>1 DEF Rests, CounterOK
  <2>2. \A x \in Clients : SignsRight(x)'
    <3>1. ASSUME NEW x \in Clients, Same(x)
          PROVE  SignsRight(x)'
      BY <1>0, <1>2, <3>1, SameState DEF Same, SignsRight, Rests
    <3>2. ASSUME NEW x \in Clients, handler'[x] = NewHandler, Done(x)' = 0, session'[x] \in DOMAIN Script
          PROVE  SignsRight(x)'
      BY <3>2, NothingYet DEF SignsRight
    <3> QED
      BY <1>2, <3>1, <3>2 DEF Rests, SignsRight
  <2> QED
    BY <1>0, <1>2, <2>1, <2>2 DEF Rests, SenderInv
<1>3. ASSUME NEW c \in Clients, NEW h, Handled(c, h)
      PROVE  SenderInv'
  <2>0. /\ Live(c) /\ handler[c].mbuf # << >> /\ session'[c] = session[c] /\ Done(c)' = Done(c) + 1
        /\ \A d \in Domains : stored'[d] \in {stored[d], work[d]}
        /\ h.database = handler[c].database
    BY <1>0, <1>3, PreparedShape DEF Handled, Changed, Commits
  <2>1. \A key : Has(session[c], key, Done(c) + 1)
                       <=> Has(session[c], key, Done(c)) \/ Message(c)[1] = key
    BY <1>0, <2>0, HasMore
  <2>2. \A d \in Domains : SendersOK(stored'[d])
    BY <1>0, <2>0
  <2>3. ASSUME NEW x \in Clients, x # c, \A d \in Domains : Grows(work[d].senders, work'[d].senders)
        PROVE  SignsRight(x)'
    <3>1. Same(x)
      BY <1>3, <2>3, OthersSame
    <3> QED
      BY <1>0, <2>3, <3>1, SameState DEF Same, SignsRight, Grows
  <2>4. session[c] \in Proper /\ Has(session[c], "sender-id", Done(c)) => ~SetsDomain(c, h)
    <3>1. session[c] \in Proper /\ SetsDomain(c, h) => handler[c].database = NoDatabase
      <4>1. session[c] \in Proper /\ SetsDomain(c, h) => ~Has(session[c], "domain", Done(c))
        BY <1>0, <1>3, <2>0, KeyOutcome, ProperMessage DEF Keys
      <4> QED
        BY <1>0, <2>0, <4>1 DEF DatabaseInv
    <3> QED
      BY <1>0, <2>0, <3>1, ServerAssumption DEF SignsRight
  <2>5. CASE KeepsSenders(c) /\ ~SetsSenderId(c, h)
    <3>1. \A d \in Domains : CounterOK(d)'
      BY <1>0, <2>5 DEF KeepsSenders, CounterOK
    <3>2. \A d \in Domains : SendersOK(work'[d])
      <4>1. CASE InsertsRow(c, h) \/ InsertsMeta(c, h)
        <5>1. PICK t : /\ session[c] \in Proper => t[1] = handler[c].database
                       /\ \A d \in Domains :
                            \/ work'[d].rows = work[d].rows
                            \/ d = t[1] /\ work'[d].rows = work[d].rows \cup {RowOf(c, t)}
          BY <1>3, <4>1, InsertOutcome
        <5>2. RowOf(c, t).session = session[c] /\ RowOf(c, t).sender_id = handler[c].sender_id
          BY DEF RowOf
        <5>3. session[c] \in Proper => Signed(work[t[1]], RowOf(c, t))
          <6>1. ~InHeader(c)
            BY <1>3, <4>1, InsertOutcome
          <6>2. session[c] \in Proper => Has(session[c], "sender-id", Done(c))
            BY <1>0, <2>0, <6>1, ProperMessage DEF Keys
          <6> QED
            BY <1>0, <2>0, <5>1, <5>2, <6>2 DEF SignsRight, Signed
        <5>4. ASSUME NEW d \in Domains
              PROVE  SendersOK(work'[d])
          <6>1. work'[d].senders = work[d].senders
            BY <2>5 DEF KeepsSenders
          <6>2. CASE work'[d].rows = work[d].rows
            BY <1>0, <6>1, <6>2 DEF SendersOK, Signed
          <6>3. CASE d = t[1] /\ work'[d].rows = work[d].rows \cup {RowOf(c, t)}
            BY <1>0, <5>2, <5>3, <6>1, <6>3, SameSenders
          <6> QED
            BY <5>1, <6>2, <6>3
        <5> QED
          BY <5>4
      <4>2. CASE KeepsRows
        <5>1. \A d \in Domains : /\ work'[d].senders = work[d].senders /\ work'[d].rows = work[d].rows
                                 /\ SendersOK(work[d])
          BY <1>0, <2>5, <4>2 DEF KeepsSenders, KeepsRows
        <5>2. \A d \in Domains : SendersOK(work'[d])
          BY <5>1 DEF SendersOK, Signed
        <5> QED
          BY <5>2
      <4> QED
        BY <1>3, <4>1, <4>2 DEF Handled, Changed
    <3>3. SignsRight(c)'
      <4> SUFFICES ASSUME session[c] \in Proper, Has(session[c], "sender-id", Done(c) + 1)
                   PROVE  LET d == handler'[c].database IN
                          /\ d \in Domains
                          /\ Sender[session[c]] \in DOMAIN work'[d].senders
                          /\ handler'[c].sender_id = work'[d].senders[Sender[session[c]]]
        BY <2>0 DEF SignsRight
      <4>1. Has(session[c], "sender-id", Done(c))
        BY <1>0, <1>3, <2>1, <2>5, KeyOutcome
      <4>2. handler'[c].database = handler[c].database
        BY <1>3, <2>4, <4>1 DEF Handled, Changed, KeepsDatabase
      <4> QED
        BY <1>0, <2>0, <2>5, <4>1, <4>2 DEF SignsRight, KeepsSenders
    <3>4. \A d \in Domains : Grows(work[d].senders, work'[d].senders)
      BY <2>5 DEF KeepsSenders, Grows
    <3> QED
      BY <2>2, <2>3, <3>1, <3>2, <3>3, <3>4 DEF SenderInv
  <2>6. CASE SetsSenderId(c, h)
    <3> DEFINE d == h.database
               s == Message(c)[2]
               n == NextSenderId(d)
    <3>0. KeepsRows /\ KeepsDatabase(c) /\ Message(c)[1] = "sender-id" /\ ~Fails(c, h)
      BY <1>0, <1>3, <2>6, HandledSucceeds
      DEF Handled, Changed, SetsSenderId, SetsDomain, InsertsRow, InsertsMeta
    <3>1. /\ d \in Domains \cup {NoDatabase}
          /\ DOMAIN h = {"state", "content", "mbuf", "received", "database", "sender_id",
                         "time_offset", "tables", "is_active"}
          /\ DOMAIN handler = Clients
      BY <1>0, <1>3, PreparedShape, HandlerTypes DEF Handled, HandlerShape
    <3>2. /\ DOMAIN Closed = {"ref_count", "start_time", "first_table", "sender_cnt", "overdue"}
          /\ DOMAIN Empty = {"tables", "metadata", "senders", "start_time", "rows"}
          /\ DOMAIN db = Domains /\ DOMAIN work = Domains
          /\ \A e \in Domains : DOMAIN db[e] = DOMAIN Closed /\ DOMAIN work[e] = DOMAIN Empty
      BY <1>0 DEF Closed, Empty, TypeOK
    <3>3. /\ d \in Domains
          /\ \/ /\ s \in DOMAIN work[d].senders /\ Becomes(c, [h EXCEPT !.sender_id = work[d].senders[s]])
                /\ UNCHANGED storage
             \/ /\ s \notin DOMAIN work[d].senders /\ Becomes(c, [h EXCEPT !.sender_id = n])
                /\ db' = [db EXCEPT ![d].sender_cnt = n]
                /\ work' = [work EXCEPT ![d].senders = Put(@, s, n)]
      BY <2>6, <3>0, <3>1 DEF SetsSenderId, MetaSenderId
    <3>4. n \in Nat \ {0} /\ \A t \in DOMAIN work[d].senders : work[d].senders[t] < n
      BY <1>0, <3>3, NextSenderIdIsNew
    <3> HIDE DEF n
    <3>5. /\ \A e \in Domains : SendersOK(work'[e]) /\ Grows(work[e].senders, work'[e].senders) /\ CounterOK(e)'
          /\ s \in DOMAIN work'[d].senders /\ handler'[c].sender_id = work'[d].senders[s]
      <4>1. CASE /\ s \in DOMAIN work[d].senders /\ Becomes(c, [h EXCEPT !.sender_id = work[d].senders[s]])
                 /\ UNCHANGED storage
        <5>1. handler'[c].sender_id = work[d].senders[s] /\ work' = work /\ db' = db
          BY <3>1, <4>1 DEF Becomes, storage
        <5> QED
          BY <1>0, <4>1, <5>1 DEF Grows, CounterOK
      <4>2. CASE /\ s \notin DOMAIN work[d].senders /\ Becomes(c, [h EXCEPT !.sender_id = n])
                 /\ db' = [db EXCEPT ![d].sender_cnt = n]
                 /\ work' = [work EXCEPT ![d].senders = Put(@, s, n)]
        <5>1. handler'[c].sender_id = n
          BY <3>1, <4>2 DEF Becomes
        <5>2. work'[d].senders = Put(work[d].senders, s, n) /\ db'[d].sender_cnt = n
          BY <3>2, <3>3, <4>2
        <5>3. \A e \in Domains : e # d => work'[e] = work[e] /\ db'[e] = db[e]
          BY <3>2, <4>2
        <5>4. SendersOK(work'[d]) /\ \A t \in DOMAIN work'[d].senders : work'[d].senders[t] <= n
          BY <1>0, <3>0, <3>3, <3>4, <4>2, <5>2, OneMoreSender DEF KeepsRows
        <5>5. Grows(work[d].senders, work'[d].senders) /\ s \in DOMAIN work'[d].senders
              /\ work'[d].senders[s] = n
          BY <4>2, <5>2 DEF Put, Grows
        <5>6. \A e \in Domains : e # d => CounterOK(e)' /\ Grows(work[e].senders, work'[e].senders)
          BY <1>0, <5>3 DEF CounterOK, Grows
        <5>7. CounterOK(d)'
          BY <3>4, <5>2, <5>4 DEF CounterOK
        <5> QED
          BY <1>0, <5>1, <5>3, <5>4, <5>5, <5>6, <5>7
      <4> QED
        BY <3>3, <4>1, <4>2
    <3>6. SignsRight(c)'
      <4>1. session[c] \in Proper => Sender[session[c]] = s
        BY <1>0, <2>0, <3>0, ProperMessage DEF Keys, Sender
      <4>2. handler'[c].database = d
        BY <2>0, <3>0 DEF KeepsDatabase
      <4> QED
        BY <2>0, <3>3, <3>5, <4>1, <4>2 DEF SignsRight
    <3> QED
      BY <2>2, <2>3, <3>5, <3>6 DEF SenderInv
  <2>7. SetsSenderId(c, h) \/ KeepsSenders(c)
    BY <1>3 DEF Handled, Changed
  <2> QED
    BY <2>5, <2>6, <2>7
<1> QED
  BY <1>1, <1>2, <1>3, StepForms DEF BaseInv

(* Within a database that does what it is asked to, the identifier of a    *)
(* row tells who sent it, for any clients, any sessions among which the    *)
(* proper ones, and any crashes and restarts: sq3_add_sender_id.           *)
THEOREM SendersAreTold ==
  ASSUME ~BackendMayFail
  PROVE  Spec => []SenderIdsIdentify
<1>1. Init => BaseInv /\ SenderInv
  BY BaseInit, SenderInit
<1>2. (BaseInv /\ SenderInv) /\ [Next]_vars => (BaseInv /\ SenderInv)'
  BY BaseStep, SenderStep
<1>3. SenderInv => SenderIdsIdentify
  BY DEF SenderInv, SendersOK, Signed, SenderIdsIdentify
<1> QED
  BY <1>1, <1>2, <1>3, PTL DEF Spec
-----------------------------------------------------------------------------
(* Timestamps, if the backend does what it is asked to.                    *)

Timed(C, r) ==
  C.start_time # 0 /\ r.time_offset = StartTime[r.session] - C.start_time

TimesOK(C) == C.start_time \in Int /\ \A r \in ProperRows(C.rows) : Timed(C, r)

(* The date that an open database has read, or was given, is recorded.     *)
DateOK(d) == db[d].ref_count > 0 => db[d].start_time = work[d].start_time

TimesRight(c) ==
  Live(c) /\ session[c] \in Proper /\ Has(session[c], "start-time", Done(c)) =>
    LET d == handler[c].database IN
    /\ d \in Domains /\ work[d].start_time # 0
    /\ handler[c].time_offset = StartTime[session[c]] - work[d].start_time

TimeInv ==
  /\ \A d \in Domains : TimesOK(work[d]) /\ TimesOK(stored[d]) /\ DateOK(d)
  /\ \A c \in Clients : TimesRight(c)

(* No database has a start time at first.                                  *)
LEMMA TimeInit ==
  ASSUME Init
  PROVE  TimeInv
<1>1. /\ \A d \in Domains : work[d] = Empty /\ stored[d] = Empty /\ db[d].ref_count = 0
      /\ \A c \in Clients : ~Live(c)
  BY DEF Init, Closed, Live, NoHandler
<1>2. TimesOK(Empty)
  BY DEF Empty, TimesOK, ProperRows
<1> QED
  BY <1>1, <1>2 DEF TimeInv, DateOK, TimesRight

(* A proper session gives a date that is not 0.                            *)
LEMMA StartTimeIsDate ==
  ASSUME NEW s \in Proper
  PROVE  StartTime[s] \in Int \ {0}
<1>1. PICK p \in DOMAIN Script[s] : Positions(s, "start-time") = {p} /\ StartTime[s] = Script[s][p][2]
  BY ProperSession DEF Keys, StartTime
<1>2. Script[s][p][1] = "start-time" /\ p \in Positions(s, "start-time")
  BY <1>1 DEF Positions
<1>3. Script[s][p][2] # 0
  BY <1>2 DEF Proper
<1>4. s \in DOMAIN Script /\ Script[s][p] \in Messages
  BY <1>1, ProperSession DEF Messages
<1>5. WellFormed(HeaderLine(Script[s][p]))
  BY <1>4, ScriptAssumption
<1>6. Script[s][p][2] \in Int
  BY <1>2, <1>5 DEF WellFormed, HeaderLine
<1> QED
  BY <1>1, <1>3, <1>6

(* Content with the same date, and no more than one row more.              *)
LEMMA SameTimes ==
  ASSUME NEW C, NEW D, TimesOK(C), D.start_time = C.start_time,
         NEW r, D.rows \subseteq C.rows \cup {r}, r.session \in Proper => Timed(C, r)
  PROVE  TimesOK(D)
BY DEF TimesOK, Timed, ProperRows

(* Every step keeps the offsets of the handlers and of the stored rows     *)
(* relative to the date of their database.                                 *)
LEMMA TimeStep ==
  ASSUME ~BackendMayFail, BaseInv, TimeInv, Step
  PROVE  TimeInv'
<1>0. /\ TypeOK /\ RefInv /\ ClosedInv /\ HeaderInv /\ DatabaseInv
      /\ \A d \in Domains : TimesOK(work[d]) /\ TimesOK(stored[d]) /\ DateOK(d)
      /\ \A x \in Clients : TimesRight(x)
  BY DEF BaseInv, TimeInv
<1>1. CASE Vanish
  <2>1. \A x \in Clients : ~Live(x)'
    BY <1>1 DEF Vanish, Live, NoHandler
  <2>2. \A d \in Domains : work'[d] = stored[d] /\ stored'[d] = stored[d] /\ db'[d].ref_count = 0
    BY <1>1 DEF Vanish, Closed
  <2> QED
    BY <1>0, <2>1, <2>2 DEF TimeInv, DateOK, TimesRight
<1>2. CASE Rests
  <2>1. \A d \in Domains : DateOK(d)'
    <3>1. Closed.ref_count = 0
      BY DEF Closed
    <3> QED
      BY <1>0, <1>2, <3>1 DEF Rests, DateOK
  <2>2. \A x \in Clients : TimesRight(x)'
    <3>1. ASSUME NEW x \in Clients, Same(x)
          PROVE  TimesRight(x)'
      BY <1>0, <1>2, <3>1, SameState DEF Same, TimesRight, Rests
    <3>2. ASSUME NEW x \in Clients, handler'[x] = NewHandler, Done(x)' = 0, session'[x] \in DOMAIN Script
          PROVE  TimesRight(x)'
      BY <3>2, NothingYet DEF TimesRight
    <3> QED
      BY <1>2, <3>1, <3>2 DEF Rests, TimesRight
  <2> QED
    BY <1>0, <1>2, <2>1, <2>2 DEF Rests, TimeInv
<1>3. ASSUME NEW c \in Clients, NEW h, Handled(c, h)
      PROVE  TimeInv'
  <2>0. /\ Live(c) /\ handler[c].mbuf # << >> /\ session'[c] = session[c] /\ Done(c)' = Done(c) + 1
        /\ \A d \in Domains : stored'[d] \in {stored[d], work[d]}
        /\ h.database = handler[c].database
    BY <1>0, <1>3, PreparedShape DEF Handled, Changed, Commits
  <2>1. \A key : Has(session[c], key, Done(c) + 1)
                       <=> Has(session[c], key, Done(c)) \/ Message(c)[1] = key
    BY <1>0, <2>0, HasMore
  <2>2. \A d \in Domains : TimesOK(stored'[d])
    BY <1>0, <2>0
  <2>3. ASSUME NEW x \in Clients, x # c,
               \A d \in Domains : work[d].start_time # 0 => work'[d].start_time = work[d].start_time
        PROVE  TimesRight(x)'
    <3>1. Same(x)
      BY <1>3, <2>3, OthersSame
    <3> QED
      BY <1>0, <2>3, <3>1, SameState DEF Same, TimesRight
  <2>4. session[c] \in Proper /\ Has(session[c], "start-time", Done(c)) => ~SetsDomain(c, h)
    <3>1. session[c] \in Proper /\ SetsDomain(c, h) => handler[c].database = NoDatabase
      <4>1. session[c] \in Proper /\ SetsDomain(c, h) => ~Has(session[c], "domain", Done(c))
        BY <1>0, <1>3, <2>0, KeyOutcome, ProperMessage DEF Keys
      <4> QED
        BY <1>0, <2>0, <4>1 DEF DatabaseInv
    <3> QED
      BY <1>0, <2>0, <3>1, ServerAssumption DEF TimesRight
  <2>5. CASE KeepsTimes(c) /\ ~SetsStartTime(c, h)
    <3>1. \A d \in Domains : DateOK(d)'
      BY <1>0, <2>5 DEF KeepsTimes, DateOK
    <3>2. \A d \in Domains : TimesOK(work'[d])
      <4>1. CASE InsertsRow(c, h) \/ InsertsMeta(c, h)
        <5>1. PICK t : /\ session[c] \in Proper => t[1] = handler[c].database
                       /\ \A d \in Domains :
                            \/ work'[d].rows = work[d].rows
                            \/ d = t[1] /\ work'[d].rows = work[d].rows \cup {RowOf(c, t)}
          BY <1>3, <4>1, InsertOutcome
        <5>2. RowOf(c, t).session = session[c] /\ RowOf(c, t).time_offset = handler[c].time_offset
          BY DEF RowOf
        <5>3. session[c] \in Proper => Timed(work[t[1]], RowOf(c, t))
          <6>1. ~InHeader(c)
            BY <1>3, <4>1, InsertOutcome
          <6>2. session[c] \in Proper => Has(session[c], "start-time", Done(c))
            BY <1>0, <2>0, <6>1, ProperMessage DEF Keys
          <6> QED
            BY <1>0, <2>0, <5>1, <5>2, <6>2 DEF TimesRight, Timed
        <5>4. ASSUME NEW d \in Domains
              PROVE  TimesOK(work'[d])
          <6>1. work'[d].start_time = work[d].start_time
            BY <2>5 DEF KeepsTimes
          <6>2. CASE work'[d].rows = work[d].rows
            BY <1>0, <6>1, <6>2 DEF TimesOK, Timed
          <6>3. CASE d = t[1] /\ work'[d].rows = work[d].rows \cup {RowOf(c, t)}
            BY <1>0, <5>2, <5>3, <6>1, <6>3, SameTimes
          <6> QED
            BY <5>1, <6>2, <6>3
        <5> QED
          BY <5>4
      <4>2. CASE KeepsRows
        BY <1>0, <2>5, <4>2 DEF KeepsTimes, KeepsRows, TimesOK, Timed
      <4> QED
        BY <1>3, <4>1, <4>2 DEF Handled, Changed
    <3>3. TimesRight(c)'
      <4> SUFFICES ASSUME session[c] \in Proper, Has(session[c], "start-time", Done(c) + 1)
                   PROVE  LET d == handler'[c].database IN
                          /\ d \in Domains /\ work'[d].start_time # 0
                          /\ handler'[c].time_offset = StartTime[session[c]] - work'[d].start_time
        BY <2>0 DEF TimesRight
      <4>1. Has(session[c], "start-time", Done(c))
        BY <1>0, <1>3, <2>1, <2>5, KeyOutcome
      <4>2. handler'[c].database = handler[c].database
        BY <1>3, <2>4, <4>1 DEF Handled, Changed, KeepsDatabase
      <4> QED
        BY <1>0, <2>0, <2>5, <4>1, <4>2 DEF TimesRight, KeepsTimes
    <3>4. \A d \in Domains : work'[d].start_time = work[d].start_time
      BY <2>5 DEF KeepsTimes
    <3> QED
      BY <2>2, <2>3, <3>1, <3>2, <3>3, <3>4 DEF TimeInv
  <2>6. CASE SetsStartTime(c, h)
    <3> DEFINE d == h.database
               t == Message(c)[2]
    <3>0. KeepsRows /\ KeepsDatabase(c) /\ Message(c)[1] = "start-time" /\ ~Fails(c, h)
      BY <1>0, <1>3, <2>6, HandledSucceeds
      DEF Handled, Changed, SetsStartTime, SetsDomain, InsertsRow, InsertsMeta
    <3>1. /\ d \in Domains \cup {NoDatabase}
          /\ DOMAIN h = {"state", "content", "mbuf", "received", "database", "sender_id",
                         "time_offset", "tables", "is_active"}
          /\ DOMAIN handler = Clients
      BY <1>0, <1>3, PreparedShape, HandlerTypes DEF Handled, HandlerShape
    <3>2. /\ DOMAIN Closed = {"ref_count", "start_time", "first_table", "sender_cnt", "overdue"}
          /\ DOMAIN Empty = {"tables", "metadata", "senders", "start_time", "rows"}
          /\ DOMAIN db = Domains /\ DOMAIN work = Domains
          /\ \A e \in Domains : DOMAIN db[e] = DOMAIN Closed /\ DOMAIN work[e] = DOMAIN Empty
      BY <1>0 DEF Closed, Empty, TypeOK
    <3>3. /\ d \in Domains
          /\ \/ /\ db[d].start_time = 0
                /\ db' = [db EXCEPT ![d].start_time = t]
                /\ work' = [work EXCEPT ![d].start_time = t]
             \/ db[d].start_time # 0 /\ UNCHANGED storage
          /\ Becomes(c, [h EXCEPT !.time_offset = t - db'[d].start_time])
      BY <2>6, <3>0, <3>1 DEF SetsStartTime, MetaStartTime
    <3>4. db[d].start_time = work[d].start_time
      <4>1. db[d].ref_count > 0
        BY <1>0, <2>0, <3>3, ReferredIsOpen DEF Refers
      <4> QED
        BY <1>0, <3>3, <4>1 DEF DateOK
    <3>5. t \in Int
      <4>1. WellFormed(HeaderLine(Message(c)))
        BY <1>0, <2>0, NextMessage DEF Live
      <4> QED
        BY <3>0, <4>1 DEF WellFormed, HeaderLine
    <3>6. handler'[c].time_offset = t - db'[d].start_time
      BY <3>1, <3>3 DEF Becomes
    <3>7. /\ \A e \in Domains : /\ TimesOK(work'[e]) /\ DateOK(e)'
                                /\ work[e].start_time # 0 => work'[e].start_time = work[e].start_time
          /\ db'[d].start_time = work'[d].start_time
          /\ t # 0 => work'[d].start_time # 0
      <4>1. CASE /\ db[d].start_time = 0
                 /\ db' = [db EXCEPT ![d].start_time = t]
                 /\ work' = [work EXCEPT ![d].start_time = t]
        <5>1. work'[d].start_time = t /\ db'[d].start_time = t
          BY <3>2, <3>3, <4>1
        <5>2. \A e \in Domains : e # d => work'[e] = work[e] /\ db'[e] = db[e]
          BY <3>2, <4>1
        <5>3. ProperRows(work'[d].rows) = {}
          BY <1>0, <3>0, <3>3, <3>4, <4>1 DEF KeepsRows, TimesOK, Timed
        <5>4. TimesOK(work'[d])
          BY <3>5, <5>1, <5>3 DEF TimesOK
        <5> QED
          BY <1>0, <3>4, <4>1, <5>1, <5>2, <5>4 DEF DateOK
      <4>2. CASE db[d].start_time # 0 /\ UNCHANGED storage
        BY <1>0, <3>3, <3>4, <4>2 DEF storage, DateOK
      <4> QED
        BY <3>3, <4>1, <4>2
    <3>8. TimesRight(c)'
      <4>1. session[c] \in Proper => StartTime[session[c]] = t /\ t # 0
        BY <1>0, <2>0, <3>0, ProperMessage, StartTimeIsDate DEF Keys, StartTime
      <4>2. handler'[c].database = d
        BY <2>0, <3>0 DEF KeepsDatabase
      <4> QED
        BY <2>0, <3>3, <3>6, <3>7, <4>1, <4>2 DEF TimesRight
    <3> QED
      BY <2>2, <2>3, <3>7, <3>8 DEF TimeInv
  <2>7. SetsStartTime(c, h) \/ KeepsTimes(c)
    BY <1>3 DEF Handled, Changed
  <2> QED
    BY <2>5, <2>6, <2>7
<1> QED
  BY <1>1, <1>2, <1>3, StepForms DEF BaseInv

(* Within a database that does what it is asked to, the timestamps of all  *)
(* proper clients are relative to the date that it has recorded, whoever   *)
(* came first and however often the server has crashed and been restarted: *)
(* process_meta and database_init.                                         *)
THEOREM TimestampsHaveOneBase ==
  ASSUME ~BackendMayFail
  PROVE  Spec => []OneTimeBase
<1>1. Init => BaseInv /\ TimeInv
  BY BaseInit, TimeInit
<1>2. (BaseInv /\ TimeInv) /\ [Next]_vars => (BaseInv /\ TimeInv)'
  BY BaseStep, TimeStep
<1>3. TimeInv => OneTimeBase
  <2> SUFFICES ASSUME TimeInv, NEW d \in Domains, NEW r \in ProperRows(work[d].rows)
               PROVE  StartTime[r.session] - r.time_offset = work[d].start_time
    BY DEF OneTimeBase
  <2>1. r.time_offset = StartTime[r.session] - work[d].start_time /\ work[d].start_time \in Int
    BY DEF TimeInv, TimesOK, Timed
  <2>2. StartTime[r.session] \in Int
    BY StartTimeIsDate DEF ProperRows
  <2> QED
    BY <2>1, <2>2
<1> QED
  BY <1>1, <1>2, <1>3, PTL DEF Spec

-----------------------------------------------------------------------------
(* Tables.                                                                 *)

(* The table t is the first that can take measurements of this schema, of  *)
(* those that its name stands for.                                         *)
Located(tables, schema, t) ==
  \E k \in 1..(MAX_TABLE_RENAME - 1) :
    /\ t = Renamed(schema.name, k) /\ t \in DOMAIN tables /\ tables[t] = schema.fields
    /\ \A l \in 1..(k - 1) : LET n == Renamed(schema.name, l) IN
         n \in DOMAIN tables /\ tables[n] # schema.fields

(* An open database knows tables that exist.                               *)
KnownOK(d) == Grows(db[d].first_table, work[d].tables)

RowsOK(C) == \A r \in Measurements(C.rows) : Located(C.tables, SchemaOf(r), r.table)

(* The schema of stream i that is in force has led to its table.           *)
StreamOK(c, i) ==
  LET tables == handler[c].tables IN
  /\ i \in DOMAIN tables /\ tables[i] # NoTable
  /\ Located(work[handler[c].database].tables, Schema(session[c], Position(c), i), tables[i][2])

StreamsOK(c) ==
  Live(c) /\ session[c] \in Proper =>
    \A q \in 1..Done(c) : LET line == HeaderLine(Script[session[c]][q]) IN
      line[1] = "schema" => StreamOK(c, line[2])

TableInv ==
  /\ \A d \in Domains : KnownOK(d) /\ RowsOK(work[d]) /\ RowsOK(stored[d])
  /\ \A c \in Clients : StreamsOK(c)

(* There is no table and no row at first.                                  *)
LEMMA TableInit ==
  ASSUME Init
  PROVE  TableInv
<1>1. /\ \A d \in Domains : work[d] = Empty /\ stored[d] = Empty /\ db[d] = Closed
      /\ \A c \in Clients : ~Live(c)
  BY DEF Init, Live, NoHandler
<1>2. RowsOK(Empty) /\ Empty.rows = {}
  BY DEF Empty, RowsOK, Measurements, ProperRows
<1>3. Grows(Closed.first_table, Empty.tables)
  BY DEF Closed, Empty, Grows
<1> QED
  BY <1>1, <1>2, <1>3 DEF TableInv, KnownOK, StreamsOK

(* A table stays where it is when others are created.                      *)
LEMMA LocatedGrows ==
  ASSUME NEW f, NEW g, Grows(f, g), NEW schema, NEW t, Located(f, schema, t)
  PROVE  Located(g, schema, t)
<1>1. PICK k \in 1..(MAX_TABLE_RENAME - 1) :
        /\ t = Renamed(schema.name, k) /\ t \in DOMAIN f /\ f[t] = schema.fields
        /\ \A l \in 1..(k - 1) : LET n == Renamed(schema.name, l) IN
             n \in DOMAIN f /\ f[n] # schema.fields
  BY DEF Located
<1>2. t \in DOMAIN g /\ g[t] = schema.fields
  BY <1>1 DEF Grows
<1>3. \A l \in 1..(k - 1) : LET n == Renamed(schema.name, l) IN
        n \in DOMAIN g /\ g[n] # schema.fields
  BY <1>1 DEF Grows
<1> QED
  BY <1>1, <1>2, <1>3 DEF Located

(* There is one such table.                                                *)
LEMMA LocatedOnce ==
  ASSUME NEW f, NEW schema, NEW t, NEW u, Located(f, schema, t), Located(f, schema, u)
  PROVE  t = u
<1>1. PICK k \in 1..(MAX_TABLE_RENAME - 1) :
        /\ t = Renamed(schema.name, k) /\ t \in DOMAIN f /\ f[t] = schema.fields
        /\ \A l \in 1..(k - 1) : f[Renamed(schema.name, l)] # schema.fields
  BY DEF Located
<1>2. PICK m \in 1..(MAX_TABLE_RENAME - 1) :
        /\ u = Renamed(schema.name, m) /\ u \in DOMAIN f /\ f[u] = schema.fields
        /\ \A l \in 1..(m - 1) : f[Renamed(schema.name, l)] # schema.fields
  BY DEF Located
<1>3. MAX_TABLE_RENAME \in Nat
  BY ServerAssumption
<1>4. k \notin 1..(m - 1) /\ m \notin 1..(k - 1)
  BY <1>1, <1>2
<1>5. k = m
  BY <1>3, <1>4
<1> QED
  BY <1>1, <1>2, <1>5

(* What the next message declares.                                         *)
LEMMA NextDeclaration ==
  ASSUME TypeOK, NEW c \in Clients, Live(c), handler[c].mbuf # << >>
  PROVE  LET s == session[c]
             line == HeaderLine(Message(c))
         IN  \A i : IF line[1] = "schema" /\ line[2] = i
                      THEN /\ Position(c) \in Declarations(s, Position(c) + 1, i)
                           /\ Schema(s, Position(c) + 1, i) = [name |-> line[3], fields |-> line[4]]
                      ELSE /\ Declarations(s, Position(c) + 1, i) = Declarations(s, Position(c), i)
                           /\ Schema(s, Position(c) + 1, i) = Schema(s, Position(c), i)
<1> DEFINE s == session[c]
           line == HeaderLine(Message(c))
           P == Position(c)
           D(i) == Declarations(s, P + 1, i)
<1>1. P \in Nat \ {0} /\ Message(c) = Script[s][P]
  BY HasMore
<1>2. \A q : q \in 1..((P + 1) - 1) <=> q \in 1..(P - 1) \/ q = P
  BY <1>1
<1>3. \A i : D(i) = IF line[1] = "schema" /\ line[2] = i THEN Declarations(s, P, i) \cup {P}
                     ELSE Declarations(s, P, i)
  BY <1>1, <1>2 DEF Declarations
<1>4. ASSUME NEW i, line[1] = "schema", line[2] = i
      PROVE  P \in D(i) /\ Schema(s, P + 1, i) = [name |-> line[3], fields |-> line[4]]
  <2>1. P \in D(i) /\ \A r \in D(i) : r \in Nat /\ r <= P
    BY <1>1, <1>3, <1>4 DEF Declarations
  <2> DEFINE last == CHOOSE q \in D(i) : \A r \in D(i) : r <= q
  <2>2. last \in D(i) /\ \A r \in D(i) : r <= last
    <3> HIDE DEF D
    <3> QED
      BY <2>1
  <2>3. last = P
    <3> HIDE DEF D, last
    <3> QED
      BY <1>1, <2>1, <2>2
  <2> QED
    BY <1>1, <2>1, <2>3 DEF Schema
<1>5. ASSUME NEW i, ~(line[1] = "schema" /\ line[2] = i)
      PROVE  D(i) = Declarations(s, P, i) /\ Schema(s, P + 1, i) = Schema(s, P, i)
  <2>1. D(i) = Declarations(s, P, i)
    BY <1>3, <1>5
  <2> QED
    BY <2>1 DEF Schema
<1> HIDE DEF D
<1> QED
  BY <1>4, <1>5 DEF D

(* A proper client that has sent its headers has stream 0.                 *)
LEMMA HasStream0 ==
  ASSUME BaseInv, TableInv, NEW c \in Clients, Live(c), handler[c].mbuf # << >>,
         session[c] \in Proper, ~InHeader(c)
  PROVE  0 \in DOMAIN handler[c].tables
<1>1. TypeOK /\ HeaderInv /\ RefsOK(handler[c], db) /\ StreamsOK(c)
  BY DEF BaseInv, RefInv, TableInv
<1>2. PICK q \in 1..Done(c) : Script[session[c]][q][1] = "schema"
  BY <1>1, ProperMessage
<1>3. HeaderLine(Script[session[c]][q])[1] = "schema"
  BY <1>2 DEF HeaderLine
<1>4. \E i : i \in DOMAIN handler[c].tables
  BY <1>1, <1>2, <1>3 DEF StreamsOK, StreamOK
<1> QED
  BY <1>1, <1>4 DEF RefsOK

(* Every schema that a proper client sends is acted on.                    *)
LEMMA SchemaIsSet ==
  ASSUME BaseInv, TableInv, NEW c \in Clients, NEW h, Handled(c, h), session[c] \in Proper
  PROVE  HeaderLine(Message(c))[1] = "schema" <=> SetsSchema(c, h)
<1>0. /\ TypeOK /\ HeaderInv /\ Live(c) /\ handler[c].mbuf # << >>
      /\ Outcome(c, h) /\ ~Fails(c, h)
  BY HandledSucceeds DEF BaseInv, Handled
<1>1. ASSUME HeaderLine(Message(c))[1] = "schema", ~InHeader(c)
      PROVE  SetsSchema(c, h)
  <2>1. Message(c)[1] = "meta" /\ Message(c)[2][1] = "schema"
    <3>1. Message(c)[1] \in {"row", "meta"}
      BY <1>0, <1>1, ProperMessage
    <3> QED
      BY <1>1, <3>1 DEF HeaderLine
  <2>2. 0 \in DOMAIN handler[c].tables
    BY <1>0, <1>1, HasStream0
  <2>3. ~Passes(c, h) /\ ~InsertsRow(c, h) /\ ~EndsHeader(c, h) /\ ~SetsContent(c, h)
    BY <1>1, <2>1, <2>2 DEF Passes, InsertsRow, EndsHeader, SetsContent
  <2>4. ~SetsDomain(c, h) /\ ~SetsStartTime(c, h) /\ ~SetsSenderId(c, h)
    BY <1>1 DEF SetsDomain, SetsStartTime, SetsSenderId
  <2>5. ~InsertsMeta(c, h)
    BY <2>1 DEF InsertsMeta
  <2> QED
    BY <1>0, <2>3, <2>4, <2>5 DEF Outcome
<1>2. ASSUME HeaderLine(Message(c))[1] = "schema", InHeader(c)
      PROVE  SetsSchema(c, h)
  <2>1. Message(c)[1] = "schema" \/ Message(c)[1] = "meta"
    BY <1>2 DEF HeaderLine
  <2> QED
    BY <1>0, <1>2, <2>1
    DEF Outcome, Passes, SetsContent, EndsHeader, SetsDomain, SetsStartTime, SetsSenderId,
        InsertsRow, InsertsMeta
<1> QED
  BY <1>1, <1>2 DEF SetsSchema

(* Tables are created, never changed, and the databases know of them; the  *)
(* stream that a schema declares is given the table of that schema.        *)
LEMMA TableChange ==
  ASSUME BaseInv, TableInv, NEW c \in Clients, NEW h, Handled(c, h)
  PROVE  /\ \A d \in Domains : Grows(work[d].tables, work'[d].tables) /\ KnownOK(d)'
         /\ SetsSchema(c, h) =>
              LET line == HeaderLine(Message(c)) IN
              /\ handler[c].database \in Domains
              /\ line[2] \in DOMAIN handler'[c].tables
              /\ handler'[c].tables[line[2]] # NoTable
              /\ Located(work'[handler[c].database].tables, [name |-> line[3], fields |-> line[4]],
                         handler'[c].tables[line[2]][2])
<1>0. /\ TypeOK /\ RefInv /\ Live(c) /\ handler[c].mbuf # << >> /\ Prepared(c, h)
      /\ \A d \in Domains : KnownOK(d)
      /\ h.database = handler[c].database
  BY PreparedShape DEF BaseInv, TableInv, Handled
<1>1. CASE ~SetsSchema(c, h)
  <2>1. \A d \in Domains : /\ Grows(work[d].tables, work'[d].tables)
                           /\ \/ db'[d].first_table = db[d].first_table
                              \/ db'[d].first_table = LoadTables(work'[d])
    BY <1>1 DEF Handled, Changed, KeepsTables
  <2>2. \A d \in Domains : Grows(LoadTables(work'[d]), work'[d].tables)
    BY DEF LoadTables, Grows
  <2> QED
    BY <1>0, <1>1, <2>1, <2>2 DEF KnownOK, Grows
<1>2. CASE SetsSchema(c, h)
  <2> DEFINE line == HeaderLine(Message(c))
             d == h.database
             schema == [name |-> line[3], fields |-> line[4]]
             t(k) == Renamed(line[3], k)
  <2>1. /\ d \in Domains /\ db[d].ref_count > 0 /\ line[2] \in Nat
        /\ \E k \in Attempts(d, line[3], line[4]) :
             /\ \A l \in Attempts(d, line[3], line[4]) : k <= l
             /\ DOMAIN handler'[c].tables = DOMAIN h.tables \cup 0..line[2]
             /\ handler'[c].tables[line[2]] = <<d, t(k)>>
             /\ \/ t(k) \in DOMAIN db[d].first_table /\ UNCHANGED storage
                \/ /\ t(k) \notin DOMAIN db[d].first_table
                   /\ t(k) \notin DOMAIN work[d].tables
                   /\ db' = [db EXCEPT ![d].first_table = Put(@, t(k), line[4])]
                   /\ work' = [work EXCEPT ![d] = WithTable(@, t(k), line[4])]
                   /\ UNCHANGED stored
    BY <1>0, <1>2, SchemaOutcome, Zenon
  <2>2. PICK k \in Attempts(d, line[3], line[4]) :
             /\ \A l \in Attempts(d, line[3], line[4]) : k <= l
             /\ DOMAIN handler'[c].tables = DOMAIN h.tables \cup 0..line[2]
             /\ handler'[c].tables[line[2]] = <<d, t(k)>>
             /\ \/ t(k) \in DOMAIN db[d].first_table /\ UNCHANGED storage
                \/ /\ t(k) \notin DOMAIN db[d].first_table
                   /\ t(k) \notin DOMAIN work[d].tables
                   /\ db' = [db EXCEPT ![d].first_table = Put(@, t(k), line[4])]
                   /\ work' = [work EXCEPT ![d] = WithTable(@, t(k), line[4])]
                   /\ UNCHANGED stored
    BY <2>1, Zenon
  <2>3. /\ k \in 1..(MAX_TABLE_RENAME - 1) /\ MAX_TABLE_RENAME \in Nat
        /\ t(k) \in DOMAIN db[d].first_table => db[d].first_table[t(k)] = line[4]
        /\ \A l \in 1..(k - 1) : t(l) \in DOMAIN db[d].first_table /\ db[d].first_table[t(l)] # line[4]
    <3>1. /\ k \in 1..(MAX_TABLE_RENAME - 1) /\ Fits(db[d].first_table, t(k), line[4])
          /\ MAX_TABLE_RENAME \in Nat
      BY ServerAssumption DEF Attempts
    <3>2. ASSUME NEW l \in 1..(k - 1)
          PROVE  ~Fits(db[d].first_table, t(l), line[4])
      <4>1. l \in 1..(MAX_TABLE_RENAME - 1) /\ ~(k <= l)
        BY <3>1, <3>2
      <4> QED
        BY <2>2, <4>1 DEF Attempts
    <3> QED
      BY <3>1, <3>2 DEF Fits
  <2> HIDE DEF d, line, t
  <2>4. /\ Grows(db'[d].first_table, work'[d].tables)
        /\ Grows(work[d].tables, work'[d].tables)
        /\ t(k) \in DOMAIN work'[d].tables /\ work'[d].tables[t(k)] = line[4]
        /\ \A e \in Domains : e # d => work'[e] = work[e] /\ db'[e] = db[e]
    <3>0. /\ DOMAIN Closed = {"ref_count", "start_time", "first_table", "sender_cnt", "overdue"}
          /\ DOMAIN Empty = {"tables", "metadata", "senders", "start_time", "rows"}
          /\ DOMAIN db = Domains /\ DOMAIN work = Domains
          /\ \A e \in Domains : DOMAIN db[e] = DOMAIN Closed /\ DOMAIN work[e] = DOMAIN Empty
          /\ Grows(db[d].first_table, work[d].tables)
      BY <1>0, <2>1 DEF Closed, Empty, TypeOK, KnownOK
    <3>1. CASE t(k) \in DOMAIN db[d].first_table /\ UNCHANGED storage
      BY <2>3, <3>0, <3>1 DEF storage, Grows
    <3>2. CASE /\ t(k) \notin DOMAIN db[d].first_table
               /\ t(k) \notin DOMAIN work[d].tables
               /\ db' = [db EXCEPT ![d].first_table = Put(@, t(k), line[4])]
               /\ work' = [work EXCEPT ![d] = WithTable(@, t(k), line[4])]
      <4>1. /\ db'[d].first_table = Put(db[d].first_table, t(k), line[4])
            /\ work'[d] = WithTable(work[d], t(k), line[4])
            /\ \A e \in Domains : e # d => work'[e] = work[e] /\ db'[e] = db[e]
        BY <2>1, <3>0, <3>2
      <4>2. work'[d].tables = Put(work[d].tables, t(k), line[4])
        BY <2>1, <3>0, <4>1 DEF WithTable
      <4> QED
        BY <3>0, <3>2, <4>1, <4>2 DEF Grows, Put
    <3> QED
      BY <2>2, <3>1, <3>2
  <2>5. \A e \in Domains : Grows(work[e].tables, work'[e].tables) /\ KnownOK(e)'
    <3>1. \A e \in Domains : Grows(work[e].tables, work[e].tables)
      BY DEF Grows
    <3> QED
      BY <1>0, <2>4, <3>1 DEF KnownOK
  <2>6. Located(work'[d].tables, schema, t(k))
    <3>1. \A l \in 1..(k - 1) : t(l) \in DOMAIN work'[d].tables /\ work'[d].tables[t(l)] # line[4]
      <4>1. KnownOK(d)
        BY <1>0, <2>1
      <4> QED
        BY <2>3, <2>4, <4>1 DEF KnownOK, Grows
    <3> QED
      BY <2>3, <2>4, <3>1 DEF Located, t
  <2>7. <<d, t(k)>> # NoTable
    <3>1. line[1] = "schema" /\ Message(c) \in Messages
      BY <1>0, <1>2, NextMessage DEF Live, SetsSchema, line
    <3>2. t(k) \in TableNames
      BY <2>3, <3>1 DEF TableNames, t, line
    <3> QED
      BY <2>1, <3>2, TableAssumption
  <2>8. /\ line[2] \in DOMAIN handler'[c].tables
        /\ handler'[c].tables[line[2]] # NoTable /\ handler'[c].tables[line[2]][2] = t(k)
    BY <2>1, <2>2, <2>7
  <2> QED
    BY <1>0, <2>1, <2>5, <2>6, <2>8 DEF d, line
<1> QED
  BY <1>1, <1>2

(* The streams of the client whose message is processed.                   *)
LEMMA StreamsAfter ==
  ASSUME BaseInv, TableInv, NEW c \in Clients, NEW h, Handled(c, h)
  PROVE  StreamsOK(c)'
<1> DEFINE s == session[c]
           P == Position(c)
           line == HeaderLine(Message(c))
<1> SUFFICES ASSUME s \in Proper, NEW q \in 1..(Done(c) + 1),
                    HeaderLine(Script[s][q])[1] = "schema"
             PROVE  StreamOK(c, HeaderLine(Script[s][q])[2])'
  <2>1. Done(c)' = Done(c) + 1 /\ session'[c] = s
    BY DEF Handled
  <2> QED
    BY <2>1 DEF StreamsOK
<1> DEFINE i == HeaderLine(Script[s][q])[2]
           d == handler[c].database
<1>0. /\ TypeOK /\ RefInv /\ HeaderInv /\ DatabaseInv /\ Live(c) /\ handler[c].mbuf # << >>
      /\ Prepared(c, h) /\ session'[c] = s /\ Done(c)' = Done(c) + 1
      /\ Position(c)' = P + 1 /\ Done(c) \in Nat /\ P = Done(c) + 1 /\ Message(c) = Script[s][P]
      /\ StreamsOK(c) /\ handler[c].database \in Domains \cup {NoDatabase}
      /\ h.database = handler[c].database
  BY HasMore, HandlerTypes, PreparedShape DEF BaseInv, TableInv, Handled, HandlerShape, Position
<1>1. \A e \in Domains : Grows(work[e].tables, work'[e].tables)
  BY TableChange
<1>2. /\ line[1] = "schema" <=> SetsSchema(c, h)
      /\ line[1] = "schema" /\ line[2] = i => Schema(s, P + 1, i) = [name |-> line[3], fields |-> line[4]]
      /\ ~(line[1] = "schema" /\ line[2] = i) => Schema(s, P + 1, i) = Schema(s, P, i)
  BY <1>0, SchemaIsSet, NextDeclaration
<1>3. handler'[c].database = d
  <2>1. ASSUME SetsDomain(c, h)
        PROVE  FALSE
    <3>1. d = NoDatabase /\ DOMAIN handler[c].tables = {}
      <4>1. Message(c)[1] = "domain" /\ ~Has(s, "domain", Done(c))
        BY <1>0, <2>1, KeyOutcome, ProperMessage DEF Keys
      <4> QED
        BY <1>0, <4>1 DEF DatabaseInv
    <3>2. q \in 1..Done(c) \/ q = P
      BY <1>0
    <3>3. q # P
      BY <1>0, <2>1 DEF SetsDomain, HeaderLine
    <3> QED
      BY <1>0, <3>1, <3>2, <3>3 DEF StreamsOK, StreamOK
  <2> QED
    BY <2>1 DEF Handled, Changed, KeepsDatabase
<1>4. CASE line[1] = "schema" /\ line[2] = i
  <2>1. /\ d \in Domains /\ i \in DOMAIN handler'[c].tables
        /\ handler'[c].tables[i] # NoTable
        /\ Located(work'[d].tables, [name |-> line[3], fields |-> line[4]], handler'[c].tables[i][2])
    BY <1>2, <1>4, TableChange
  <2>2. Schema(s, P + 1, i) = [name |-> line[3], fields |-> line[4]]
    BY <1>2, <1>4
  <2> HIDE DEF s, P, line, i, d
  <2>3. Located(work'[d].tables, Schema(s, P + 1, i), handler'[c].tables[i][2])
    BY <2>1, <2>2
  <2> QED
    BY <1>0, <1>3, <2>1, <2>3 DEF StreamOK, i, s
<1>5. CASE ~(line[1] = "schema" /\ line[2] = i)
  <2>1. StreamOK(c, i)
    <3>1. q \in 1..Done(c)
      BY <1>0, <1>5
    <3> QED
      BY <1>0, <3>1 DEF StreamsOK
  <2>2. d \in Domains
    <3>1. RefsOK(handler[c], db) /\ handler[c].state # "C_PROTOCOL_ERROR"
      BY <1>0 DEF RefInv, Live
    <3> QED
      BY <1>0, <2>1, <3>1 DEF RefsOK, StreamOK
  <2>3. i \in DOMAIN handler'[c].tables /\ handler'[c].tables[i] = handler[c].tables[i]
    <3>1. i \in DOMAIN h.tables /\ h.tables[i] = handler[c].tables[i]
      <4>1. i \in DOMAIN handler[c].tables /\ handler[c].tables[i] # NoTable
        BY <2>1 DEF StreamOK
      <4>2. /\ DOMAIN h.tables = DOMAIN handler[c].tables
            /\ \A j \in DOMAIN h.tables :
                 h.tables[j] = handler[c].tables[j] \/ handler[c].tables[j] = NoTable
        BY <1>0, PreparedTables
      <4> HIDE DEF i
      <4> QED
        BY <4>1, <4>2
    <3>2. CASE ~SetsSchema(c, h)
      BY <3>1, <3>2 DEF Handled, Changed, KeepsTables
    <3>3. CASE SetsSchema(c, h)
      <4>1. i # line[2]
        BY <1>2, <1>5, <3>3
      <4>2. /\ DOMAIN handler'[c].tables = DOMAIN h.tables \cup 0..line[2]
            /\ \A j \in DOMAIN handler'[c].tables \ {line[2]} :
                 handler'[c].tables[j] = IF j \in DOMAIN h.tables THEN h.tables[j] ELSE NoTable
        BY <1>0, <3>3, SchemaOutcome, Zenon
      <4> QED
        BY <3>1, <4>1, <4>2
    <3> QED
      BY <3>2, <3>3
  <2>4. Located(work'[d].tables, Schema(s, P, i), handler[c].tables[i][2])
    BY <1>1, <2>1, <2>2, LocatedGrows DEF StreamOK
  <2>5. Schema(s, P + 1, i) = Schema(s, P, i)
    BY <1>2, <1>5
  <2> HIDE DEF s, P, line, i, d
  <2>6. Located(work'[d].tables, Schema(s, P + 1, i), handler'[c].tables[i][2])
    BY <2>3, <2>4, <2>5
  <2> QED
    BY <1>0, <1>3, <2>1, <2>3, <2>6 DEF StreamOK, i, s
<1> QED
  BY <1>4, <1>5

(* A measurement that is accepted goes to the table of its stream.         *)
LEMMA RowsAfter ==
  ASSUME BaseInv, TableInv, NEW c \in Clients, NEW h, Handled(c, h), NEW d \in Domains
  PROVE  RowsOK(work'[d])
<1> DEFINE s == session[c]
           P == Position(c)
<1>0. /\ TypeOK /\ HeaderInv /\ DatabaseInv /\ Live(c) /\ handler[c].mbuf # << >>
      /\ StreamsOK(c) /\ RowsOK(work[d])
      /\ Done(c) \in Nat /\ P = Done(c) + 1 /\ Message(c) = Script[s][P]
  BY HasMore DEF BaseInv, TableInv, Handled
<1>1. Grows(work[d].tables, work'[d].tables)
  BY TableChange
<1> SUFFICES ASSUME NEW r \in Measurements(work'[d].rows)
             PROVE  Located(work'[d].tables, SchemaOf(r), r.table)
  BY DEF RowsOK
<1>2. CASE r \in work[d].rows
  <2>1. r \in Measurements(work[d].rows)
    BY <1>2 DEF Measurements, ProperRows
  <2> QED
    BY <1>0, <1>1, <2>1, LocatedGrows DEF RowsOK
<1>3. CASE r \notin work[d].rows
  <2>1. InsertsRow(c, h) \/ InsertsMeta(c, h)
    BY <1>3 DEF Handled, Changed, KeepsRows, Measurements, ProperRows
  <2>2. PICK table :
          /\ InsertsRow(c, h) => table = handler[c].tables[Message(c)[2]]
          /\ InsertsMeta(c, h) => Message(c)[1] = "meta"
          /\ session[c] \in Proper => table[1] = handler[c].database
          /\ work'[d].rows = work[d].rows \/ (d = table[1] /\ work'[d].rows = work[d].rows \cup {RowOf(c, table)})
    BY <2>1, InsertOutcome
  <2>3. d = table[1] /\ r = RowOf(c, table)
    BY <1>3, <2>2 DEF Measurements, ProperRows
  <2>4. r.session = s /\ r.at = P /\ r.table = table[2]
    BY <2>3 DEF RowOf
  <2>5. /\ s \in Proper /\ s \in DOMAIN Script /\ P \in Samples[s]
    BY <2>4 DEF Measurements, ProperRows, Proper
  <2> DEFINE i == Message(c)[2]
  <2>6. /\ Message(c)[1] = "row" /\ Declarations(s, P, i) # {}
        /\ SchemaOf(r) = Schema(s, P, i)
    BY <1>0, <2>4, <2>5 DEF Samples, Positions, SampleSchema, SchemaOf
  <2>7. table = handler[c].tables[i] /\ table[1] = handler[c].database
    BY <2>1, <2>2, <2>5, <2>6
  <2>8. StreamOK(c, i)
    <3>1. PICK q \in 1..(P - 1) : LET line == HeaderLine(Script[s][q]) IN
                                  line[1] = "schema" /\ line[2] = i
      BY <2>6 DEF Declarations
    <3> QED
      BY <1>0, <2>5, <3>1 DEF StreamsOK
  <2>9. Located(work[d].tables, Schema(s, P, i), r.table)
    BY <2>3, <2>4, <2>7, <2>8 DEF StreamOK
  <2> QED
    BY <1>1, <2>6, <2>9, LocatedGrows
<1> QED
  BY <1>2, <1>3

(* Every step keeps the streams of a handler, and the rows stored, at the  *)
(* table of their schema.                                                  *)
LEMMA TableStep ==
  ASSUME BaseInv, TableInv, Step
  PROVE  TableInv'
<1>0. /\ TypeOK /\ RefInv /\ ClosedInv
      /\ \A d \in Domains : KnownOK(d) /\ RowsOK(work[d]) /\ RowsOK(stored[d])
      /\ \A x \in Clients : StreamsOK(x)
  BY DEF BaseInv, TableInv
<1>1. CASE Vanish
  <2>1. \A x \in Clients : ~Live(x)'
    BY <1>1 DEF Vanish, Live, NoHandler
  <2>2. \A d \in Domains : work'[d] = stored[d] /\ stored'[d] = stored[d] /\ db'[d].first_table = << >>
    BY <1>1 DEF Vanish, Closed
  <2> QED
    BY <1>0, <2>1, <2>2 DEF TableInv, KnownOK, StreamsOK, Grows
<1>2. ASSUME NEW x \in Clients, Same(x), \A d \in Domains : Grows(work[d].tables, work'[d].tables)
      PROVE  StreamsOK(x)'
  <2> SUFFICES ASSUME Live(x), session[x] \in Proper, NEW i, StreamOK(x, i)
               PROVE  StreamOK(x, i)'
    BY <1>0, <1>2, SameState DEF Same, StreamsOK
  <2>1. handler[x].database \in Domains
    <3>1. /\ RefsOK(handler[x], db) /\ handler[x].state # "C_PROTOCOL_ERROR"
          /\ handler[x].database \in Domains \cup {NoDatabase}
      BY <1>0, HandlerTypes DEF RefInv, Live, HandlerShape
    <3> QED
      BY <3>1 DEF RefsOK, StreamOK
  <2>2. /\ handler'[x].tables = handler[x].tables /\ handler'[x].database = handler[x].database
        /\ session'[x] = session[x] /\ Position(x)' = Position(x)
    BY <1>2 DEF Same, Position
  <2> QED
    BY <1>2, <2>1, <2>2, LocatedGrows DEF StreamOK
<1>3. CASE Rests
  <2>1. \A d \in Domains : KnownOK(d)'
    <3>1. Closed.first_table = << >>
      BY DEF Closed
    <3> QED
      BY <1>0, <1>3, <3>1 DEF Rests, KnownOK, Grows
  <2>2. \A d \in Domains : Grows(work[d].tables, work'[d].tables)
    BY <1>3 DEF Rests, Grows
  <2>3. ASSUME NEW x \in Clients, Done(x)' = 0
        PROVE  StreamsOK(x)'
    BY <2>3 DEF StreamsOK
  <2>4. \A d \in Domains : RowsOK(work'[d]) /\ RowsOK(stored'[d])
    BY <1>0, <1>3 DEF Rests
  <2>5. \A x \in Clients : StreamsOK(x)'
    BY <1>2, <1>3, <2>2, <2>3 DEF Rests, StreamsOK
  <2> QED
    BY <2>1, <2>4, <2>5 DEF TableInv
<1>4. ASSUME NEW c \in Clients, NEW h, Handled(c, h)
      PROVE  TableInv'
  <2>1. \A d \in Domains : RowsOK(work'[d]) /\ RowsOK(stored'[d])
    <3>1. \A d \in Domains : stored'[d] \in {stored[d], work[d]}
      BY <1>4 DEF Handled, Changed, Commits
    <3> QED
      BY <1>0, <1>4, <3>1, RowsAfter
  <2>2. \A x \in Clients : StreamsOK(x)'
    BY <1>2, <1>4, StreamsAfter, OthersSame, TableChange
  <2>3. \A d \in Domains : KnownOK(d)'
    BY <1>4, TableChange
  <2> QED
    BY <2>1, <2>2, <2>3 DEF TableInv
<1> QED
  BY <1>0, <1>1, <1>3, <1>4, StepForms

(* The streams and rows are at the table of their schema in every state.   *)
LEMMA TableCorrect == Spec => [](BaseInv /\ TableInv)
<1>1. Init => BaseInv /\ TableInv
  BY BaseInit, TableInit
<1>2. (BaseInv /\ TableInv) /\ [Next]_vars => (BaseInv /\ TableInv)'
  BY BaseStep, TableStep
<1> QED
  BY <1>1, <1>2, PTL DEF Spec

(* Whatever names clients choose, a measurement is in a table that has the *)
(* fields of its schema and a name made from its name, and all those of    *)
(* one schema are in the same: database_find_or_create_table, even if the  *)
(* backend fails.                                                          *)
THEOREM MeasurementsFindTheirTable == Spec => []RowsInTheirTable
<1>1. TableInv => RowsInTheirTable
  <2> SUFFICES ASSUME TableInv, NEW d \in Domains, NEW r \in Measurements(work[d].rows)
               PROVE  /\ r.table \in DOMAIN work[d].tables
                      /\ work[d].tables[r.table] = SchemaOf(r).fields
                      /\ \E i \in 1..(MAX_TABLE_RENAME - 1) : r.table = Renamed(SchemaOf(r).name, i)
                      /\ \A q \in Measurements(work[d].rows) :
                           SchemaOf(q) = SchemaOf(r) => q.table = r.table
    BY DEF RowsInTheirTable
  <2>1. \A q \in Measurements(work[d].rows) : Located(work[d].tables, SchemaOf(q), q.table)
    BY DEF TableInv, RowsOK
  <2>2. \A q \in Measurements(work[d].rows) : SchemaOf(q) = SchemaOf(r) => q.table = r.table
    BY <2>1, LocatedOnce
  <2> QED
    BY <2>1, <2>2 DEF Located
<1> QED
  BY <1>1, TableCorrect, PTL

-----------------------------------------------------------------------------
(* The order of the measurements, if the backend does what it is asked to. *)

(* The measurements that precede a row on its connection are there.        *)
PrefixOK(C) ==
  \A r \in ProperRows(C.rows) : \A p \in Samples[r.session] :
    p < r.at => \E q \in C.rows : q.client = r.client /\ q.at = p

(* What has been processed of a connection has been inserted.              *)
InsertedOK(c) ==
  Live(c) /\ session[c] \in Proper =>
    \A p \in Samples[session[c]] : p <= Done(c) =>
      LET d == handler[c].database IN
      d \in Domains /\ \E q \in work[d].rows : q.client = <<c, connections[c]>> /\ q.at = p

PrefixInv ==
  /\ \A d \in Domains : PrefixOK(work[d]) /\ PrefixOK(stored[d])
  /\ \A c \in Clients : InsertedOK(c)

(* The measurements of a proper session are its rows.                      *)
LEMMA SamplePositions ==
  ASSUME NEW s \in Proper
  PROVE  s \in DOMAIN Script /\ \A p \in Samples[s] : p \in Nat \ {0} /\ Script[s][p][1] = "row"
<1>1. s \in DOMAIN Script /\ DOMAIN Script[s] = 1..Len(Script[s]) /\ Len(Script[s]) \in Nat
  BY ProperSession
<1> QED
  BY <1>1 DEF Samples, Positions

(* No row is stored at first.                                              *)
LEMMA PrefixInit ==
  ASSUME Init
  PROVE  PrefixInv
<1>1. /\ \A d \in Domains : work[d] = Empty /\ stored[d] = Empty
      /\ \A c \in Clients : ~Live(c)
  BY DEF Init, Live, NoHandler
<1>2. PrefixOK(Empty)
  BY DEF Empty, PrefixOK, ProperRows
<1> QED
  BY <1>1, <1>2 DEF PrefixInv, InsertedOK

(* A measurement that agrees with its schema is inserted.                  *)
LEMMA SampleIsInserted ==
  ASSUME BaseInv, TableInv, NEW c \in Clients, NEW h, Handled(c, h),
         session[c] \in Proper, Position(c) \in Samples[session[c]]
  PROVE  InsertsRow(c, h)
<1> DEFINE s == session[c]
           P == Position(c)
           i == Message(c)[2]
           table == handler[c].tables[i]
<1>0. /\ TypeOK /\ RefInv /\ HeaderInv /\ DatabaseInv /\ Live(c) /\ handler[c].mbuf # << >>
      /\ StreamsOK(c) /\ Outcome(c, h) /\ ~Fails(c, h)
      /\ Done(c) \in Nat /\ P = Done(c) + 1 /\ Message(c) = Script[s][P]
      /\ s \in DOMAIN Script /\ \A d \in Domains : KnownOK(d)
  BY HasMore, HandledSucceeds, SamplePositions DEF BaseInv, TableInv, Handled
<1>1. /\ Message(c)[1] = "row" /\ Declarations(s, P, i) # {}
      /\ Len(Schema(s, P, i).fields) = Message(c)[3]
  BY <1>0 DEF Samples, Positions
<1>2. StreamOK(c, i)
  <2>1. PICK q \in 1..(P - 1) : LET line == HeaderLine(Script[s][q]) IN
                                line[1] = "schema" /\ line[2] = i
    BY <1>1 DEF Declarations
  <2> QED
    BY <1>0, <2>1 DEF StreamsOK
<1>3. /\ i \in DOMAIN handler[c].tables /\ table # NoTable
      /\ Located(work[handler[c].database].tables, Schema(s, P, i), table[2])
  BY <1>2 DEF StreamOK
<1>4. table[1] = handler[c].database /\ table[1] \in Domains /\ table[2] \in DOMAIN db[table[1]].first_table
  BY <1>0, <1>3 DEF DatabaseInv, RefInv, RefsOK
<1>5. db[table[1]].first_table[table[2]] = Schema(s, P, i).fields
  <2>1. work[table[1]].tables[table[2]] = Schema(s, P, i).fields
    BY <1>3, <1>4 DEF Located
  <2>2. Grows(db[table[1]].first_table, work[table[1]].tables)
    BY <1>0, <1>4 DEF KnownOK
  <2> QED
    BY <1>4, <2>1, <2>2 DEF Grows
<1>6. Accepted(c, Message(c))
  BY <1>1, <1>3, <1>5 DEF Accepted
<1>7. ~InHeader(c)
  <2>1. ASSUME InHeader(c)
        PROVE  FALSE
    <3>1. HeaderLine(Message(c)) = Message(c)
      BY <1>1 DEF HeaderLine
    <3> QED
      BY <1>0, <1>1, <2>1, <3>1
      DEF Outcome, Passes, SetsContent, EndsHeader, SetsDomain, SetsStartTime, SetsSenderId,
          SetsSchema, InsertsRow, InsertsMeta
  <2> QED
    BY <2>1
<1>8. HeaderLine(Message(c)) = Message(c)
  BY <1>1 DEF HeaderLine
<1> QED
  BY <1>0, <1>1, <1>6, <1>7, <1>8
  DEF Outcome, Passes, SetsContent, EndsHeader, SetsDomain, SetsStartTime, SetsSenderId,
      SetsSchema, InsertsMeta

(* Every step keeps the stored rows of a connection a beginning of its     *)
(* measurements.                                                           *)
LEMMA PrefixStep ==
  ASSUME ~BackendMayFail, BaseInv, TableInv, PrefixInv, Step
  PROVE  PrefixInv'
<1>0. /\ TypeOK /\ RefInv /\ ClosedInv /\ HeaderInv /\ DatabaseInv
      /\ \A d \in Domains : PrefixOK(work[d]) /\ PrefixOK(stored[d])
      /\ \A x \in Clients : InsertedOK(x)
  BY DEF BaseInv, PrefixInv
<1>1. CASE Vanish
  <2>1. \A x \in Clients : ~Live(x)'
    BY <1>1 DEF Vanish, Live, NoHandler
  <2>2. \A d \in Domains : work'[d] = stored[d] /\ stored'[d] = stored[d]
    BY <1>1 DEF Vanish
  <2> QED
    BY <1>0, <2>1, <2>2 DEF PrefixInv, InsertedOK
<1>2. ASSUME NEW x \in Clients, Live(x), session[x] \in Proper,
             NEW p \in Samples[session[x]], p <= Done(x)
      PROVE  ~InHeader(x)
  <2>1. /\ session[x] \in DOMAIN Script /\ p \in Nat \ {0} /\ Script[session[x]][p][1] = "row"
    BY <1>2, SamplePositions
  <2>2. Done(x) \in Int
    BY <1>0, HandlerTypes, LenProperties DEF HandlerShape, Done
  <2> QED
    BY <1>0, <1>2, <2>1, <2>2 DEF HeaderInv
<1>3. ASSUME NEW x \in Clients, Same(x), \A d \in Domains : work[d].rows \subseteq work'[d].rows
      PROVE  InsertedOK(x)'
  <2> SUFFICES ASSUME Live(x), session[x] \in Proper,
                      NEW p \in Samples[session[x]], p <= Done(x)
               PROVE  LET d == handler[x].database IN
                      d \in Domains /\ \E q \in work'[d].rows : q.client = <<x, connections[x]>> /\ q.at = p
    BY <1>3, SameState DEF Same, InsertedOK
  <2> QED
    BY <1>0, <1>3 DEF InsertedOK
<1>4. CASE Rests
  <2>1. ASSUME NEW x \in Clients, Done(x)' = 0, session'[x] \in DOMAIN Script
        PROVE  InsertedOK(x)'
    BY <2>1, SamplePositions DEF InsertedOK
  <2>2. \A x \in Clients : InsertedOK(x)'
    BY <1>3, <1>4, <2>1 DEF Rests, InsertedOK
  <2> QED
    BY <1>0, <1>4, <2>2 DEF Rests, PrefixInv
<1>5. ASSUME NEW c \in Clients, NEW h, Handled(c, h)
      PROVE  PrefixInv'
  <2> DEFINE s == session[c]
             P == Position(c)
             d == handler[c].database
  <2>0. /\ Live(c) /\ handler[c].mbuf # << >> /\ session'[c] = s /\ Done(c)' = Done(c) + 1
        /\ connections'[c] = connections[c] /\ Done(c) \in Nat /\ P = Done(c) + 1
        /\ \A e \in Domains : stored'[e] \in {stored[e], work[e]}
    BY <1>0, <1>5, HasMore DEF Handled, Changed, Commits
  <2>1. \A e \in Domains : work[e].rows \subseteq work'[e].rows
    <3>1. CASE InsertsRow(c, h) \/ InsertsMeta(c, h)
      BY <1>5, <3>1, InsertOutcome
    <3> QED
      BY <1>5, <3>1 DEF Handled, Changed, KeepsRows
  <2>2. \A e \in Domains : PrefixOK(work'[e])
    <3> SUFFICES ASSUME NEW e \in Domains, NEW r \in ProperRows(work'[e].rows),
                        NEW p \in Samples[r.session], p < r.at
                 PROVE  \E q \in work'[e].rows : q.client = r.client /\ q.at = p
      BY DEF PrefixOK
    <3>1. CASE r \in work[e].rows
      BY <1>0, <2>1, <3>1 DEF PrefixOK, ProperRows
    <3>2. CASE r \notin work[e].rows
      <4>1. InsertsRow(c, h) \/ InsertsMeta(c, h)
        BY <1>5, <3>2 DEF Handled, Changed, KeepsRows, ProperRows
      <4>2. PICK table :
              /\ s \in Proper => table[1] = d
              /\ work'[e].rows = work[e].rows \/ (e = table[1] /\ work'[e].rows = work[e].rows \cup {RowOf(c, table)})
        BY <1>5, <4>1, InsertOutcome
      <4>3. e = table[1] /\ r = RowOf(c, table)
        BY <3>2, <4>2 DEF ProperRows
      <4>4. r.session = s /\ r.at = P /\ r.client = <<c, connections[c]>>
        BY <4>3 DEF RowOf
      <4>5. s \in Proper /\ p \in Nat /\ p <= Done(c)
        BY <2>0, <4>4, SamplePositions DEF ProperRows
      <4>6. \E q \in work[d].rows : q.client = <<c, connections[c]>> /\ q.at = p
        BY <1>0, <2>0, <4>4, <4>5 DEF InsertedOK
      <4> QED
        BY <2>1, <4>2, <4>3, <4>4, <4>5, <4>6
    <3> QED
      BY <3>1, <3>2
  <2>3. InsertedOK(c)'
    <3> SUFFICES ASSUME s \in Proper, NEW p \in Samples[s], p <= Done(c) + 1
                 PROVE  /\ handler'[c].database \in Domains
                        /\ \E q \in work'[handler'[c].database].rows :
                             q.client = <<c, connections[c]>> /\ q.at = p
      BY <2>0 DEF InsertedOK
    <3>1. ~SetsDomain(c, h) => handler'[c].database = d
      BY <1>5 DEF Handled, Changed, KeepsDatabase
    <3>2. p \in Nat \ {0}
      BY SamplePositions
    <3>3. CASE p <= Done(c)
      <4>1. ~InHeader(c)
        BY <1>2, <2>0, <3>3
      <4> QED
        BY <1>0, <2>0, <2>1, <3>1, <3>3, <4>1 DEF InsertedOK, SetsDomain
    <3>4. CASE p = P
      <4>1. InsertsRow(c, h)
        BY <1>5, <3>4, SampleIsInserted
      <4>2. PICK table : /\ table[1] = d /\ table[1] \in Domains
                         /\ RowOf(c, table) \in work'[table[1]].rows
        BY <1>5, <4>1, InsertOutcome
      <4>3. RowOf(c, table).client = <<c, connections[c]>> /\ RowOf(c, table).at = P
        BY DEF RowOf
      <4> QED
        BY <3>1, <3>4, <4>1, <4>2, <4>3 DEF InsertsRow, SetsDomain
    <3> QED
      BY <2>0, <3>2, <3>3, <3>4
  <2>4. \A x \in Clients : InsertedOK(x)'
    BY <1>3, <1>5, <2>1, <2>3, OthersSame
  <2>5. \A e \in Domains : PrefixOK(stored'[e])
    BY <1>0, <2>0
  <2> QED
    BY <2>2, <2>4, <2>5 DEF PrefixInv
<1> QED
  BY <1>0, <1>1, <1>4, <1>5, StepForms

(* If the backend does what it is asked to, what is committed of a         *)
(* connection is an initial part of what it sent: the transactions of      *)
(* sq3_insert, which are ended by the clock, by the last client or not at  *)
(* all, lose no measurement between two others.                            *)
THEOREM CrashesLoseTheLast ==
  ASSUME ~BackendMayFail
  PROVE  Spec => []CommittedIsPrefix
<1>1. Init => BaseInv /\ TableInv /\ PrefixInv
  BY BaseInit, TableInit, PrefixInit
<1>2. (BaseInv /\ TableInv /\ PrefixInv) /\ [Next]_vars => (BaseInv /\ TableInv /\ PrefixInv)'
  BY BaseStep, TableStep, PrefixStep
<1>3. PrefixInv => CommittedIsPrefix
  BY DEF PrefixInv, PrefixOK, CommittedIsPrefix
<1> QED
  BY <1>1, <1>2, <1>3, PTL DEF Spec
-----------------------------------------------------------------------------
(* What a client had sent when it is taken leave of.                       *)

(* No proper client was refused.                                           *)
NobodyRefused == \A c \in Clients : session[c] \in Proper => handler[c].state # "C_PROTOCOL_ERROR"

(* Between callbacks nothing is left in the buffer, and unless there was a *)
(* reset what was not received is in the socket.                           *)
SentOK(c) ==
  Live(c) /\ session[c] \in Proper =>
    /\ handler[c].mbuf # << >> => current = c /\ phase \in {"read", "last"}
    /\ link[c] \in {"open", "closed"} =>
         handler[c].received + Len(sock[c]) = Len(Script[session[c]])

SentInv == \A c \in Clients : SentOK(c)

(* Nothing is sent at first.                                               *)
LEMMA SentInit ==
  ASSUME Init
  PROVE  SentInv
BY DEF Init, SentInv, SentOK, Live, NoHandler

(* A client that a step leaves alone.                                      *)
Untouched(c) ==
  /\ handler'[c].state = handler[c].state /\ handler'[c].mbuf = handler[c].mbuf
  /\ handler'[c].received = handler[c].received
  /\ session'[c] = session[c] /\ sock'[c] = sock[c]
  /\ link'[c] \in {"open", "closed"} => link[c] \in {"open", "closed"}

(* What was sent stays so, unless the callback of a client ends with       *)
(* messages in its buffer.                                                 *)
LEMMA SentStays ==
  ASSUME NEW c, SentOK(c), Untouched(c),
         \/ current # c \/ phase \notin {"read", "last"}
         \/ current' = c /\ phase' \in {"read", "last"}
         \/ handler[c].mbuf = << >>
  PROVE  SentOK(c)'
BY DEF SentOK, Untouched, Live

(* A line that a callback skips is not one of a proper session.            *)
LEMMA ProperIsNotSkipped ==
  ASSUME TypeOK, HeaderInv, NEW c \in Clients, SkipGarbage(c)
  PROVE  session[c] \notin Proper
<1> SUFFICES ASSUME session[c] \in Proper PROVE FALSE
  OBVIOUS
<1> DEFINE s == session[c]
<1>1. Live(c) /\ ~InHeader(c) /\ handler[c].mbuf # << >> /\ Message(c)[1] \notin {"row", "meta"}
  BY DEF SkipGarbage, Live, InHeader
<1>2. /\ Position(c) \in DOMAIN Script[s] /\ Position(c) = Done(c) + 1 /\ Done(c) \in Nat
      /\ Message(c) = Script[s][Position(c)]
  BY <1>1, HasMore
<1>3. PICK e \in Positions(s, "end") : e <= Done(c)
  BY <1>1 DEF HeaderInv, Has
<1>4. PICK f \in Positions(s, "end") :
        /\ \A p \in 1..(f - 1) : Script[s][p][1] \in Keys \cup {"content", "key", "schema"}
        /\ \A p \in DOMAIN Script[s] : p > f => Script[s][p][1] \in {"row", "meta"}
  BY ProperSession
<1>5. /\ e \in Nat \ {0} /\ f \in Nat \ {0} /\ Script[s][e][1] = "end"
  BY ProperSession DEF Positions
<1>6. f <= e
  <2>1. ASSUME e < f PROVE FALSE
    BY <1>4, <1>5, <2>1 DEF Keys
  <2> QED BY <1>5, <2>1
<1>7. Position(c) > f
  BY <1>2, <1>3, <1>5, <1>6
<1> QED
  BY <1>1, <1>2, <1>4, <1>7

(* Every step keeps what is known of what was sent.                        *)
LEMMA SentStep ==
  ASSUME BaseInv, SentInv, [Next]_vars
  PROVE  SentInv'
<1>0. /\ TypeOK /\ HeaderInv /\ LoopOK /\ NetOK /\ DOMAIN handler = Clients /\ NoClient \notin Clients
      /\ \A x \in Clients : SentOK(x)
      /\ DOMAIN NoHandler = {"state", "content", "mbuf", "received", "database", "sender_id",
                            "time_offset", "tables", "is_active"}
  BY TypeParts, HandlerTypes, ServerAssumption DEF BaseInv, SentInv, HandlersOK, NoHandler
<1>1. \A x \in Clients : ~Live(x)' => SentOK(x)'
  BY DEF SentOK
<1>2. ASSUME NEW c \in Clients, FreeHandler(c),
             phase' \in {"read", "last"} => UNCHANGED <<phase, current>>,
             phase = "poll" \/ current = c
      PROVE  SentInv'
  <2>1. handler'[c] = NoHandler
    BY <1>0, <1>2 DEF FreeHandler
  <2>2. ~Live(c)'
    BY <2>1 DEF Live, NoHandler
  <2>3. ASSUME NEW x \in Clients \ {c} PROVE SentOK(x)'
    <3>1. Untouched(x)
      BY <1>0, <1>2 DEF FreeHandler, Untouched, NetOK
    <3>2. current # x \/ phase \notin {"read", "last"}
      BY <1>2
    <3> QED BY <1>0, <3>1, <3>2, SentStays
  <2> QED BY <1>1, <2>2, <2>3 DEF SentInv
<1>3. ASSUME NEW c \in Clients, ProcessHeader(c) \/ ProcessMessage(c) \/ SkipGarbage(c)
      PROVE  SentInv'
  <2>1. /\ Live(c) /\ current = c /\ phase \in {"read", "last"}
        /\ UNCHANGED <<server, net, restarts>>
        /\ \A x \in Clients \ {c} : handler'[x] = handler[x]
        /\ handler'[c].received = handler[c].received
    <3>1. Processes(c) /\ Advances(c)
      BY <1>0, <1>3, Processing, ProcessingAdvances
    <3> QED BY <1>3, <3>1 DEF Processes, Advances, ProcessHeader, ProcessMessage, SkipGarbage, InCallback
  <2>2. ASSUME NEW x \in Clients \ {c} PROVE SentOK(x)'
    BY <1>0, <2>1, SentStays DEF Untouched, net
  <2>3. CASE SkipGarbage(c)
    <3>1. session'[c] \notin Proper
      BY <1>0, <2>1, <2>3, ProperIsNotSkipped DEF net
    <3> QED BY <2>2, <3>1 DEF SentInv, SentOK
  <2>4. CASE ProcessHeader(c) \/ ProcessMessage(c)
    <3>1. UNCHANGED <<phase, current>>
      BY <2>4 DEF ProcessHeader, ProcessMessage
    <3>2. SentOK(c)'
      BY <1>0, <2>1, <3>1 DEF SentOK, net
    <3> QED BY <2>2, <3>2 DEF SentInv
  <2> QED BY <1>3, <2>3, <2>4
<1>4. ASSUME NEW c \in Clients, Disconnect(c) PROVE SentInv'
  <2>1. phase' \notin {"read", "last"} /\ FreeHandler(c) /\ current = c
    BY <1>4 DEF Disconnect, Returns, InCallback
  <2> QED BY <1>2, <2>1
<1>5. ASSUME NEW c \in Clients, CallbackDone(c) PROVE SentInv'
  <2>1. /\ current = c /\ handler[c].mbuf = << >> /\ UNCHANGED <<server, net, handler, storage, restarts>>
    BY <1>5 DEF CallbackDone, InCallback
  <2>2. \A x \in Clients : Untouched(x) /\ (current # x \/ handler[x].mbuf = << >>)
    BY <2>1 DEF Untouched, net
  <2> QED BY <1>0, <2>2, SentStays DEF SentInv
<1>6. ASSUME NEW c \in Clients, NEW n \in 1..Len(sock[c]), Read(c, n) \/ ReadLast(c, n)
      PROVE  SentInv'
  <2>1. /\ Receive(c, n) /\ phase \notin {"read", "last"}
        /\ phase' \in {"read", "last"} /\ current' = c
    BY <1>6 DEF Read, ReadLast, Polls
  <2>2. /\ \A x \in Clients \ {c} : handler'[x] = handler[x] /\ sock'[x] = sock[x]
        /\ UNCHANGED <<link, session>>
    BY <1>0, <2>1 DEF Receive, NetOK
  <2>3. ASSUME NEW x \in Clients \ {c} PROVE SentOK(x)'
    BY <1>0, <2>1, <2>2, SentStays DEF Untouched
  <2>4. SentOK(c)'
    <3>1. /\ handler'[c].received = handler[c].received + n /\ handler'[c].state = handler[c].state
          /\ sock'[c] = SubSeq(sock[c], n + 1, Len(sock[c]))
          /\ handler[c].received \in Nat /\ sock[c] \in Seq(Messages)
      BY <1>0, <2>1, HandlerTypes DEF Receive, NetOK, HandlerShape
    <3>2. Len(sock'[c]) = Len(sock[c]) - n /\ Len(sock[c]) \in Nat /\ n \in Nat
      <4>1. /\ Len(sock[c]) \in Nat /\ n \in Nat \ {0} /\ n <= Len(sock[c])
        BY <3>1, LenProperties
      <4>2. \A k \in (n + 1)..Len(sock[c]) : sock[c][k] \in Messages
        BY <3>1, <4>1, ElementOfSeq
      <4>3. Len(SubSeq(sock[c], n + 1, Len(sock[c])))
              = IF n + 1 <= Len(sock[c]) THEN Len(sock[c]) - (n + 1) + 1 ELSE 0
        BY <4>1, <4>2, SubSeqProperties
      <4> QED BY <3>1, <4>1, <4>3
    <3>3. Live(c)' <=> Live(c)
      BY <3>1 DEF Live
    <3>4. handler'[c].received + Len(sock'[c]) = handler[c].received + Len(sock[c])
      BY <3>1, <3>2
    <3> QED BY <1>0, <2>1, <2>2, <3>3, <3>4 DEF SentOK
  <2> QED BY <2>3, <2>4 DEF SentInv
<1>7. ASSUME NEW c \in Clients, EndOfFile(c) \/ Idle(c) PROVE SentInv'
  <2>1. FreeHandler(c) /\ phase = "poll" /\ UNCHANGED <<phase, current>>
    BY <1>7 DEF EndOfFile, Idle, Polls
  <2> QED BY <1>2, <2>1
<1>8. ASSUME UNCHANGED net, DOMAIN handler' = Clients,
             \A x \in Clients : \/ handler'[x] = handler[x]
                                \/ handler'[x] = [handler[x] EXCEPT !.is_active = 0],
             phase \notin {"read", "last"} \/ UNCHANGED <<phase, current>>
      PROVE  SentInv'
  <2>1. ASSUME NEW x \in Clients PROVE SentOK(x)'
    <3>1. Untouched(x)
      <4>1. DOMAIN handler[x] = DOMAIN NoHandler
        BY <1>0, HandlerTypes DEF HandlerShape
      <4> QED BY <1>0, <1>8, <4>1 DEF Untouched, net
    <3> QED BY <1>0, <1>8, <3>1, SentStays
  <2> QED BY <2>1 DEF SentInv
<1>9. ASSUME NEW c \in Clients, HangUp(c) \/ Error(c) PROVE SentInv'
  BY <1>0, <1>8, <1>9 DEF HangUp, Error, Polls
<1>10. ASSUME NEW c \in Clients, DrainEnd(c) PROVE SentInv'
  <2>1. /\ phase = "drain" /\ current = c /\ phase' = "poll"
        /\ FreeHandler(c) \/ UNCHANGED <<net, handler, storage>>
    BY <1>10 DEF DrainEnd
  <2> QED BY <1>0, <1>2, <1>8, <2>1
<1>11. ASSUME NEW c \in Clients, Connect(c) PROVE SentInv'
  <2>1. PICK s \in DOMAIN Script : sock' = [sock EXCEPT ![c] = Script[s]] /\ session' = [session EXCEPT ![c] = s]
    BY <1>11 DEF Connect
  <2>2. /\ handler' = [handler EXCEPT ![c] = NewHandler] /\ link' = [link EXCEPT ![c] = "open"]
        /\ UNCHANGED <<phase, current>> /\ phase = "poll"
    BY <1>11 DEF Connect
  <2>3. ASSUME NEW x \in Clients \ {c} PROVE SentOK(x)'
    BY <1>0, <2>1, <2>2, SentStays DEF Untouched, NetOK
  <2>4. /\ handler'[c].mbuf = << >> /\ handler'[c].received = 0
        /\ sock'[c] = Script[s] /\ session'[c] = s
    BY <1>0, <2>1, <2>2 DEF NetOK, NewHandler, NoHandler
  <2>5. Len(Script[s]) \in Nat
    BY ScriptAssumption, LenProperties
  <2> QED BY <2>3, <2>4, <2>5 DEF SentInv, SentOK
<1>12. ASSUME NEW c \in Clients, ClientCloses(c) PROVE SentInv'
  <2>1. \A x \in Clients : Untouched(x)
    BY <1>0, <1>12 DEF ClientCloses, Untouched, NetOK
  <2> QED BY <1>0, <1>12, <2>1, SentStays DEF ClientCloses, SentInv
<1>13. ASSUME NEW c \in Clients, Reset(c) PROVE SentInv'
  <2>1. /\ link' = [link EXCEPT ![c] = "reset"] /\ sock' = [sock EXCEPT ![c] = << >>]
        /\ UNCHANGED <<phase, current, session, handler>>
    BY <1>13 DEF Reset
  <2>2. ASSUME NEW x \in Clients \ {c} PROVE SentOK(x)'
    BY <1>0, <2>1, SentStays DEF Untouched, NetOK
  <2>3. link'[c] = "reset"
    BY <1>0, <2>1 DEF NetOK
  <2>4. SentOK(c)'
    BY <1>0, <2>1, <2>3 DEF SentOK, Live
  <2> QED BY <2>2, <2>4 DEF SentInv
<1>14. ASSUME NEW d \in Domains, SecondPasses(d) PROVE SentInv'
  BY <1>0, <1>8, <1>14 DEF SecondPasses
<1>15. CASE Terminate
  BY <1>0, <1>8, <1>15 DEF Terminate
<1>16. CASE Exit \/ Crash
  <2>1. \A x \in Clients : ~Live(x)'
    BY <1>16 DEF Exit, Crash, Vanish, Live, NoHandler
  <2> QED BY <1>1, <2>1 DEF SentInv
<1>17. CASE Restart \/ UNCHANGED vars
  BY <1>0, <1>8, <1>17 DEF Restart, vars
<1> QED
  BY <1>3, <1>4, <1>5, <1>6, <1>7, <1>9, <1>10, <1>11, <1>12, <1>13, <1>14, <1>15, <1>16, <1>17
  DEF Next, Callback, EventLoop

(* A client that has closed its connection is taken leave of when all that *)
(* it sent was processed.                                                  *)
LEMMA LeavesWhenDone ==
  ASSUME BaseInv, SentInv, NobodyRefused, [Next]_vars, NEW c \in Clients,
         link[c] = "closed", link'[c] = "none", server' = "up", session[c] \in Proper
  PROVE  FreeHandler(c) /\ Live(c) /\ Done(c) = Len(Script[session[c]])
<1>0. /\ TypeOK /\ LoopOK /\ NetOK /\ SentOK(c) /\ handler[c].state # "none"
      /\ handler[c].state # "C_PROTOCOL_ERROR" /\ HandlerShape(handler[c])
      /\ NoClient \notin Clients
  BY TypeParts, HandlerTypes, ServerAssumption DEF BaseInv, SentInv, NobodyRefused, ConnectionOK
<1>1. Live(c)
  BY <1>0 DEF Live, HandlerShape
<1>2. ASSUME NEW x \in Clients, x # c PROVE ~FreeHandler(x)
  BY <1>0, <1>2 DEF FreeHandler, NetOK
<1>3. FreeHandler(c) /\ phase \notin {"read", "last"} /\ sock[c] = << >>
  <2>1. ASSUME UNCHANGED link PROVE FALSE
    BY <2>1
  <2>2. ASSUME NEW x \in Clients, Callback(x) PROVE FALSE
    <3>1. CASE Disconnect(x)
      BY <1>0, <1>2, <3>1 DEF Disconnect
    <3>2. CASE ~Disconnect(x)
      BY <2>1, <2>2, <3>2 DEF Callback, ProcessHeader, ProcessMessage, SkipGarbage, CallbackDone, net
    <3> QED BY <3>1, <3>2
  <2>3. ASSUME NEW x \in Clients, Idle(x) PROVE FALSE
    BY <1>2, <2>3 DEF Idle
  <2>4. ASSUME NEW x \in Clients, Connect(x) \/ ClientCloses(x) \/ Reset(x) PROVE FALSE
    BY <1>0, <2>4 DEF Connect, ClientCloses, Reset, NetOK
  <2>5. ASSUME NEW x \in Clients, EventLoop(x)
        PROVE  FreeHandler(c) /\ phase \notin {"read", "last"} /\ sock[c] = << >>
    <3>1. CASE EndOfFile(x)
      BY <1>2, <3>1 DEF EndOfFile, Polls
    <3>2. CASE DrainEnd(x)
      <4>1. FreeHandler(x) /\ phase = "drain" /\ sock[x] = << >>
        BY <2>1, <3>2 DEF DrainEnd, Drained, net
      <4> QED BY <1>2, <4>1
    <3>3. CASE ~EndOfFile(x) /\ ~DrainEnd(x)
      BY <2>1, <2>5, <3>3 DEF EventLoop, Read, ReadLast, Receive, HangUp, Error, net
    <3> QED BY <3>1, <3>2, <3>3
  <2>6. ASSUME NEW d \in Domains, SecondPasses(d) PROVE FALSE
    BY <2>1, <2>6 DEF SecondPasses, net
  <2>7. CASE Terminate \/ Exit \/ Crash
    BY <2>7 DEF Terminate, Exit, Crash, Vanish
  <2>8. CASE Restart \/ UNCHANGED vars
    BY <2>1, <2>8 DEF Restart, vars, net
  <2> QED BY <2>2, <2>3, <2>4, <2>5, <2>6, <2>7, <2>8 DEF Next
<1>4. handler[c].mbuf = << >> /\ handler[c].received = Len(Script[session[c]])
  <2>1. Len(sock[c]) = 0 /\ handler[c].received \in Nat
    BY <1>0, <1>3 DEF HandlerShape
  <2> QED BY <1>0, <1>1, <1>3, <2>1 DEF SentOK
<1>5. Done(c) = Len(Script[session[c]])
  BY <1>0, <1>4 DEF Done, HandlerShape
<1> QED BY <1>1, <1>3, <1>5

(* If the backend does what it is asked to, and no proper client is        *)
(* refused (for its schemas have names enough and are not too wide), every *)
(* measurement of a client that closes its connection has been inserted    *)
(* when the server takes leave of it, and is committed if it was the last: *)
(* POLLIN, POLLHUP and the status callback come in an order that leaves    *)
(* nothing in the socket or in the buffer.                                 *)
THEOREM ClosingKeepsAll ==
  ASSUME ~BackendMayFail
  PROVE  Spec /\ []NobodyRefused => ClosingLosesNothing
<1> DEFINE Stored(c) ==
             /\ link[c] = "closed" /\ link'[c] = "none" /\ server' = "up"
             /\ session[c] \in Proper
             => LET d == Domain[session[c]]
                    kept == IF db'[d].ref_count = 0 THEN stored'[d].rows ELSE work'[d].rows
                IN \A p \in Samples[session[c]] :
                     \E r \in kept : r.client = <<c, connections[c]>> /\ r.at = p
           IInv == BaseInv /\ TableInv /\ PrefixInv /\ SentInv
<1>1. Init => IInv
  BY BaseInit, TableInit, PrefixInit, SentInit
<1>2. IInv /\ [Next]_vars => IInv'
  BY BaseStep, TableStep, PrefixStep, SentStep
<1>3. ASSUME IInv, NobodyRefused, [Next]_vars, NEW c \in Clients
      PROVE  Stored(c)
  <2> SUFFICES ASSUME link[c] = "closed", link'[c] = "none", server' = "up", session[c] \in Proper,
                      NEW p \in Samples[session[c]]
               PROVE  LET d == Domain[session[c]]
                          kept == IF db'[d].ref_count = 0 THEN stored'[d].rows ELSE work'[d].rows
                      IN  \E r \in kept : r.client = <<c, connections[c]>> /\ r.at = p
    OBVIOUS
  <2>1. /\ TypeOK /\ DatabaseInv /\ ClosedInv /\ RefInv /\ InsertedOK(c)
        /\ DOMAIN db = Domains /\ DOMAIN stored = Domains /\ NoDatabase \notin Domains
        /\ DOMAIN Closed = {"ref_count", "start_time", "first_table", "sender_cnt", "overdue"}
        /\ \A d \in Domains : db[d].ref_count \in Int /\ DOMAIN db[d] = DOMAIN Closed
    BY <1>3, ServerAssumption DEF BaseInv, PrefixInv, TypeOK, Closed
  <2>2. FreeHandler(c) /\ Live(c) /\ Done(c) = Len(Script[session[c]])
    BY <1>3, LeavesWhenDone
  <2>3. p <= Done(c)
    <3>1. p \in DOMAIN Script[session[c]]
      BY ProperSession DEF Samples, Positions
    <3> QED BY <2>2, <3>1, ProperSession
  <2> DEFINE d == handler[c].database
  <2>4. d \in Domains /\ \E q \in work[d].rows : q.client = <<c, connections[c]>> /\ q.at = p
    BY <2>1, <2>2, <2>3 DEF InsertedOK
  <2>5. d = Domain[session[c]]
    BY <2>1, <2>2, <2>4 DEF DatabaseInv
  <2>6. Release(d)
    BY <2>2 DEF FreeHandler
  <2>7. db[d].ref_count > 0
    BY <2>1, <2>4, ReferredIsOpen DEF Refers
  <2>8. IF db'[d].ref_count = 0 THEN stored'[d].rows = work[d].rows ELSE work'[d].rows = work[d].rows
    BY <2>1, <2>4, <2>6, <2>7 DEF Release, LastClient, Close, Closed
  <2> QED BY <2>4, <2>5, <2>8
<1>4. IInv /\ NobodyRefused /\ [Next]_vars => [\A c \in Clients : Stored(c)]_vars
  BY <1>3
<1>5. ClosingLosesNothing <=> [][\A c \in Clients : Stored(c)]_vars
  BY DEF ClosingLosesNothing
<1> HIDE DEF IInv, Stored
<1> QED
  BY <1>1, <1>2, <1>4, <1>5, PTL DEF Spec
================================================================================
