---------------------------- MODULE DatabasesProofs ----------------------------
(***************************************************************************)
(* What the databases of the server keep, for any clients, streams and     *)
(* backends, as transactions are committed and undone, links break, and    *)
(* the server and its hook die.                                            *)
(***************************************************************************)
EXTENDS Databases, ListProofs

-----------------------------------------------------------------------------
(* Contents of a database.                                                 *)

IsList(l) == l \in Seq(Range(l))

(* The entry of the metadata for the table N describes its columns.        *)
Matches(b, V, N) ==
  /\ N \in DOMAIN V.tables
  /\ ListedSchema(V, N).name = N
  /\ DOMAIN ListedSchema(V, N) = {"name", "fields"}
  /\ IsList(ListedSchema(V, N).fields)
  /\ SchemaToSql(ListedSchema(V, N), OmlToType(b)).columns = V.tables[N]

(* Whether the entry that would describe the table of a row can be stored. *)
RowFits(b, row) == EntryFits(b, [row.stream.declared EXCEPT !.name = row.table])

ContentOK(b, V) ==
  /\ DOMAIN V = {"tables", "meta", "senders", "rows"}
  /\ IsFiniteSet(DOMAIN V.tables)
  /\ \A key \in DOMAIN V.meta :
       key # StartTimeKey => key = TableKey(key[2]) /\ Matches(b, V, key[2])
  /\ \A row \in V.rows : row.table # Metadata /\ RowFits(b, row) => Recorded(V, row.table)

(* W has what V has.                                                       *)
Grows(V, W) ==
  /\ DOMAIN V.tables \subseteq DOMAIN W.tables
  /\ DOMAIN V.meta \subseteq DOMAIN W.meta
  /\ V.rows \subseteq W.rows

(* A connection: what a transaction sees is what was committed and more.   *)
ConnOK(b, c) ==
  /\ DOMAIN c = {"link", "txn", "disk", "view", "prepared", "due", "sender_cnt"}
  /\ c.link \in Nat \cup {-1}
  /\ c.txn \in {"none", "open", "aborted"}
  /\ ContentOK(b, c.disk) /\ ContentOK(b, c.view) /\ Grows(c.disk, c.view)
  /\ b = "sqlite" => c.link = -1 /\ c.txn # "aborted"

(* What may be relied on from now on, rollback or not.                     *)
Safe(b, c) == IF b = "sqlite" THEN c.view ELSE c.disk

-----------------------------------------------------------------------------
(* An open database.                                                       *)

TableShape(table) ==
  /\ DOMAIN table = {"schema", "handle", "template"}
  /\ DOMAIN table.schema = {"name", "fields"}
  /\ IsList(table.schema.fields)
  /\ table # Unlinked => table.handle \in {"none", "ready", "freed"}

(* Tables that are in the list are ready, and described by what cannot be  *)
(* undone; once a statement has failed on the way, nothing works any more. *)
TablesOK(b, tables, c) ==
  \A i \in Linked(tables) :
    LET name == tables[i].schema.name IN
    /\ c.link = -1 => tables[i].handle = "ready" /\ name \in c.prepared
    /\ c.link # 0 /\ name # Metadata /\ EntryFits(b, tables[i].schema) => Recorded(Safe(b, c), name)

(* While no statement has failed, nothing that was taken is lost.          *)
StoredOK(c, rows, hasFailed) ==
  ~hasFailed => c.link = -1 /\ c.txn # "aborted" /\ rows \subseteq c.view.rows

SqlOK(r, b, c, rows, hasFailed) ==
  r.ref_count > 0 =>
    /\ Metadata \in DOMAIN Safe(b, c).tables
    /\ TablesOK(b, r.tables, c)
    /\ StoredOK(c, rows, hasFailed)

(* Of the tables of a name in the triple store the newest has no statement *)
(* and so belongs to no stream.                                            *)
Newest(tables, i) ==
  i \in Linked(tables) /\ FindTable(tables, tables[i].schema.name) = i

SemOK(tables) ==
  \A i \in DOMAIN tables :
    /\ tables[i].handle \in {"none", "ready", "unlinked"}
    /\ Newest(tables, i) => tables[i].handle = "none"

(* What the hook has heard.                                                *)
ToldOK(event, r, rows, hasFailed) ==
  /\ DOMAIN event = {"command", "rows"}
  /\ event.command = "DBCLOSED" => ~(r.ref_count > 0) /\ (hasFailed \/ rows \subseteq event.rows)

DatabaseOK(b, r, c, rows, hasFailed, event) ==
  /\ DOMAIN r = {"ref_count", "start_time", "tables"}
  /\ r.ref_count \in Nat
  /\ IsList(r.tables) /\ \A i \in DOMAIN r.tables : TableShape(r.tables[i])
  /\ ConnOK(b, c)
  /\ hasFailed \in BOOLEAN
  /\ ToldOK(event, r, rows, hasFailed)
  /\ IF b = "fuseki" THEN rows = {} /\ SemOK(r.tables) ELSE SqlOK(r, b, c, rows, hasFailed)

-----------------------------------------------------------------------------
(* The clients, as k = client[c] of a database with these tables.          *)

ClientOK(k) ==
  /\ DOMAIN k = {"phase", "domain", "sender", "streams"}
  /\ k.phase = "gone" => k = Gone
  /\ k.phase # "gone" => k.domain \in Domains
  /\ \A s \in DOMAIN k.streams : DOMAIN k.streams[s] = {"table", "rows"} /\ IsSchema(s)

(* The table of a stream stays what it was when the stream was declared.   *)
Usable(b, tables, i) == i \in Linked(tables) /\ (b = "fuseki" => tables[i].handle = "ready")

UsedOK(b, k, tables) ==
  \A s \in DOMAIN k.streams :
    LET t == k.streams[s].table IN
    t # 0 => Usable(b, tables, t) /\ FirstDifference(tables[t].schema, s) = 0

(* A measurement of a stream that may go on carries the names that the     *)
(* stream's table has.                                                     *)
Agrees(m, k, tables) ==
  LET t == k.streams[m.stream.declared].table IN
  /\ m.stream.declared \in DOMAIN k.streams /\ t # 0
  /\ m.sender = tables[t].template.sender /\ m.domain = tables[t].template.domain

TablesOf(c) == db[client[c].domain].tables

Holders(d) == {c \in Clients : client[c].domain = d}

TypeOK ==
  /\ backend \in Backends
  /\ DOMAIN db = Domains /\ DOMAIN conn = Domains /\ DOMAIN told = Domains
  /\ DOMAIN taken = Domains /\ DOMAIN failed = Domains
  /\ \A d \in Domains : DatabaseOK(backend, db[d], conn[d], taken[d], failed[d], told[d])
  /\ DOMAIN client = Clients
  /\ \A c \in Clients : ClientOK(client[c])
  /\ DOMAIN graph = {"services", "measurements"}
  /\ visits \in [Clients -> Nat]

RefInv == \A d \in Domains : Cardinality(Holders(d)) <= db[d].ref_count

UsedInv == \A c \in Clients : UsedOK(backend, client[c], TablesOf(c))

MeasurementsOK(c) ==
  \A m \in graph.measurements :
    m.stream.client = c =>
      /\ m.stream.visit <= visits[c]
      /\ client[c].phase # "gone" /\ m.stream.visit = visits[c] => Agrees(m, client[c], TablesOf(c))

GraphInv ==
  /\ StreamsKeepTheirSender
  /\ \A m \in graph.measurements : m.stream.client \in Clients /\ m.stream.visit \in Nat
  /\ \A c \in Clients : MeasurementsOK(c)

Inv == TypeOK /\ RefInv /\ UsedInv /\ GraphInv
-----------------------------------------------------------------------------
(* Lists.                                                                  *)

(* A sequence over any set is a list, and what is known of lists.          *)
LEMMA ListIntro ==
  ASSUME NEW S, NEW l \in Seq(S)
  PROVE  IsList(l) /\ Len(l) \in Nat /\ DOMAIN l = 1..Len(l) /\ l \in [1..Len(l) -> S]
<1>1. Len(l) \in Nat /\ l \in [1..Len(l) -> S] /\ DOMAIN l = 1..Len(l)
  BY LenProperties
<1>2. l \in [1..Len(l) -> Range(l)]
  BY <1>1 DEF Range
<1>3. l \in Seq(Range(l))
  BY <1>1, <1>2, SeqDef
<1> QED BY <1>1, <1>3 DEF IsList

(* What a list is, pointwise.                                              *)
LEMMA ListFacts ==
  ASSUME NEW l, IsList(l)
  PROVE  Len(l) \in Nat /\ DOMAIN l = 1..Len(l) /\ l = [i \in 1..Len(l) |-> l[i]]
<1>1. Len(l) \in Nat /\ DOMAIN l = 1..Len(l) /\ l \in [1..Len(l) -> Range(l)]
  BY ListIntro DEF IsList
<1> QED BY <1>1

(* Any function of the positions of a list is a list of its length.        *)
LEMMA ListMap ==
  ASSUME NEW l, IsList(l), NEW g, g = [i \in DOMAIN l |-> g[i]]
  PROVE  IsList(g) /\ Len(g) = Len(l) /\ DOMAIN g = DOMAIN l
<1>1. Len(l) \in Nat /\ DOMAIN l = 1..Len(l)
  BY ListFacts
<1>2. g \in [1..Len(l) -> Range(g)]
  BY <1>1 DEF Range
<1>3. g \in Seq(Range(g))
  BY <1>1, <1>2, SeqDef
<1>4. Len(g) \in Nat /\ DOMAIN g = 1..Len(g)
  BY <1>3, ListIntro
<1>5. Len(g) = Len(l)
  BY <1>1, <1>2, <1>4
<1> QED BY <1>1, <1>2, <1>3, <1>5 DEF IsList

(* The elements of two lists, one after the other.                         *)
LEMMA ListConcat ==
  ASSUME NEW l, IsList(l), NEW m, IsList(m)
  PROVE  /\ IsList(l \o m)
         /\ Len(l \o m) = Len(l) + Len(m)
         /\ DOMAIN (l \o m) = 1..Len(l) + Len(m)
         /\ \A i \in 1..Len(l) : (l \o m)[i] = l[i]
         /\ \A i \in 1..Len(m) : (l \o m)[Len(l) + i] = m[i]
<1> DEFINE S == Range(l) \cup Range(m)
<1>1. l \in Seq(S) /\ m \in Seq(S)
  BY SeqMonotonic DEF IsList
<1> HIDE DEF S
<1>2. Len(l) \in Nat /\ Len(m) \in Nat
  BY ListFacts
<1>3. /\ l \o m \in Seq(S) /\ Len(l \o m) = Len(l) + Len(m)
      /\ \A i \in 1..Len(l) + Len(m) : (l \o m)[i] = IF i <= Len(l) THEN l[i] ELSE m[i - Len(l)]
  BY <1>1, ConcatProperties
<1>4. IsList(l \o m) /\ DOMAIN (l \o m) = 1..Len(l) + Len(m)
  BY <1>3, ListIntro
<1>5. \A i \in 1..Len(l) : (l \o m)[i] = l[i]
  BY <1>2, <1>3
<1>6. ASSUME NEW i \in 1..Len(m) PROVE (l \o m)[Len(l) + i] = m[i]
  <2>1. Len(l) + i \in 1..Len(l) + Len(m) /\ ~(Len(l) + i <= Len(l)) /\ Len(l) + i - Len(l) = i
    BY <1>2
  <2> QED BY <1>3, <2>1
<1> QED BY <1>3, <1>4, <1>5, <1>6

(* A list with one more element.                                           *)
LEMMA ListAppend ==
  ASSUME NEW l, IsList(l), NEW e
  PROVE  /\ IsList(Append(l, e))
         /\ Len(Append(l, e)) = Len(l) + 1
         /\ DOMAIN Append(l, e) = 1..Len(l) + 1
         /\ \A i \in 1..Len(l) : Append(l, e)[i] = l[i]
         /\ Append(l, e)[Len(l) + 1] = e
<1> DEFINE S == Range(l) \cup {e}
<1>1. l \in Seq(S) /\ e \in S
  BY SeqMonotonic DEF IsList
<1> HIDE DEF S
<1>2. /\ Append(l, e) \in Seq(S) /\ Len(Append(l, e)) = Len(l) + 1
      /\ \A i \in 1..Len(l) : Append(l, e)[i] = l[i]
      /\ Append(l, e)[Len(l) + 1] = e
  BY <1>1, AppendProperties
<1>3. IsList(Append(l, e)) /\ DOMAIN Append(l, e) = 1..Len(l) + 1
  BY <1>2, ListIntro
<1> QED BY <1>2, <1>3

(* The table found is the last in the list that has the name.              *)
LEMMA GreatestExists ==
  ASSUME NEW n \in Nat, NEW S \in SUBSET 1..n, S # {}
  PROVE  Greatest(S) \in S /\ \A j \in S : j <= Greatest(S)
<1> DEFINE R == {n - i : i \in S}
<1>1. R \in SUBSET Nat /\ R # {}
  <2>1. \A i \in S : n - i \in Nat
    OBVIOUS
  <2>2. PICK i \in S : TRUE
    OBVIOUS
  <2>3. n - i \in R
    BY <2>2
  <2> QED BY <2>1, <2>3
<1>2. PICK r \in R : \A q \in R : r <= q
  <2> HIDE DEF R
  <2> QED BY <1>1, LeastNat
<1>3. PICK i \in S : r = n - i
  BY <1>2
<1>4. \A j \in S : j <= i
  BY <1>2, <1>3
<1> QED BY <1>3, <1>4 DEF Greatest

(* The table that is found by a name is the newest one of that name.       *)
LEMMA FindTableFinds ==
  ASSUME NEW tables, IsList(tables), NEW name
  PROVE  LET t == FindTable(tables, name) IN
         /\ t = 0 => \A i \in Linked(tables) : tables[i].schema.name # name
         /\ t # 0 => /\ t \in Linked(tables) /\ tables[t].schema.name = name
                     /\ \A i \in Linked(tables) : tables[i].schema.name = name => i <= t
<1> DEFINE same == {i \in Linked(tables) : tables[i].schema.name = name}
<1>1. Len(tables) \in Nat /\ same \in SUBSET 1..Len(tables)
  BY ListFacts DEF Linked
<1>2. FindTable(tables, name) = IF same = {} THEN 0 ELSE Greatest(same)
  BY DEF FindTable
<1>3. CASE same = {}
  BY <1>2, <1>3
<1>4. CASE same # {}
  <2>1. Greatest(same) \in same /\ \A j \in same : j <= Greatest(same)
    <3> HIDE DEF same
    <3> QED BY <1>1, <1>4, GreatestExists
  <2> QED BY <1>1, <1>2, <1>4, <2>1
<1> QED BY <1>3, <1>4

-----------------------------------------------------------------------------
(* Schemas.                                                                *)

(* The types of fields are read as they are written.                       *)
LEMMA TypesAreRead ==
  ASSUME NEW type \in OmlTypes
  PROVE  FieldType(type) = type /\ type # UnknownType
BY DEF FieldType, OmlTypes, UnknownType

(* A schema that has SQL comes back from its metadata with its name and    *)
(* its columns.                                                            *)
LEMMA MetadataAreRead ==
  ASSUME NEW b, NEW s, IsSchema(s), HasSql(s, OmlToType(b))
  PROVE  LET r == SchemaFromMeta(SchemaToMeta(s)) IN
         /\ DOMAIN r = {"name", "fields"} /\ IsList(r.fields)
         /\ r.name = s.name
         /\ SchemaToSql(r, OmlToType(b)).columns = SchemaToSql(s, OmlToType(b)).columns
<1> DEFINE plain == [i \in DOMAIN s.fields |->
                       [name |-> s.fields[i].name, type |-> s.fields[i].type, concepts |-> <<>>]]
           m == SchemaToMeta(s)
           fields == [i \in DOMAIN m.fields |-> FieldFromMeta(m.fields[i])]
           r == SchemaFromMeta(m)
<1>1. s.fields # <<>> /\ IsList(s.fields) /\ \A i \in DOMAIN s.fields : s.fields[i].type \in OmlTypes
  BY DEF IsSchema, HasSql, IsList
<1>2. m = [s EXCEPT !.fields = plain]
  BY <1>1 DEF SchemaToMeta
<1>3. m.name = s.name /\ m.fields = plain
  BY <1>2 DEF IsSchema
<1>4. DOMAIN m.fields = DOMAIN s.fields
      /\ \A i \in DOMAIN s.fields : m.fields[i].name = s.fields[i].name /\ m.fields[i].type = s.fields[i].type
  BY <1>3
<1> HIDE DEF m, plain
<1>5. \A i \in DOMAIN s.fields : fields[i].name = s.fields[i].name /\ fields[i].type = s.fields[i].type
  BY <1>1, <1>4, TypesAreRead DEF FieldFromMeta
<1>6. ~ \E i \in DOMAIN fields : fields[i].type = UnknownType
  BY <1>1, <1>4, <1>5, TypesAreRead
<1>7. r = [name |-> m.name, fields |-> fields]
  BY <1>6 DEF SchemaFromMeta
<1>8. DOMAIN fields = DOMAIN s.fields /\ fields = [i \in DOMAIN s.fields |-> fields[i]]
  BY <1>4
<1> HIDE DEF fields
<1>9. IsList(fields)
  BY <1>1, <1>8, ListMap
<1>10. Columns(r, OmlToType(b)) = Columns(s, OmlToType(b))
  BY <1>5, <1>7, <1>8 DEF Columns
<1>11. SchemaToSql(r, OmlToType(b)).columns = SchemaToSql(s, OmlToType(b)).columns
  BY <1>10 DEF SchemaToSql
<1>12. DOMAIN r = {"name", "fields"} /\ IsList(r.fields) /\ r.name = s.name
  BY <1>3, <1>7, <1>9
<1> QED BY <1>11, <1>12 DEF m

(* The schema of the metadata table is one.                                *)
LEMMA MetadataSchemaOK ==
  ASSUME NEW b
  PROVE  IsSchema(MetadataSchema) /\ HasSql(MetadataSchema, OmlToType(b)) /\ MetadataSchema.name = Metadata
<1> DEFINE given == <<[name |-> "subject", type |-> "string", concepts |-> <<>>],
                      [name |-> "key", type |-> "string", concepts |-> <<>>],
                      [name |-> "value", type |-> "string", concepts |-> <<>>]>>
           fields == [i \in DOMAIN given |-> FieldFromMeta(given[i])]
<1>1. DOMAIN given = 1..3 /\ \A i \in 1..3 : given[i].type = "string"
  OBVIOUS
<1>2. "string" \in OmlTypes /\ FieldType("string") = "string"
  BY TypesAreRead DEF OmlTypes
<1>3. DOMAIN fields = 1..3 /\ fields \in [1..3 -> Range(fields)]
      /\ \A i \in 1..3 : fields[i].type = "string" /\ DOMAIN fields[i] = {"name", "type", "concepts"}
  <2> HIDE DEF given
  <2>1. DOMAIN fields = 1..3 /\ fields \in [1..3 -> Range(fields)]
    BY <1>1 DEF Range
  <2>2. \A i \in 1..3 : fields[i].type = "string" /\ DOMAIN fields[i] = {"name", "type", "concepts"}
    BY <1>1, <1>2 DEF FieldFromMeta
  <2> QED BY <2>1, <2>2
<1>4. MetadataSchema = [name |-> Metadata, fields |-> fields]
  <2>1. ~ \E i \in DOMAIN fields : fields[i].type = UnknownType
    BY <1>3 DEF UnknownType
  <2> QED BY <2>1 DEF MetadataSchema, SchemaFromMeta
<1> HIDE DEF fields
<1>5. fields \in Seq(Range(fields))
  <2>1. [1..3 -> Range(fields)] \in {[1..n -> Range(fields)] : n \in Nat}
    OBVIOUS
  <2>2. fields \in UNION {[1..n -> Range(fields)] : n \in Nat}
    BY <1>3, <2>1
  <2> QED BY <2>2, SeqDef
<1>6. IsSchema(MetadataSchema)
  BY <1>2, <1>3, <1>4, <1>5 DEF IsSchema
<1>7. fields # <<>>
  BY <1>3
<1>8. "string" \in DOMAIN OmlToType(b)
  BY DEF OmlToType, PsqlTypes, Sq3Types, Stored, OmlTypes
<1>9. HasSql(MetadataSchema, OmlToType(b))
  BY <1>3, <1>4, <1>7, <1>8 DEF HasSql
<1> QED BY <1>4, <1>6, <1>9

(* A copy has the names and types of what it is copied from.               *)
LEMMA CopiesAreSame ==
  ASSUME NEW s, DOMAIN s = {"name", "fields"}, IsList(s.fields)
  PROVE  LET r == SchemaCopy(s) IN
         /\ DOMAIN r = {"name", "fields"} /\ IsList(r.fields) /\ r.name = s.name
         /\ Len(r.fields) = Len(s.fields)
         /\ \A i \in DOMAIN s.fields : r.fields[i] = CopyField(s.fields[i])
<1> DEFINE fields == [i \in DOMAIN s.fields |-> CopyField(s.fields[i])]
<1>1. SchemaCopy(s) = [s EXCEPT !.fields = fields]
  BY DEF SchemaCopy
<1>2. fields = [i \in DOMAIN s.fields |-> fields[i]]
  OBVIOUS
<1>3. IsList(fields) /\ Len(fields) = Len(s.fields)
  <2> HIDE DEF fields
  <2> QED BY <1>2, ListMap
<1> QED BY <1>1, <1>3

(* No difference between two schemas: as many fields, alike one by one.    *)
Alike(l, m) == Len(l) = Len(m) /\ \A i \in 1..Len(l) : SameField(l[i], m[i])

(* Schemas have no first difference if their fields agree one by one.      *)
LEMMA NoDifference ==
  ASSUME NEW s, NEW r, IsList(s.fields), IsList(r.fields)
  PROVE  FirstDifference(s, r) = 0 <=> Alike(s.fields, r.fields)
<1> DEFINE n == IF Len(s.fields) < Len(r.fields) THEN Len(s.fields) ELSE Len(r.fields)
           differing == {i \in 1..n : ~SameField(s.fields[i], r.fields[i])}
<1>1. Len(s.fields) \in Nat /\ Len(r.fields) \in Nat
  BY ListFacts
<1>2. FirstDifference(s, r) = CASE differing # {} -> CHOOSE i \in differing : \A j \in differing : i <= j
                                [] differing = {} /\ Len(s.fields) # Len(r.fields) -> n + 1
                                [] OTHER -> 0
  BY DEF FirstDifference
<1>3. CASE differing # {}
  <2>1. differing \in SUBSET Nat
    BY <1>1
  <2>2. \E i \in differing : \A j \in differing : i <= j
    <3> HIDE DEF differing
    <3> QED BY <1>3, <2>1, LeastNat
  <2>3. FirstDifference(s, r) \in differing
    <3>1. FirstDifference(s, r) = CHOOSE i \in differing : \A j \in differing : i <= j
      BY <1>2, <1>3
    <3> HIDE DEF differing
    <3> QED BY <3>1, <2>2
  <2>4. FirstDifference(s, r) # 0
    BY <1>1, <2>3
  <2>5. ~Alike(s.fields, r.fields)
    BY <1>1, <1>3 DEF Alike
  <2> QED BY <2>4, <2>5
<1>4. CASE differing = {}
  BY <1>1, <1>2, <1>4 DEF Alike
<1> QED BY <1>3, <1>4

(* Schemas of one name whose fields agree have the same description.       *)
LEMMA SameDescription ==
  ASSUME NEW s, DOMAIN s = {"name", "fields"}, IsList(s.fields),
         NEW r, DOMAIN r = {"name", "fields"}, IsList(r.fields),
         s.name = r.name, Alike(s.fields, r.fields)
  PROVE  \A b : EntryFits(b, s) <=> EntryFits(b, r)
<1> DEFINE plain(x) == [i \in DOMAIN x.fields |->
                          [name |-> x.fields[i].name, type |-> x.fields[i].type, concepts |-> <<>>]]
<1>1. DOMAIN s.fields = 1..Len(s.fields) /\ DOMAIN r.fields = 1..Len(s.fields)
  BY ListFacts DEF Alike
<1>2. \A i \in 1..Len(s.fields) :
        s.fields[i].name = r.fields[i].name /\ s.fields[i].type = r.fields[i].type
  BY DEF Alike, SameField
<1>3. plain(s) = plain(r)
  BY <1>1, <1>2
<1>4. s.fields = <<>> <=> r.fields = <<>>
  <2>1. Len(s.fields) = Len(r.fields) /\ Len(s.fields) \in Nat
    BY ListFacts DEF Alike
  <2>2. s.fields \in Seq(Range(s.fields)) /\ r.fields \in Seq(Range(r.fields))
    BY DEF IsList
  <2> QED BY <2>1, <2>2, EmptySeq
<1>5. \A x : SchemaToMeta(x) = IF x.fields = <<>> THEN NoSchema ELSE [x EXCEPT !.fields = plain(x)]
  BY DEF SchemaToMeta
<1> HIDE DEF plain
<1>6. [s EXCEPT !.fields = plain(s)] = [r EXCEPT !.fields = plain(r)]
  <2>1. \A z, w : /\ DOMAIN z = {"name", "fields"} => [z EXCEPT !.fields = w] = [name |-> z.name, fields |-> w]
    OBVIOUS
  <2> QED BY <1>3, <2>1
<1>7. SchemaToMeta(s) = SchemaToMeta(r)
  BY <1>4, <1>5, <1>6
<1> QED BY <1>7 DEF EntryFits

(* A copy of a schema has the description of the schema.                   *)
LEMMA CopyDescription ==
  ASSUME NEW s, DOMAIN s = {"name", "fields"}, IsList(s.fields), NEW b
  PROVE  EntryFits(b, SchemaCopy(s)) <=> EntryFits(b, s)
<1>1. PICK r : r = SchemaCopy(s)
  OBVIOUS
<1>2. /\ DOMAIN r = {"name", "fields"} /\ IsList(r.fields) /\ r.name = s.name
      /\ Len(r.fields) = Len(s.fields)
      /\ \A i \in DOMAIN s.fields : r.fields[i] = CopyField(s.fields[i])
  BY <1>1, CopiesAreSame
<1>3. DOMAIN s.fields = 1..Len(s.fields)
  BY ListFacts
<1>4. \A f : CopyField(f).name = f.name /\ CopyField(f).type = f.type
  BY DEF CopyField
<1>5. Alike(r.fields, s.fields)
  BY <1>2, <1>3, <1>4 DEF Alike, SameField
<1> QED BY <1>1, <1>2, <1>5, SameDescription


-----------------------------------------------------------------------------
(* Statements.                                                             *)

ResultOK(b, r) == r = [c |-> r.c, ok |-> r.ok] /\ r.ok \in BOOLEAN /\ ConnOK(b, r.c)

(* What one statement, or more, may do to a connection.                    *)
Keeps(b, c, d) ==
  /\ ConnOK(b, d)
  /\ Grows(c.disk, d.disk)
  /\ c.txn # "aborted" => Grows(c.view, d.view)
  /\ c.prepared \subseteq d.prepared
  /\ c.link = -1 => d.link = -1
  /\ c.link = 0 => d.link = 0
  /\ d.link = -1 => c.link = -1

(* A statement does not harm the contents.                                 *)
EffectOK(b, V, s) ==
  Accepted(V, s) => ContentOK(b, Effect(V, s)) /\ Grows(V, Effect(V, s))

(* Growing is reflexive and transitive.                                    *)
LEMMA GrowsOrder ==
  /\ \A V : Grows(V, V)
  /\ \A U, V, W : Grows(U, V) /\ Grows(V, W) => Grows(U, W)
BY DEF Grows

(* Nothing done keeps everything.                                          *)
LEMMA KeepsAll ==
  ASSUME NEW b, NEW c, ConnOK(b, c)
  PROVE  Keeps(b, c, c)
BY GrowsOrder DEF Keeps

(* A result that is a success is a beginning.                              *)
LEMMA Successes ==
  ASSUME NEW b, NEW r, ResultOK(b, r), NEW s
  PROVE  /\ r.ok => r = Start(r.c)
         /\ ~r.ok => Exec(b, r, s) = r
<1>1. ASSUME r.ok PROVE r = Start(r.c)
  BY <1>1 DEF ResultOK, Start
<1>2. ASSUME ~r.ok PROVE Exec(b, r, s) = r
  BY <1>2 DEF Exec
<1> QED BY <1>1, <1>2

(* A statement takes one off the statements that a dying link has left,    *)
(* and changes nothing else.                                               *)
LEMMA CarryKeeps ==
  ASSUME NEW b, NEW c, ConnOK(b, c)
  PROVE  /\ ConnOK(b, Carry(c))
         /\ \A x \in DOMAIN c \ {"link"} : Carry(c)[x] = c[x]
         /\ Carry(c).link \in Nat \cup {-1}
         /\ c.link = -1 <=> Carry(c).link = -1
         /\ c.link = 0 => Carry(c).link = 0
<1>1. CASE c.link > 0
  <2> DEFINE d == [c EXCEPT !.link = c.link - 1]
  <2>1. Carry(c) = d
    BY <1>1 DEF Carry
  <2>2. c.link \in Nat /\ c.link # -1 /\ c.link # 0
    BY <1>1 DEF ConnOK
  <2>3. d.link = c.link - 1 /\ d.link \in Nat
    BY <1>1, <2>2 DEF ConnOK
  <2>4. DOMAIN d = DOMAIN c /\ \A x \in DOMAIN c \ {"link"} : d[x] = c[x]
    BY DEF ConnOK
  <2>5. ConnOK(b, d)
    <3>1. d.txn = c.txn /\ d.disk = c.disk /\ d.view = c.view
      BY <2>4 DEF ConnOK
    <3>2. b # "sqlite"
      BY <2>2 DEF ConnOK
    <3> HIDE DEF d
    <3> QED BY <2>3, <2>4, <3>1, <3>2 DEF ConnOK
  <2> HIDE DEF d
  <2> QED BY <2>1, <2>2, <2>3, <2>4, <2>5
<1>2. CASE ~(c.link > 0)
  <2>1. Carry(c) = c
    BY <1>2 DEF Carry
  <2> QED BY <2>1 DEF ConnOK
<1> QED BY <1>1, <1>2

(* The same, field by field.                                               *)
LEMMA CarryFields ==
  ASSUME NEW b, NEW c, ConnOK(b, c)
  PROVE  /\ Carry(c).txn = c.txn /\ Carry(c).disk = c.disk /\ Carry(c).view = c.view
         /\ Carry(c).prepared = c.prepared
<1>1. {"txn", "disk", "view", "prepared"} \subseteq DOMAIN c \ {"link"}
  BY DEF ConnOK
<1> QED BY <1>1, CarryKeeps

(* What a commit stores is as sound as what was seen, and no less than     *)
(* what was stored.                                                        *)
LEMMA CommittedOK ==
  ASSUME NEW b, NEW c, ConnOK(b, c)
  PROVE  /\ ContentOK(b, Committed(c)) /\ Grows(c.disk, Committed(c))
         /\ c.txn # "aborted" => Committed(c) = c.view
BY GrowsOrder DEF ConnOK, Committed

(* COMMIT: all that the transaction did, or nothing of it.                 *)
LEMMA EndDoes ==
  ASSUME NEW b, NEW c, ConnOK(b, c)
  PROVE  LET r == Exec(b, Start(c), End) IN
         /\ ResultOK(b, r) /\ Keeps(b, c, r.c) /\ r.c.prepared = c.prepared
         /\ c.link = 0 => ~r.ok /\ r.c = c
         /\ c.link # 0 => /\ r.c.disk = Committed(c) /\ r.c.view = Committed(c)
                          /\ r.c.txn = "none"
                          /\ c.txn # "none" \/ b = "postgresql" => r.ok
<1> DEFINE r == Exec(b, Start(c), End)
           d == [Carry(c) EXCEPT !.txn = "none", !.disk = Committed(Carry(c)),
                                 !.view = Committed(Carry(c))]
           q == [c |-> d, ok |-> Carry(c).txn # "none" \/ b = "postgresql"]
<1>1. CASE c.link = 0
  <2>1. r = [Start(c) EXCEPT !.ok = FALSE]
    BY <1>1 DEF Exec, Start, End
  <2>2. r.c = c /\ r.ok = FALSE /\ r = [c |-> r.c, ok |-> r.ok]
    BY <2>1 DEF Start
  <2> QED BY <1>1, <2>2, KeepsAll DEF ResultOK, r
<1>2. CASE c.link # 0
  <2>1. r = q
    BY <1>2 DEF Exec, Start, End
  <2>2. DOMAIN Carry(c) = DOMAIN c /\ Committed(Carry(c)) = Committed(c)
    BY CarryKeeps, CarryFields DEF ConnOK, Committed
  <2>3. /\ DOMAIN d = DOMAIN c /\ d.txn = "none" /\ d.disk = Committed(c) /\ d.view = Committed(c)
        /\ d.link = Carry(c).link /\ d.prepared = c.prepared
    BY <2>2, CarryFields DEF ConnOK
  <2> HIDE DEF d
  <2>4. ConnOK(b, d)
    BY <2>2, <2>3, CommittedOK, CarryKeeps, GrowsOrder DEF ConnOK
  <2>5. Keeps(b, c, d)
    BY <2>3, <2>4, CommittedOK, CarryKeeps, GrowsOrder DEF Keeps, ConnOK
  <2>6. r.c = d /\ r.ok = (c.txn # "none" \/ b = "postgresql") /\ r = [c |-> r.c, ok |-> r.ok]
    BY <2>1, CarryFields
  <2> HIDE DEF r
  <2> QED BY <1>2, <2>3, <2>4, <2>5, <2>6 DEF ResultOK, r
<1> QED BY <1>1, <1>2

(* BEGIN: succeeds unless the link is dead, and changes no contents.       *)
LEMMA BeginDoes ==
  ASSUME NEW b, NEW c, ConnOK(b, c)
  PROVE  LET r == Exec(b, Start(c), Begin) IN
         /\ ResultOK(b, r) /\ Keeps(b, c, r.c) /\ r.c.prepared = c.prepared
         /\ r.c.disk = c.disk /\ r.c.view = c.view
         /\ c.link = 0 => ~r.ok /\ r.c = c
         /\ c.link # 0 => r.ok /\ r.c.txn = "open"
<1> DEFINE r == Exec(b, Start(c), Begin)
           d == [Carry(c) EXCEPT !.txn = "open"]
<1>1. CASE c.link = 0
  <2>1. r = [Start(c) EXCEPT !.ok = FALSE]
    BY <1>1 DEF Exec, Start, Begin
  <2>2. r.c = c /\ r.ok = FALSE /\ r = [c |-> r.c, ok |-> r.ok]
    BY <2>1 DEF Start
  <2> QED BY <1>1, <2>2, KeepsAll DEF ResultOK, r
<1>2. CASE c.link # 0
  <2>1. r = [Start(c) EXCEPT !.c = d]
    BY <1>2 DEF Exec, Start, Begin
  <2>2. r.c = d /\ r.ok = TRUE /\ r = [c |-> r.c, ok |-> r.ok]
    BY <2>1 DEF Start
  <2>3. DOMAIN Carry(c) = DOMAIN c
    BY CarryKeeps DEF ConnOK
  <2>4. /\ DOMAIN d = DOMAIN c /\ d.txn = "open" /\ d.disk = c.disk /\ d.view = c.view
        /\ d.link = Carry(c).link /\ d.prepared = c.prepared
    BY <2>3, CarryFields DEF ConnOK
  <2> HIDE DEF d
  <2>5. ConnOK(b, d)
    BY <2>3, <2>4, CarryKeeps DEF ConnOK
  <2>6. Keeps(b, c, d)
    BY <2>4, <2>5, CarryKeeps, GrowsOrder DEF Keeps, ConnOK
  <2> HIDE DEF r
  <2> QED BY <1>2, <2>2, <2>4, <2>5, <2>6 DEF ResultOK, r
<1> QED BY <1>1, <1>2

(* Any other statement: accepted, it takes effect; refused by PostgreSQL,  *)
(* it ends the transaction.                                                *)
LEMMA StatementDoes ==
  ASSUME NEW b, NEW c, ConnOK(b, c), NEW s, s.op \notin {"END", "BEGIN"},
         c.link # 0 => EffectOK(b, c.view, s)
  PROVE  LET r == Exec(b, Start(c), s) IN
         /\ ResultOK(b, r) /\ Keeps(b, c, r.c) /\ r.c.prepared = c.prepared
         /\ r.c.disk = c.disk /\ Grows(c.view, r.c.view)
         /\ c.link = 0 => ~r.ok
         /\ r.ok => Accepted(c.view, s) /\ r.c.view = Effect(c.view, s) /\ r.c.txn = c.txn
                    /\ c.txn # "aborted"
         /\ ~r.ok => /\ r.c.view = c.view
                     /\ c.link = 0 \/ c.txn = "aborted" \/ ~Accepted(c.view, s)
                     /\ b # "postgresql" => r.c.txn = c.txn
                     /\ c.link # 0 /\ b = "postgresql" => r.c.txn = "aborted"
<1> DEFINE r == Exec(b, Start(c), s)
           works == c.txn # "aborted" /\ Accepted(c.view, s)
           d == [Carry(c) EXCEPT !.view = Effect(c.view, s)]
           e == IF b = "postgresql" THEN [Carry(c) EXCEPT !.txn = "aborted"] ELSE Carry(c)
<1>0. DOMAIN Carry(c) = DOMAIN c
  BY CarryKeeps DEF ConnOK
<1>1. CASE c.link = 0
  <2>1. r = [Start(c) EXCEPT !.ok = FALSE]
    BY <1>1 DEF Exec, Start
  <2>2. r.c = c /\ r.ok = FALSE /\ r = [c |-> r.c, ok |-> r.ok]
    BY <2>1 DEF Start
  <2> HIDE DEF r
  <2> QED BY <1>1, <2>2, KeepsAll, GrowsOrder DEF ResultOK, r
<1>2. CASE c.link # 0 /\ works
  <2>1. r = [Start(c) EXCEPT !.c = d]
    <3>1. Carry(c).txn # "aborted" /\ Accepted(Carry(c).view, s) /\ Carry(c).view = c.view
      BY <1>2, CarryFields
    <3> QED BY <1>2, <3>1 DEF Exec, Start
  <2>2. r.c = d /\ r.ok = TRUE /\ r = [c |-> r.c, ok |-> r.ok]
    BY <2>1 DEF Start
  <2>3. /\ DOMAIN d = DOMAIN c /\ d.txn = c.txn /\ d.disk = c.disk /\ d.view = Effect(c.view, s)
        /\ d.link = Carry(c).link /\ d.prepared = c.prepared
    BY <1>0, CarryFields DEF ConnOK
  <2> HIDE DEF d, r
  <2>4. ContentOK(b, Effect(c.view, s)) /\ Grows(c.view, Effect(c.view, s))
    BY <1>2 DEF EffectOK
  <2>5. ConnOK(b, d)
    BY <1>0, <2>3, <2>4, CarryKeeps, GrowsOrder DEF ConnOK
  <2>6. Keeps(b, c, d)
    BY <2>3, <2>4, <2>5, CarryKeeps, GrowsOrder DEF Keeps, ConnOK
  <2> QED BY <1>2, <2>2, <2>3, <2>4, <2>5, <2>6 DEF ResultOK, r
<1>3. CASE c.link # 0 /\ ~works
  <2>1. r = [c |-> e, ok |-> FALSE]
    <3>1. ~(Carry(c).txn # "aborted" /\ Accepted(Carry(c).view, s))
      BY <1>3, CarryFields
    <3> QED BY <1>3, <3>1 DEF Exec, Start
  <2>2. r.c = e /\ r.ok = FALSE /\ r = [c |-> r.c, ok |-> r.ok]
    BY <2>1
  <2>3. /\ DOMAIN e = DOMAIN c /\ e.disk = c.disk /\ e.view = c.view
        /\ e.link = Carry(c).link /\ e.prepared = c.prepared
        /\ e.txn = IF b = "postgresql" THEN "aborted" ELSE c.txn
    BY <1>0, CarryFields DEF ConnOK
  <2> HIDE DEF e, r
  <2>4. ConnOK(b, e)
    BY <1>0, <2>3, CarryKeeps DEF ConnOK
  <2>5. Keeps(b, c, e)
    <3>1. (c.link = -1 <=> e.link = -1) /\ (c.link = 0 => e.link = 0)
      BY <2>3, CarryKeeps
    <3> QED BY <2>3, <2>4, <3>1, GrowsOrder DEF Keeps
  <2> QED BY <1>3, <2>2, <2>3, <2>4, <2>5, GrowsOrder DEF ResultOK, r
<1> QED BY <1>1, <1>2, <1>3


-----------------------------------------------------------------------------
(* What each statement does to the contents.                               *)

(* A query changes nothing.                                                *)
LEMMA QueriesAreOK ==
  ASSUME NEW b, NEW V, ContentOK(b, V), NEW x
  PROVE  /\ Effect(V, PrepareInsert(x)) = V /\ EffectOK(b, V, PrepareInsert(x))
         /\ Effect(V, Select(x)) = V /\ EffectOK(b, V, Select(x))
<1>1. Effect(V, PrepareInsert(x)) = V
  BY DEF Effect, PrepareInsert
<1>2. Effect(V, Select(x)) = V
  BY DEF Effect, Select
<1> QED BY <1>1, <1>2, GrowsOrder DEF EffectOK

(* CREATE TABLE, of a name that was not there.                             *)
Creation(table) == [op |-> "CREATE TABLE", table |-> table]

(* CREATE TABLE adds the table, with its columns, to the contents.         *)
LEMMA CreationIsOK ==
  ASSUME NEW b, NEW V, ContentOK(b, V), NEW table
  PROVE  /\ EffectOK(b, V, Creation(table))
         /\ LET W == Effect(V, Creation(table)) IN
            /\ table.name \in DOMAIN W.tables /\ W.tables[table.name] = table.columns
            /\ W.meta = V.meta /\ W.rows = V.rows
<1> DEFINE W == Effect(V, Creation(table))
<1>1. W = [V EXCEPT !.tables = Put(V.tables, table.name, table.columns)]
  BY DEF Effect, Creation
<1>2. /\ DOMAIN W = DOMAIN V /\ W.meta = V.meta /\ W.rows = V.rows
      /\ W.tables = Put(V.tables, table.name, table.columns)
  BY <1>1 DEF ContentOK
<1> HIDE DEF W
<1>3. /\ DOMAIN W.tables = {table.name} \cup DOMAIN V.tables
      /\ W.tables[table.name] = table.columns
      /\ \A N \in DOMAIN V.tables : N # table.name => W.tables[N] = V.tables[N]
  BY <1>2 DEF Put
<1>4. Grows(V, W)
  BY <1>2, <1>3 DEF Grows
<1>5. ASSUME Accepted(V, Creation(table)) PROVE ContentOK(b, W)
  <2>1. table.name \notin DOMAIN V.tables
    BY <1>5 DEF Accepted, Creation
  <2>2. IsFiniteSet(DOMAIN W.tables)
    <3>1. IsFiniteSet(DOMAIN V.tables)
      BY DEF ContentOK
    <3> QED BY <1>3, <3>1, FS_AddElement
  <2>3. ASSUME NEW N, Matches(b, V, N) PROVE Matches(b, W, N)
    <3>1. ListedSchema(W, N) = ListedSchema(V, N)
      BY <1>2 DEF ListedSchema
    <3>2. N \in DOMAIN V.tables /\ N # table.name
      BY <2>1, <2>3 DEF Matches
    <3> QED BY <1>3, <2>3, <3>1, <3>2 DEF Matches
  <2>4. \A key \in DOMAIN W.meta :
          key # StartTimeKey => key = TableKey(key[2]) /\ Matches(b, W, key[2])
    BY <1>2, <2>3 DEF ContentOK
  <2>5. \A row \in W.rows : row.table # Metadata /\ RowFits(b, row) => Recorded(W, row.table)
    BY <1>2 DEF ContentOK, Recorded
  <2> QED BY <1>2, <2>2, <2>4, <2>5 DEF ContentOK
<1> QED BY <1>2, <1>3, <1>4, <1>5 DEF EffectOK, W

(* An entry of the metadata: the start time, or the schema of a table that *)
(* has its columns.                                                        *)
LEMMA EntryIsOK ==
  ASSUME NEW b, NEW V, ContentOK(b, V), NEW key, NEW value,
         \/ key = StartTimeKey
         \/ /\ key = TableKey(key[2]) /\ key[2] \in DOMAIN V.tables
            /\ SchemaFromMeta(value).name = key[2]
            /\ DOMAIN SchemaFromMeta(value) = {"name", "fields"}
            /\ IsList(SchemaFromMeta(value).fields)
            /\ SchemaToSql(SchemaFromMeta(value), OmlToType(b)).columns = V.tables[key[2]]
  PROVE  /\ EffectOK(b, V, Store(Metadata, key, value))
         /\ key \in DOMAIN Effect(V, Store(Metadata, key, value)).meta
<1> DEFINE W == Effect(V, Store(Metadata, key, value))
<1>0. Senders # Metadata
  BY DEF Senders, Metadata
<1>1. W = [V EXCEPT !.meta = Put(V.meta, key, value)]
  BY <1>0 DEF Effect, Store
<1>2. /\ DOMAIN W = DOMAIN V /\ W.tables = V.tables /\ W.rows = V.rows
      /\ W.meta = Put(V.meta, key, value)
  BY <1>1 DEF ContentOK
<1> HIDE DEF W
<1>3. /\ DOMAIN W.meta = {key} \cup DOMAIN V.meta
      /\ W.meta[key] = value
      /\ \A k \in DOMAIN V.meta : k # key => W.meta[k] = V.meta[k]
  BY <1>2 DEF Put
<1>4. Grows(V, W)
  BY <1>2, <1>3 DEF Grows
<1>5. ASSUME NEW k \in DOMAIN W.meta, k # StartTimeKey
      PROVE  k = TableKey(k[2]) /\ Matches(b, W, k[2])
  <2>1. CASE k = key
    <3>1. k = TableKey(k[2])
      BY <1>5, <2>1
    <3>2. ListedSchema(W, k[2]) = SchemaFromMeta(value)
      BY <1>3, <2>1, <3>1 DEF ListedSchema
    <3> QED BY <1>2, <1>5, <2>1, <3>1, <3>2 DEF Matches
  <2>2. CASE k # key
    <3>1. k \in DOMAIN V.meta
      BY <1>3, <2>2
    <3>2. k = TableKey(k[2]) /\ Matches(b, V, k[2])
      BY <1>5, <3>1 DEF ContentOK
    <3>3. ListedSchema(W, k[2]) = ListedSchema(V, k[2])
      BY <1>3, <2>2, <3>1, <3>2 DEF ListedSchema
    <3> QED BY <1>2, <3>2, <3>3 DEF Matches
  <2> QED BY <2>1, <2>2
<1>6. \A row \in W.rows : row.table # Metadata /\ RowFits(b, row) => Recorded(W, row.table)
  BY <1>2, <1>3 DEF ContentOK, Recorded
<1>7. ContentOK(b, W)
  BY <1>2, <1>5, <1>6 DEF ContentOK
<1> QED BY <1>3, <1>4, <1>7 DEF EffectOK, W

(* The identifier of a sender.                                             *)
LEMMA SenderIsOK ==
  ASSUME NEW b, NEW V, ContentOK(b, V), NEW key, NEW value
  PROVE  EffectOK(b, V, Store(Senders, key, value))
<1> DEFINE W == Effect(V, Store(Senders, key, value))
<1>0. Senders # Metadata
  BY DEF Senders, Metadata
<1>1. W = [V EXCEPT !.senders = Put(V.senders, key, value)]
  BY <1>0 DEF Effect, Store
<1>2. DOMAIN W = DOMAIN V /\ W.tables = V.tables /\ W.rows = V.rows /\ W.meta = V.meta
  BY <1>1 DEF ContentOK
<1> HIDE DEF W
<1>3. ContentOK(b, W)
  BY <1>2 DEF ContentOK, Matches, ListedSchema, Recorded
<1>4. Grows(V, W)
  BY <1>2 DEF Grows
<1> QED BY <1>3, <1>4 DEF EffectOK, W

(* A row, of a table that is recorded if its entry fits.                   *)
LEMMA RowIsOK ==
  ASSUME NEW b, NEW V, ContentOK(b, V), NEW row, NEW value,
         row.table # Metadata /\ RowFits(b, row) => Recorded(V, row.table)
  PROVE  /\ EffectOK(b, V, InsertRow(row, value))
         /\ row \in Effect(V, InsertRow(row, value)).rows
<1> DEFINE W == Effect(V, InsertRow(row, value))
<1>1. W = [V EXCEPT !.rows = V.rows \cup {row}]
  BY DEF Effect, InsertRow
<1>2. DOMAIN W = DOMAIN V /\ W.tables = V.tables /\ W.rows = V.rows \cup {row} /\ W.meta = V.meta
  BY <1>1 DEF ContentOK
<1> HIDE DEF W
<1>3. ContentOK(b, W)
  BY <1>2 DEF ContentOK, Matches, ListedSchema, Recorded
<1>4. Grows(V, W)
  BY <1>2 DEF Grows
<1> QED BY <1>2, <1>3, <1>4 DEF EffectOK, W


-----------------------------------------------------------------------------
(* Operations on a connection.                                             *)

Sql == {"sqlite", "postgresql"}

(* What cannot be undone is in all that is committed or seen later.        *)
LEMMA SafeGrows ==
  ASSUME NEW b, NEW c, ConnOK(b, c)
  PROVE  /\ Grows(Safe(b, c), c.view) /\ Grows(Safe(b, c), Committed(c))
         /\ c.txn # "aborted" => Grows(c.view, Committed(c))
         /\ \A d : Keeps(b, c, d) => Grows(Safe(b, c), Safe(b, d))
BY CommittedOK, GrowsOrder DEF Safe, Keeps, ConnOK

(* All that matters is that what was to be committed is.                   *)
LEMMA KeepsCommitted ==
  ASSUME NEW b, NEW c, ConnOK(b, c), NEW d, ConnOK(b, d), Grows(Committed(c), d.disk),
         c.prepared \subseteq d.prepared, c.link = -1 <=> d.link = -1, c.link = 0 => d.link = 0
  PROVE  Keeps(b, c, d)
<1>1. Grows(c.disk, d.disk)
  BY CommittedOK, GrowsOrder
<1>2. c.txn # "aborted" => Grows(c.view, d.view)
  BY CommittedOK, GrowsOrder DEF ConnOK
<1> QED BY <1>1, <1>2 DEF Keeps

(* Ending the transaction and beginning another.                           *)
LEMMA ReopenDoes ==
  ASSUME NEW b, NEW c, ConnOK(b, c)
  PROVE  LET r == Reopen(b, Start(c)) IN
         /\ ResultOK(b, r) /\ Keeps(b, c, r.c) /\ r.c.prepared = c.prepared
         /\ r.ok => r.c.disk = Committed(c) /\ r.c.view = Committed(c) /\ r.c.txn = "open"
         /\ ~r.ok /\ (c.txn # "none" \/ b = "postgresql") => r.c.link = 0
         /\ c.link # 0 => Grows(Committed(c), r.c.disk)
<1> DEFINE q == Exec(b, Start(c), End)
           r == Exec(b, q, Begin)
<1>0. Reopen(b, Start(c)) = r
  BY DEF Reopen
<1>1. /\ ResultOK(b, q) /\ Keeps(b, c, q.c) /\ q.c.prepared = c.prepared
      /\ c.link = 0 => ~q.ok /\ q.c = c
      /\ c.link # 0 => /\ q.c.disk = Committed(c) /\ q.c.view = Committed(c) /\ q.c.txn = "none"
                       /\ c.txn # "none" \/ b = "postgresql" => q.ok
  BY EndDoes
<1>2. CASE ~q.ok
  <2>1. r = q
    BY <1>1, <1>2, Successes
  <2>2. (c.txn # "none" \/ b = "postgresql") => q.c.link = 0
    BY <1>1, <1>2
  <2> HIDE DEF q, r
  <2> QED BY <1>0, <1>1, <1>2, <2>1, <2>2, GrowsOrder
<1>3. CASE q.ok
  <2>1. q = Start(q.c) /\ ConnOK(b, q.c)
    BY <1>1, <1>3, Successes DEF ResultOK
  <2>2. /\ ResultOK(b, r) /\ Keeps(b, q.c, r.c) /\ r.c.prepared = q.c.prepared
        /\ r.c.disk = q.c.disk /\ r.c.view = q.c.view
        /\ q.c.link = 0 => ~r.ok /\ r.c = q.c
        /\ q.c.link # 0 => r.ok /\ r.c.txn = "open"
    <3> HIDE DEF q
    <3>1. r = Exec(b, Start(q.c), Begin)
      BY <2>1
    <3> HIDE DEF r
    <3> QED BY <2>1, <3>1, BeginDoes
  <2> HIDE DEF q, r
  <2>3. r.c.disk = Committed(c) /\ r.c.view = Committed(c)
    BY <1>1, <1>3, <2>2
  <2>4. Keeps(b, c, r.c)
    <3>1. (c.link = -1 <=> r.c.link = -1) /\ (c.link = 0 => r.c.link = 0)
      BY <1>1, <2>2 DEF Keeps
    <3> QED BY <1>1, <2>2, <2>3, <3>1, KeepsCommitted, GrowsOrder DEF ResultOK
  <2>5. ~r.ok => r.c.link = 0
    BY <2>2
  <2> QED BY <1>0, <1>1, <2>2, <2>3, <2>4, <2>5, GrowsOrder
<1> QED BY <1>2, <1>3

(* PostgreSQL commits what there is; that it does not know the statement   *)
(* undoes nothing that was there before.                                   *)
LEMMA PsqlPrepareDoes ==
  ASSUME NEW c, ConnOK("postgresql", c), NEW name, NEW r, r = PsqlPrepare(Start(c), name)
  PROVE  /\ ResultOK("postgresql", r) /\ Keeps("postgresql", c, r.c)
         /\ r.ok => /\ name \in r.c.prepared /\ r.c.txn = "open"
                    /\ r.c.disk = Committed(c) /\ r.c.view = Committed(c)
         /\ ~r.ok /\ name \in DOMAIN Committed(c).tables => r.c.link = 0
<1> DEFINE b == "postgresql"
<1>0. PICK q : q = Reopen(b, Start(c))
  OBVIOUS
<1>1. /\ ResultOK(b, q) /\ Keeps(b, c, q.c) /\ q.c.prepared = c.prepared
      /\ q.ok => q.c.disk = Committed(c) /\ q.c.view = Committed(c) /\ q.c.txn = "open"
      /\ ~q.ok => q.c.link = 0
      /\ c.link # 0 => Grows(Committed(c), q.c.disk)
  BY <1>0, ReopenDoes
<1>2. PICK v : v = Reopen(b, Unaware(q))
  OBVIOUS
<1>3. PICK w : w = Exec(b, v, PrepareInsert(name))
  OBVIOUS
<1>4. r = IF q.ok /\ q.c.link # 0 /\ name \in q.c.prepared THEN [q EXCEPT !.c = Carry(q.c)]
          ELSE Prepared(w, name)
  BY <1>0, <1>2, <1>3 DEF PsqlPrepare
<1>5. ConnOK(b, q.c)
  BY <1>1 DEF ResultOK
<1>6. CASE ~q.ok
  <2>1. Unaware(q) = q
    BY <1>6 DEF Unaware
  <2>2. v = q
    BY <1>1, <1>2, <1>6, <2>1, Successes DEF Reopen
  <2>3. w = q
    BY <1>1, <1>3, <1>6, <2>2, Successes
  <2>4. r = q
    BY <1>4, <1>6, <2>3 DEF Prepared
  <2> QED BY <1>1, <1>6, <2>4
<1>7. CASE q.ok /\ q.c.link # 0 /\ name \in q.c.prepared
  <2>1. r = [q EXCEPT !.c = Carry(q.c)]
    BY <1>4, <1>7
  <2>2. r.c = Carry(q.c) /\ r.ok = q.ok /\ r = [c |-> r.c, ok |-> r.ok]
    BY <1>1, <2>1 DEF ResultOK
  <2>3. /\ ConnOK(b, r.c) /\ r.c.txn = "open" /\ r.c.prepared = c.prepared
        /\ r.c.disk = Committed(c) /\ r.c.view = Committed(c)
    BY <1>1, <1>5, <1>7, <2>2, CarryKeeps, CarryFields
  <2>4. (c.link = -1 <=> r.c.link = -1) /\ (c.link = 0 => r.c.link = 0)
    BY <1>1, <1>5, <2>2, CarryKeeps DEF Keeps
  <2>5. Keeps(b, c, r.c)
    BY <2>3, <2>4, KeepsCommitted, GrowsOrder
  <2> QED BY <1>1, <1>7, <2>2, <2>3, <2>5 DEF ResultOK
<1>8. CASE q.ok /\ q.c.link = 0
  <2>1. Unaware(q) = q
    BY <1>8 DEF Unaware
  <2>2. q = Start(q.c)
    BY <1>1, <1>8, Successes
  <2>3. v = Reopen(b, Start(q.c))
    BY <1>2, <2>1, <2>2
  <2>4. Exec(b, Start(q.c), End) = [Start(q.c) EXCEPT !.ok = FALSE]
    BY <1>8 DEF Exec, Start, End
  <2>5. ~v.ok
    <3>1. PICK e : e = Exec(b, Start(q.c), End)
      OBVIOUS
    <3>2. ~e.ok
      BY <2>4, <3>1 DEF Start
    <3>3. v = Exec(b, e, Begin)
      BY <2>3, <3>1 DEF Reopen
    <3> QED BY <3>2, <3>3 DEF Exec
  <2>6. ResultOK(b, v) /\ Keeps(b, q.c, v.c) /\ v.c.prepared = q.c.prepared
    BY <1>5, <2>3, ReopenDoes
  <2>7. w = v
    BY <1>3, <2>5, <2>6, Successes
  <2>8. r = v
    BY <1>4, <1>8, <2>5, <2>7 DEF Prepared
  <2>9. Grows(Committed(c), v.c.disk)
    BY <1>1, <1>8, <2>6, GrowsOrder DEF Keeps
  <2>10. (c.link = -1 <=> v.c.link = -1) /\ (c.link = 0 => v.c.link = 0) /\ v.c.link = 0
    BY <1>1, <1>8, <2>6 DEF Keeps
  <2>11. Keeps(b, c, v.c)
    BY <1>1, <2>6, <2>9, <2>10, KeepsCommitted DEF ResultOK
  <2> QED BY <2>5, <2>6, <2>8, <2>10, <2>11
<1>9. CASE q.ok /\ q.c.link # 0 /\ name \notin q.c.prepared
  <2>0. PICK u : u = [Carry(q.c) EXCEPT !.txn = "aborted"]
    OBVIOUS
  <2>1. Unaware(q) = Start(u)
    BY <1>1, <1>9, <2>0 DEF ResultOK, Start, Unaware
  <2>2. DOMAIN Carry(q.c) = DOMAIN q.c
    BY <1>5, CarryKeeps DEF ConnOK
  <2>3. /\ DOMAIN u = DOMAIN q.c /\ u.txn = "aborted" /\ u.disk = q.c.disk /\ u.view = q.c.view
        /\ u.prepared = q.c.prepared /\ u.link = Carry(q.c).link
    BY <1>5, <2>0, <2>2, CarryFields DEF ConnOK
  <2>4. ConnOK(b, u)
    BY <1>5, <2>2, <2>3, CarryKeeps DEF ConnOK
  <2>5. Committed(u) = Committed(c) /\ u.disk = Committed(c)
    BY <1>1, <1>9, <2>3 DEF Committed
  <2>6. (c.link = -1 <=> u.link = -1) /\ (c.link = 0 => u.link = 0)
    BY <1>1, <1>5, <2>3, CarryKeeps DEF Keeps
  <2>7. v = Reopen(b, Start(u))
    BY <1>2, <2>1
  <2>8. /\ ResultOK(b, v) /\ Keeps(b, u, v.c) /\ v.c.prepared = c.prepared
        /\ v.ok => v.c.disk = Committed(c) /\ v.c.view = Committed(c) /\ v.c.txn = "open"
        /\ ~v.ok => v.c.link = 0
    BY <1>1, <2>3, <2>4, <2>5, <2>7, ReopenDoes
  <2>9. Grows(Committed(c), v.c.disk)
    BY <2>5, <2>8 DEF Keeps
  <2>10. (c.link = -1 <=> v.c.link = -1) /\ (c.link = 0 => v.c.link = 0)
    BY <2>6, <2>8 DEF Keeps
  <2>11. Keeps(b, c, v.c)
    BY <2>8, <2>9, <2>10, KeepsCommitted DEF ResultOK
  <2>12. r = Prepared(w, name)
    BY <1>4, <1>9
  <2>13. CASE ~v.ok
    <3>1. w = v
      BY <1>3, <2>8, <2>13, Successes
    <3>2. r = v
      BY <2>12, <2>13, <3>1 DEF Prepared
    <3> QED BY <2>8, <2>11, <2>13, <3>2
  <2>14. CASE v.ok
    <3>1. v = Start(v.c) /\ ConnOK(b, v.c)
      BY <2>8, <2>14, Successes DEF ResultOK
    <3>2. EffectOK(b, v.c.view, PrepareInsert(name)) /\ Effect(v.c.view, PrepareInsert(name)) = v.c.view
      BY <3>1, QueriesAreOK DEF ConnOK
    <3>3. PrepareInsert(name).op \notin {"END", "BEGIN"}
      BY DEF PrepareInsert
    <3>4. w = Exec(b, Start(v.c), PrepareInsert(name))
      BY <1>3, <3>1
    <3>5. /\ ResultOK(b, w) /\ Keeps(b, v.c, w.c) /\ w.c.prepared = v.c.prepared
          /\ w.c.disk = v.c.disk
          /\ w.ok => w.c.view = v.c.view /\ w.c.txn = v.c.txn
          /\ ~w.ok => v.c.link = 0 \/ v.c.txn = "aborted" \/ ~Accepted(v.c.view, PrepareInsert(name))
      BY <3>1, <3>2, <3>3, <3>4, StatementDoes
    <3>6. Accepted(v.c.view, PrepareInsert(name)) <=> (name \in DOMAIN Committed(c).tables)
      BY <2>8, <2>14 DEF Accepted, PrepareInsert
    <3>7. (c.link = -1 <=> w.c.link = -1) /\ (c.link = 0 => w.c.link = 0)
      BY <2>10, <3>5 DEF Keeps
    <3>8. Grows(Committed(c), w.c.disk)
      BY <2>9, <3>5
    <3>9. CASE ~w.ok
      <4>1. r = w
        BY <2>12, <3>9 DEF Prepared
      <4>2. Keeps(b, c, w.c)
        BY <2>8, <3>5, <3>7, <3>8, KeepsCommitted DEF ResultOK
      <4>3. name \in DOMAIN Committed(c).tables => w.c.link = 0
        BY <2>8, <2>14, <3>5, <3>6, <3>9 DEF Keeps
      <4> QED BY <3>5, <3>9, <4>1, <4>2, <4>3
    <3>10. CASE w.ok
      <4>0. PICK x : x = [w.c EXCEPT !.prepared = w.c.prepared \cup {name}]
        OBVIOUS
      <4>1. r = [w EXCEPT !.c = x]
        <5>1. r = [w EXCEPT !.c = [w.c EXCEPT !.prepared = w.c.prepared \cup {name}]]
          BY <2>12, <3>10 DEF Prepared
        <5> QED BY <4>0, <5>1
      <4>2. r.c = x /\ r.ok = w.ok /\ r = [c |-> r.c, ok |-> r.ok]
        BY <3>5, <4>1 DEF ResultOK
      <4>3. /\ DOMAIN x = DOMAIN w.c /\ x.prepared = w.c.prepared \cup {name} /\ x.txn = w.c.txn
            /\ x.disk = w.c.disk /\ x.view = w.c.view /\ x.link = w.c.link
        BY <3>5, <4>0 DEF ResultOK, ConnOK
      <4>4. ConnOK(b, x)
        BY <3>5, <4>3 DEF ResultOK, ConnOK
      <4>5. Keeps(b, c, x)
        <5>1. c.prepared \subseteq x.prepared
          BY <2>8, <3>5, <4>3
        <5> QED BY <3>7, <3>8, <4>3, <4>4, <5>1, KeepsCommitted
      <4>6. x.txn = "open" /\ x.disk = Committed(c) /\ x.view = Committed(c) /\ name \in x.prepared
        BY <2>8, <2>14, <3>5, <3>10, <4>3
      <4> QED BY <3>10, <4>2, <4>4, <4>5, <4>6 DEF ResultOK
    <3> QED BY <3>9, <3>10
  <2> QED BY <2>13, <2>14
<1> QED BY <1>6, <1>7, <1>8, <1>9


(* SQLite prepares the statement of any table that there is.               *)
LEMMA Sq3PrepareDoes ==
  ASSUME NEW c, ConnOK("sqlite", c), NEW name, NEW r, r = Sq3Prepare(Start(c), name)
  PROVE  /\ ResultOK("sqlite", r) /\ Keeps("sqlite", c, r.c)
         /\ r.ok => name \in r.c.prepared
         /\ r.c.txn = c.txn /\ r.c.view = c.view /\ r.c.disk = c.disk
         /\ ~r.ok => name \notin DOMAIN c.view.tables
<1> DEFINE b == "sqlite"
<1>1. PICK w : w = Exec(b, Start(c), PrepareInsert(name))
  OBVIOUS
<1>2. EffectOK(b, c.view, PrepareInsert(name)) /\ Effect(c.view, PrepareInsert(name)) = c.view
  BY QueriesAreOK DEF ConnOK
<1>3. PrepareInsert(name).op \notin {"END", "BEGIN"}
  BY DEF PrepareInsert
<1>4. /\ ResultOK(b, w) /\ Keeps(b, c, w.c) /\ w.c.prepared = c.prepared
      /\ w.c.disk = c.disk
      /\ w.ok => w.c.view = Effect(c.view, PrepareInsert(name)) /\ w.c.txn = c.txn
      /\ ~w.ok => /\ w.c.view = c.view
                  /\ c.link = 0 \/ c.txn = "aborted" \/ ~Accepted(c.view, PrepareInsert(name))
                  /\ b # "postgresql" => w.c.txn = c.txn
  BY <1>1, <1>2, <1>3, StatementDoes
<1>5. c.link = -1 /\ c.txn # "aborted"
  BY DEF ConnOK
<1>6. Accepted(c.view, PrepareInsert(name)) <=> (name \in DOMAIN c.view.tables)
  BY DEF Accepted, PrepareInsert
<1>7. r = Prepared(w, name)
  BY <1>1 DEF Sq3Prepare
<1>8. CASE ~w.ok
  <2>1. r = w
    BY <1>7, <1>8 DEF Prepared
  <2> QED BY <1>4, <1>5, <1>6, <1>8, <2>1
<1>9. CASE w.ok
  <2>0. PICK x : x = [w.c EXCEPT !.prepared = w.c.prepared \cup {name}]
    OBVIOUS
  <2>1. r = [w EXCEPT !.c = x]
    BY <1>7, <1>9, <2>0 DEF Prepared
  <2>2. r.c = x /\ r.ok = w.ok /\ r = [c |-> r.c, ok |-> r.ok]
    BY <1>4, <2>1 DEF ResultOK
  <2>3. /\ DOMAIN x = DOMAIN w.c /\ x.prepared = w.c.prepared \cup {name} /\ x.txn = w.c.txn
        /\ x.disk = w.c.disk /\ x.view = w.c.view /\ x.link = w.c.link
    BY <1>4, <2>0 DEF ResultOK, ConnOK
  <2>4. ConnOK(b, x)
    BY <1>4, <2>3 DEF ResultOK, ConnOK
  <2>5. Keeps(b, c, x)
    BY <1>4, <2>3, <2>4 DEF Keeps
  <2> QED BY <1>2, <1>4, <1>9, <2>2, <2>3, <2>4, <2>5 DEF ResultOK
<1> QED BY <1>8, <1>9

(* The INSERT statement of a table: what was to be committed is, and it is *)
(* there unless the table is not, or the link has broken.                  *)
LEMMA PrepareDoes ==
  ASSUME NEW b \in Sql, NEW c, ConnOK(b, c), NEW name, NEW r, r = Prepare(b, Start(c), name)
  PROVE  /\ ResultOK(b, r) /\ Keeps(b, c, r.c)
         /\ r.ok => /\ name \in r.c.prepared /\ r.c.txn # "aborted"
                    /\ r.c.view = Committed(c) /\ Safe(b, r.c) = r.c.view
         /\ ~r.ok /\ name \in DOMAIN Committed(c).tables => r.c.link = 0
<1>1. CASE b = "postgresql"
  <2>1. r = PsqlPrepare(Start(c), name)
    BY <1>1 DEF Prepare
  <2> QED BY <1>1, <2>1, PsqlPrepareDoes DEF Safe
<1>2. CASE b = "sqlite"
  <2>1. r = Sq3Prepare(Start(c), name)
    BY <1>2 DEF Prepare
  <2>2. c.txn # "aborted" /\ Committed(c) = c.view
    BY <1>2 DEF ConnOK, Committed
  <2> QED BY <1>2, <2>1, <2>2, Sq3PrepareDoes DEF Safe
<1> QED BY <1>1, <1>2 DEF Sql

(* The pairs of the metadata and of the senders.                           *)
LEMMA SetKeyValueDoes ==
  ASSUME NEW b, NEW c, ConnOK(b, c), NEW table, NEW key, NEW value,
         EffectOK(b, c.view, Store(table, key, value)),
         NEW d, d = SetKeyValue(b, c, table, key, value)
  PROVE  /\ Keeps(b, c, d) /\ Grows(c.view, d.view) /\ d.disk = c.disk
         /\ d.prepared = c.prepared
         /\ c.txn # "aborted" /\ table \in DOMAIN c.view.tables =>
              \/ d.link = 0
              \/ /\ d.txn = c.txn
                 /\ Fits(b, table, key, value) => d.view = Effect(c.view, Store(table, key, value))
<1>1. PICK q : q = Exec(b, Start(c), Select(table))
  OBVIOUS
<1>2. PICK r : r = Exec(b, q, Store(table, key, value))
  OBVIOUS
<1>3. d = IF Fits(b, table, key, value) THEN r.c ELSE q.c
  BY <1>1, <1>2 DEF SetKeyValue
<1>4. EffectOK(b, c.view, Select(table)) /\ Effect(c.view, Select(table)) = c.view
  BY QueriesAreOK DEF ConnOK
<1>5. Select(table).op \notin {"END", "BEGIN"} /\ Store(table, key, value).op \notin {"END", "BEGIN"}
  BY DEF Select, Store
<1>6. /\ ResultOK(b, q) /\ Keeps(b, c, q.c) /\ q.c.prepared = c.prepared
      /\ q.c.disk = c.disk
      /\ q.ok => q.c.view = c.view /\ q.c.txn = c.txn
      /\ ~q.ok => /\ q.c.view = c.view
                  /\ c.link = 0 \/ c.txn = "aborted" \/ ~Accepted(c.view, Select(table))
  BY <1>1, <1>4, <1>5, StatementDoes
<1>7. Accepted(c.view, Select(table)) <=> (table \in DOMAIN c.view.tables)
  BY DEF Accepted, Select
<1>8. Accepted(c.view, Store(table, key, value)) <=> (table \in DOMAIN c.view.tables)
  BY DEF Accepted, Store
<1>9. CASE ~q.ok
  <2>1. r = q
    BY <1>2, <1>6, <1>9, Successes
  <2>2. d = q.c
    BY <1>3, <2>1
  <2> QED BY <1>6, <1>7, <1>9, <2>2, GrowsOrder DEF Keeps
<1>10. CASE q.ok
  <2>1. q = Start(q.c) /\ ConnOK(b, q.c) /\ EffectOK(b, q.c.view, Store(table, key, value))
    BY <1>6, <1>10, Successes DEF ResultOK
  <2>2. r = Exec(b, Start(q.c), Store(table, key, value))
    BY <1>2, <2>1
  <2>3. /\ ResultOK(b, r) /\ Keeps(b, q.c, r.c) /\ r.c.prepared = q.c.prepared
        /\ r.c.disk = q.c.disk /\ Grows(q.c.view, r.c.view)
        /\ r.ok => r.c.view = Effect(q.c.view, Store(table, key, value)) /\ r.c.txn = q.c.txn
        /\ ~r.ok => q.c.link = 0 \/ q.c.txn = "aborted" \/ ~Accepted(q.c.view, Store(table, key, value))
    BY <1>5, <2>1, <2>2, StatementDoes
  <2>4. Keeps(b, c, r.c)
    <3>1. (c.link = -1 <=> r.c.link = -1) /\ (c.link = 0 => r.c.link = 0)
      BY <1>6, <2>3 DEF Keeps
    <3>2. Grows(c.disk, r.c.disk) /\ Grows(c.view, r.c.view)
      BY <1>6, <1>10, <2>3, GrowsOrder
    <3> QED BY <1>6, <2>3, <3>1, <3>2 DEF Keeps, ResultOK
  <2>5. Grows(c.view, r.c.view) /\ r.c.disk = c.disk /\ r.c.prepared = c.prepared
    BY <1>6, <1>10, <2>3
  <2>6. ASSUME c.txn # "aborted", table \in DOMAIN c.view.tables, r.c.link # 0
        PROVE  r.c.view = Effect(c.view, Store(table, key, value)) /\ r.c.txn = c.txn
    <3>1. q.c.link # 0
      BY <2>3, <2>6 DEF Keeps
    <3>2. r.ok
      BY <1>6, <1>8, <1>10, <2>3, <2>6, <3>1
    <3> QED BY <1>6, <1>10, <2>3, <3>2
  <2>7. CASE Fits(b, table, key, value)
    BY <1>3, <2>4, <2>5, <2>6, <2>7
  <2>8. CASE ~Fits(b, table, key, value)
    <3>1. d = q.c
      BY <1>3, <2>8
    <3> QED BY <1>6, <1>10, <2>8, <3>1, GrowsOrder
  <2> QED BY <2>7, <2>8
<1> QED BY <1>9, <1>10


-----------------------------------------------------------------------------
(* Tables.                                                                 *)

(* dba_table_create_from_schema: nothing is committed, and on success the  *)
(* table is there.                                                         *)
LEMMA CreateDoes ==
  ASSUME NEW b, NEW c, ConnOK(b, c), NEW schema, NEW r, r = CreateFromSchema(b, c, schema)
  PROVE  /\ ResultOK(b, r) /\ Keeps(b, c, r.c) /\ r.c.disk = c.disk /\ r.c.prepared = c.prepared
         /\ r.ok => /\ r.c.txn = c.txn /\ c.txn # "aborted" /\ Grows(c.view, r.c.view)
                    /\ schema.name \in DOMAIN r.c.view.tables
                    /\ r.c.view.tables[schema.name] = SchemaToSql(schema, OmlToType(b)).columns
<1>1. PICK table : table = SchemaToSql(schema, OmlToType(b))
  OBVIOUS
<1>2. table.name = schema.name
  BY <1>1 DEF SchemaToSql
<1>3. r = Exec(b, Start(c), Creation(table))
  BY <1>1 DEF CreateFromSchema, Creation
<1>4. Creation(table).op \notin {"END", "BEGIN"}
  BY DEF Creation
<1>5. /\ EffectOK(b, c.view, Creation(table))
      /\ table.name \in DOMAIN Effect(c.view, Creation(table)).tables
      /\ Effect(c.view, Creation(table)).tables[table.name] = table.columns
  <2>1. ContentOK(b, c.view)
    BY DEF ConnOK
  <2> QED BY <2>1, CreationIsOK
<1>6. /\ ResultOK(b, r) /\ Keeps(b, c, r.c) /\ r.c.prepared = c.prepared
      /\ r.c.disk = c.disk /\ Grows(c.view, r.c.view)
      /\ r.ok => r.c.view = Effect(c.view, Creation(table)) /\ r.c.txn = c.txn /\ c.txn # "aborted"
  BY <1>3, <1>4, <1>5, StatementDoes
<1> QED BY <1>1, <1>2, <1>5, <1>6

(* The entry of the metadata for a table that has the schema's columns.    *)
LEMMA DescribedDoes ==
  ASSUME NEW b, NEW r, ResultOK(b, r), NEW schema, IsSchema(schema), HasSql(schema, OmlToType(b)),
         schema.name \in DOMAIN r.c.view.tables,
         r.c.view.tables[schema.name] = SchemaToSql(schema, OmlToType(b)).columns,
         NEW s, s = Described(b, r, schema)
  PROVE  /\ ResultOK(b, s) /\ s.ok = r.ok /\ Keeps(b, r.c, s.c) /\ Grows(r.c.view, s.c.view)
         /\ s.c.disk = r.c.disk /\ s.c.prepared = r.c.prepared
         /\ r.c.txn # "aborted" /\ Metadata \in DOMAIN r.c.view.tables =>
              \/ s.c.link = 0
              \/ s.c.txn = r.c.txn /\ (EntryFits(b, schema) => Recorded(s.c.view, schema.name))
<1>1. PICK key, value : key = TableKey(schema.name) /\ value = SchemaToMeta(schema)
  OBVIOUS
<1>2. key = TableKey(key[2]) /\ key[2] = schema.name
  BY <1>1 DEF TableKey
<1>3. /\ SchemaFromMeta(value).name = key[2]
      /\ DOMAIN SchemaFromMeta(value) = {"name", "fields"}
      /\ IsList(SchemaFromMeta(value).fields)
      /\ SchemaToSql(SchemaFromMeta(value), OmlToType(b)).columns = r.c.view.tables[key[2]]
  BY <1>1, <1>2, MetadataAreRead
<1>4. ConnOK(b, r.c) /\ ContentOK(b, r.c.view)
  BY DEF ResultOK, ConnOK
<1>5. /\ EffectOK(b, r.c.view, Store(Metadata, key, value))
      /\ key \in DOMAIN Effect(r.c.view, Store(Metadata, key, value)).meta
  BY <1>2, <1>3, <1>4, EntryIsOK
<1>6. PICK d : d = SetKeyValue(b, r.c, Metadata, key, value)
  OBVIOUS
<1>7. /\ Keeps(b, r.c, d) /\ Grows(r.c.view, d.view) /\ d.disk = r.c.disk
      /\ d.prepared = r.c.prepared
      /\ r.c.txn # "aborted" /\ Metadata \in DOMAIN r.c.view.tables =>
           \/ d.link = 0
           \/ /\ d.txn = r.c.txn
              /\ Fits(b, Metadata, key, value) =>
                   d.view = Effect(r.c.view, Store(Metadata, key, value))
  BY <1>4, <1>5, <1>6, SetKeyValueDoes
<1>8. s = [r EXCEPT !.c = d]
  BY <1>1, <1>6 DEF Described, SetMetadata
<1>9. s.c = d /\ s.ok = r.ok /\ s = [c |-> s.c, ok |-> s.ok]
  BY <1>8 DEF ResultOK
<1>10. ResultOK(b, s)
  BY <1>7, <1>9 DEF ResultOK, Keeps
<1>11. EntryFits(b, schema) <=> Fits(b, Metadata, key, value)
  BY <1>1 DEF EntryFits
<1> QED BY <1>1, <1>5, <1>7, <1>9, <1>10, <1>11 DEF Recorded

(* What is kept by two operations in turn is kept by both.                 *)
LEMMA KeepsOrder ==
  ASSUME NEW b, NEW c, NEW d, NEW e, Keeps(b, c, d), Keeps(b, d, e),
         c.txn # "aborted" => d.txn # "aborted" \/ Grows(d.view, e.view)
  PROVE  Keeps(b, c, e)
BY GrowsOrder DEF Keeps

(* A table that is not complete is left behind by a broken link only; one  *)
(* that is, is recorded where nothing undoes it.                           *)
LEMMA TableCreateDoes ==
  ASSUME NEW b \in Sql, NEW c, ConnOK(b, c), NEW schema, IsSchema(schema),
         Metadata \in DOMAIN Safe(b, c).tables,
         NEW r, r = TableCreate(b, c, schema)
  PROVE  /\ Keeps(b, c, r.c)
         /\ r.made \in {"nothing", "inner", "outer", "both"}
         /\ r.made \in {"inner", "outer"} => r.c.link = 0
         /\ r.made = "both" => /\ schema.name \in r.c.prepared
                               /\ r.c.link # 0 /\ EntryFits(b, schema) =>
                                    Recorded(Safe(b, r.c), schema.name)
<1>0. PICK name : name = schema.name
  OBVIOUS
<1>1. PICK create : create = CreateFromSchema(b, c, schema)
  OBVIOUS
<1>2. PICK inner : inner = IF create.ok THEN Prepare(b, create, schema.name) ELSE create
  OBVIOUS
<1>3. PICK entry : entry = Described(b, inner, schema)
  OBVIOUS
<1>4. PICK outer : outer = IF inner.ok THEN Prepare(b, entry, schema.name) ELSE inner
  OBVIOUS
<1>5. r = IF ~HasSql(schema, OmlToType(b)) THEN [c |-> c, made |-> "nothing"]
          ELSE Outcome(create, inner, outer)
  BY <1>1, <1>2, <1>3, <1>4 DEF TableCreate
<1>6. CASE ~HasSql(schema, OmlToType(b))
  BY <1>5, <1>6, KeepsAll
<1>7. CASE HasSql(schema, OmlToType(b))
  <2>1. /\ ResultOK(b, create) /\ Keeps(b, c, create.c)
        /\ create.ok => /\ create.c.txn = c.txn /\ c.txn # "aborted" /\ Grows(c.view, create.c.view)
                        /\ name \in DOMAIN create.c.view.tables
                        /\ create.c.view.tables[name] = SchemaToSql(schema, OmlToType(b)).columns
    BY <1>0, <1>1, CreateDoes
  <2>2. CASE ~create.ok
    <3>1. r = [c |-> create.c, made |-> "nothing"]
      BY <1>5, <1>7, <2>2 DEF Outcome
    <3> QED BY <2>1, <3>1
  <2>3. CASE create.ok
    <3>1. create = Start(create.c) /\ ConnOK(b, create.c)
      BY <2>1, <2>3, Successes DEF ResultOK
    <3>2. inner = Prepare(b, Start(create.c), name)
      BY <1>0, <1>2, <2>3, <3>1
    <3>3. Committed(create.c) = create.c.view
      BY <2>1, <2>3 DEF Committed
    <3>4. /\ ResultOK(b, inner) /\ Keeps(b, create.c, inner.c)
          /\ inner.ok => /\ name \in inner.c.prepared /\ inner.c.txn # "aborted"
                         /\ inner.c.view = create.c.view /\ Safe(b, inner.c) = inner.c.view
          /\ ~inner.ok => inner.c.link = 0
      BY <2>1, <2>3, <3>1, <3>2, <3>3, PrepareDoes
    <3>5. Keeps(b, c, inner.c)
      BY <2>1, <2>3, <3>4, KeepsOrder
    <3>6. CASE ~inner.ok
      <4>1. r = [c |-> inner.c, made |-> "inner"]
        BY <1>5, <1>7, <2>3, <3>6 DEF Outcome
      <4> QED BY <3>4, <3>5, <3>6, <4>1
    <3>7. CASE inner.ok
      <4>1. Metadata \in DOMAIN inner.c.view.tables
        <5>1. Grows(Safe(b, c), inner.c.view)
          BY <3>4, <3>5, <3>7, SafeGrows
        <5> QED BY <5>1 DEF Grows
      <4>2. /\ ResultOK(b, entry) /\ entry.ok = inner.ok /\ Keeps(b, inner.c, entry.c)
            /\ Grows(inner.c.view, entry.c.view) /\ entry.c.prepared = inner.c.prepared
            /\ \/ entry.c.link = 0
               \/ entry.c.txn = inner.c.txn /\ (EntryFits(b, schema) => Recorded(entry.c.view, name))
        <5>1. schema.name \in DOMAIN inner.c.view.tables
              /\ inner.c.view.tables[schema.name] = SchemaToSql(schema, OmlToType(b)).columns
          BY <1>0, <2>1, <2>3, <3>4, <3>7
        <5>2. /\ ResultOK(b, entry) /\ entry.ok = inner.ok /\ Keeps(b, inner.c, entry.c)
              /\ Grows(inner.c.view, entry.c.view) /\ entry.c.prepared = inner.c.prepared
              /\ \/ entry.c.link = 0
                 \/ /\ entry.c.txn = inner.c.txn
                    /\ EntryFits(b, schema) => Recorded(entry.c.view, schema.name)
          <6>1. ResultOK(b, inner) /\ inner.c.txn # "aborted"
            BY <3>4, <3>7
          <6> QED BY <1>3, <1>7, <4>1, <5>1, <6>1, DescribedDoes
        <5> QED BY <1>0, <5>2
      <4>3. entry = Start(entry.c) /\ ConnOK(b, entry.c)
        BY <3>7, <4>2, Successes DEF ResultOK
      <4>4. outer = Prepare(b, Start(entry.c), name)
        BY <1>0, <1>4, <3>7, <4>3
      <4>5. /\ ResultOK(b, outer) /\ Keeps(b, entry.c, outer.c)
            /\ outer.ok => /\ name \in outer.c.prepared /\ outer.c.txn # "aborted"
                           /\ outer.c.view = Committed(entry.c) /\ Safe(b, outer.c) = outer.c.view
            /\ ~outer.ok /\ name \in DOMAIN Committed(entry.c).tables => outer.c.link = 0
        BY <4>3, <4>4, PrepareDoes
      <4>6. Grows(inner.c.view, Committed(entry.c))
        <5>1. Grows(Safe(b, inner.c), Safe(b, entry.c)) /\ Grows(Safe(b, entry.c), Committed(entry.c))
          BY <3>4, <4>2, <4>3, SafeGrows DEF ResultOK
        <5> QED BY <3>4, <3>7, <5>1, GrowsOrder
      <4>7. Keeps(b, c, outer.c)
        <5>1. Keeps(b, c, entry.c)
          BY <3>4, <3>5, <3>7, <4>2, KeepsOrder
        <5>2. ASSUME c.txn # "aborted" PROVE Grows(c.view, outer.c.view)
          <6>1. Grows(c.view, inner.c.view)
            BY <3>5, <5>2 DEF Keeps
          <6>2. CASE entry.c.txn = "aborted"
            <7>1. Grows(Committed(entry.c), outer.c.view)
              <8>1. Committed(entry.c) = entry.c.disk /\ Grows(entry.c.disk, outer.c.disk)
                BY <4>5, <6>2 DEF Committed, Keeps
              <8> QED BY <4>5, <8>1, GrowsOrder DEF ResultOK, ConnOK
            <7> QED BY <4>6, <6>1, <7>1, GrowsOrder
          <6>3. CASE entry.c.txn # "aborted"
            <7>1. Grows(entry.c.view, outer.c.view)
              BY <4>5, <6>3 DEF Keeps
            <7> QED BY <4>2, <6>1, <7>1, GrowsOrder
          <6> QED BY <6>2, <6>3
        <5> QED BY <4>5, <5>1, <5>2, GrowsOrder DEF Keeps
      <4>8. CASE ~outer.ok
        <5>1. r = [c |-> outer.c, made |-> "outer"]
          BY <1>5, <1>7, <2>3, <3>7, <4>8 DEF Outcome
        <5>2. name \in DOMAIN Committed(entry.c).tables
          BY <2>1, <2>3, <3>4, <3>7, <4>6 DEF Grows
        <5> QED BY <4>5, <4>7, <4>8, <5>1, <5>2
      <4>9. CASE outer.ok
        <5>1. r = [c |-> outer.c, made |-> "both"]
          BY <1>5, <1>7, <2>3, <3>7, <4>9 DEF Outcome
        <5>2. ASSUME outer.c.link # 0, EntryFits(b, schema) PROVE Recorded(Safe(b, outer.c), name)
          <6>1. entry.c.link # 0
            BY <4>5, <5>2 DEF Keeps
          <6>2. Committed(entry.c) = entry.c.view
            BY <3>4, <3>7, <4>2, <6>1 DEF Committed
          <6> QED BY <4>2, <4>5, <4>9, <5>2, <6>1, <6>2
        <5> QED BY <1>0, <4>5, <4>7, <4>9, <5>1, <5>2
      <4> QED BY <4>8, <4>9
    <3> QED BY <3>6, <3>7
  <2> QED BY <2>2, <2>3
<1> QED BY <1>6, <1>7


-----------------------------------------------------------------------------
(* Opening a database.                                                     *)

(* A finite set as a list: every element of the list is of the set.        *)
LEMMA SetToSeqIsList ==
  ASSUME NEW S, IsFiniteSet(S)
  PROVE  IsList(SetToSeq(S)) /\ \A i \in DOMAIN SetToSeq(S) : SetToSeq(S)[i] \in S
<1>1. Cardinality(S) \in Nat /\ ExistsBijection(1..Cardinality(S), S)
  BY FS_CardinalityType
<1>2. \E f \in [1..Cardinality(S) -> S] : IsInjective(f)
  BY <1>1 DEF ExistsBijection, Bijection, Injection
<1>3. SetToSeq(S) \in [1..Cardinality(S) -> S]
  BY <1>2 DEF SetToSeq
<1>4. SetToSeq(S) \in Seq(S)
  BY <1>1, <1>3, SeqDef
<1> QED BY <1>3, <1>4, ListIntro

(* A connection that sees what is stored is sound.                         *)
LEMMA FreshOK ==
  ASSUME NEW b, NEW V, ContentOK(b, V)
  PROVE  ConnOK(b, Fresh(V))
BY GrowsOrder DEF ConnOK, Fresh

(* An empty database is sound.                                             *)
LEMMA EmptyOK ==
  ASSUME NEW b
  PROVE  ContentOK(b, Empty)
<1>1. DOMAIN <<>> = {} /\ IsFiniteSet({})
  BY FS_EmptySet
<1> QED BY <1>1 DEF ContentOK, Empty, Nothing

(* A new connection sees what is stored, in a transaction.                 *)
LEMMA OpenDoes ==
  ASSUME NEW b, NEW V, ContentOK(b, V), NEW c, c = Open(b, V)
  PROVE  ConnOK(b, c) /\ c.link = -1 /\ c.txn = "open" /\ c.disk = V /\ c.view = V
<1>1. ConnOK(b, Fresh(V)) /\ Fresh(V).link = -1 /\ Fresh(V).disk = V /\ Fresh(V).view = V
  BY FreshOK DEF Fresh
<1>2. PICK r : r = Exec(b, Start(Fresh(V)), Begin)
  OBVIOUS
<1>3. /\ Keeps(b, Fresh(V), r.c) /\ r.c.disk = Fresh(V).disk /\ r.c.view = Fresh(V).view
      /\ r.c.txn = "open"
  BY <1>1, <1>2, BeginDoes
<1>4. c = r.c
  BY <1>2 DEF Open
<1> QED BY <1>1, <1>3, <1>4 DEF Keeps

(* What database_init has when no step of it has failed.                   *)
InUse(b, table, c) ==
  /\ TableShape(table) /\ table.handle = "ready" /\ table.schema.name \in c.prepared
  /\ table.schema.name # Metadata => Recorded(Safe(b, c), table.schema.name)

Ready(b, c0, o) ==
  /\ DOMAIN o = {"c", "ok", "tables"} /\ o.ok
  /\ Keeps(b, c0, o.c) /\ o.c.link = -1 /\ o.c.txn # "aborted"
  /\ IsList(o.tables) /\ \A i \in DOMAIN o.tables : InUse(b, o.tables[i], o.c)

(* A table that is in use stays so while its connection is kept.           *)
LEMMA InUseStays ==
  ASSUME NEW b, NEW c, ConnOK(b, c), NEW d, Keeps(b, c, d), NEW table, InUse(b, table, c)
  PROVE  InUse(b, table, d)
BY SafeGrows DEF InUse, Recorded, Grows, Keeps

(* A new table in the list has the schema it is made of, and no template.  *)
LEMMA TableIs ==
  ASSUME NEW schema, DOMAIN schema = {"name", "fields"}, IsList(schema.fields),
         NEW handle \in {"none", "ready", "freed"}
  PROVE  /\ TableShape(Table(schema, handle))
         /\ Table(schema, handle).handle = handle
         /\ Table(schema, handle).template = NoTemplate
         /\ Table(schema, handle).schema = SchemaCopy(schema)
         /\ Table(schema, handle).schema.name = schema.name
BY CopiesAreSame DEF Table, TableShape

(* One more table.                                                         *)
LEMMA ReadyAppend ==
  ASSUME NEW b, NEW c0, NEW o, Ready(b, c0, o), ConnOK(b, o.c),
         NEW d, Keeps(b, c0, d), Keeps(b, o.c, d), d.txn # "aborted",
         NEW table, InUse(b, table, d),
         NEW q, q = [o EXCEPT !.c = d, !.tables = Append(@, table)]
  PROVE  Ready(b, c0, q)
<1>1. /\ DOMAIN q = {"c", "ok", "tables"} /\ q.ok /\ q.c = d /\ q.tables = Append(o.tables, table)
  BY DEF Ready
<1>2. IsList(o.tables) /\ DOMAIN o.tables = 1..Len(o.tables) /\ Len(o.tables) \in Nat
  BY ListFacts DEF Ready
<1>3. /\ IsList(q.tables) /\ DOMAIN q.tables = 1..Len(o.tables) + 1
      /\ \A i \in 1..Len(o.tables) : q.tables[i] = o.tables[i]
      /\ q.tables[Len(o.tables) + 1] = table
  BY <1>1, <1>2, ListAppend
<1>4. ASSUME NEW i \in DOMAIN q.tables PROVE InUse(b, q.tables[i], d)
  <2>1. CASE i \in 1..Len(o.tables)
    BY <1>2, <1>3, <2>1, InUseStays DEF Ready
  <2>2. CASE i = Len(o.tables) + 1
    BY <1>3, <2>2
  <2> QED BY <1>2, <1>3, <2>1, <2>2
<1>5. d.link = -1
  BY DEF Ready, Keeps
<1> QED BY <1>1, <1>3, <1>4, <1>5 DEF Ready

(* A table that is stored and recorded is ready when it is registered.     *)
LEMMA RegisterDoes ==
  ASSUME backend \in Sql, NEW c0, ConnOK(backend, c0), c0.txn # "aborted",
         NEW o, Ready(backend, c0, o),
         NEW schema, DOMAIN schema = {"name", "fields"}, IsList(schema.fields),
         schema.name \in DOMAIN Safe(backend, c0).tables, Recorded(Safe(backend, c0), schema.name),
         NEW q, q = Register(o, schema)
  PROVE  Ready(backend, c0, q)
<1>1. PICK r : r = Prepare(backend, Start(o.c), schema.name)
  OBVIOUS
<1>2. q = [o EXCEPT !.c = r.c, !.tables = Append(@, Table(schema, IF r.ok THEN "ready" ELSE "freed"))]
  BY <1>1 DEF Register
<1>3. ConnOK(backend, o.c) /\ Keeps(backend, c0, o.c) /\ o.c.link = -1 /\ o.c.txn # "aborted"
  BY DEF Ready, Keeps
<1>4. Grows(Safe(backend, c0), Safe(backend, o.c)) /\ Grows(Safe(backend, o.c), Committed(o.c))
  BY <1>3, SafeGrows
<1>5. schema.name \in DOMAIN Committed(o.c).tables
  BY <1>4 DEF Grows
<1>6. /\ ResultOK(backend, r) /\ Keeps(backend, o.c, r.c)
      /\ r.ok => schema.name \in r.c.prepared /\ r.c.txn # "aborted"
      /\ ~r.ok => r.c.link = 0
  BY <1>1, <1>3, <1>5, PrepareDoes
<1>7. r.ok
  BY <1>3, <1>6 DEF Keeps
<1>8. Keeps(backend, c0, r.c)
  BY <1>3, <1>6, KeepsOrder
<1>9. InUse(backend, Table(schema, "ready"), r.c)
  <2>1. Recorded(Safe(backend, r.c), schema.name)
    BY <1>8, SafeGrows DEF Recorded, Grows
  <2> QED BY <1>6, <1>7, <2>1, TableIs DEF InUse
<1>10. q = [o EXCEPT !.c = r.c, !.tables = Append(@, Table(schema, "ready"))]
  BY <1>2, <1>7
<1> QED BY <1>3, <1>6, <1>7, <1>8, <1>9, <1>10, ReadyAppend

(* The walk over the schemas that the metadata have.                       *)
RegisterStep(f, c, schemas, n) ==
  IF n = 0 THEN [c |-> c, ok |-> TRUE, tables |-> <<>>] ELSE Register(f[n - 1], schemas[n])

(* The walk over the schemas of a database exists: the least number of     *)
(* schemas without one would have one.                                     *)
LEMMA RegisteredExists ==
  ASSUME NEW c, NEW schemas, IsList(schemas)
  PROVE  \E f : f = [n \in 0..Len(schemas) |-> RegisterStep(f, c, schemas, n)]
<1> DEFINE Walk(f, n) == f = [m \in 0..n |-> f[m]] /\ \A m \in 0..n : f[m] = RegisterStep(f, c, schemas, m)
           Without == {n \in 0..Len(schemas) : ~ \E f : Walk(f, n)}
<1>0. Len(schemas) \in Nat
  BY ListFacts
<1>1. Without = {}
  <2> SUFFICES ASSUME Without # {} PROVE FALSE
    OBVIOUS
  <2>1. PICK n \in Without : \A m \in Without : n <= m
    <3>1. Without \in SUBSET Nat BY <1>0
    <3> HIDE DEF Without
    <3> QED BY <3>1, LeastNat
  <2>2. CASE n = 0
    <3>1. Walk([m \in 0..0 |-> [c |-> c, ok |-> TRUE, tables |-> <<>>]], 0)
      BY DEF RegisterStep
    <3> QED BY <2>1, <2>2, <3>1
  <2>3. CASE n # 0
    <3>1. n - 1 \in 0..Len(schemas) /\ n \in 1..Len(schemas) /\ n - 1 < n
      BY <1>0, <2>1, <2>3
    <3>2. PICK f : Walk(f, n - 1)
      <4>1. n - 1 \notin Without
        <5>1. ~(n <= n - 1) BY <3>1, <1>0
        <5> HIDE DEF Without
        <5> QED BY <2>1, <5>1
      <4> QED BY <3>1, <4>1
    <3> DEFINE g == [m \in 0..n |-> IF m = n THEN RegisterStep(f, c, schemas, n) ELSE f[m]]
    <3>3. g = [m \in 0..n |-> g[m]]
      OBVIOUS
    <3>4. \A m \in 0..n : g[m] = RegisterStep(g, c, schemas, m)
      <4> TAKE m \in 0..n
      <4>1. m # 0 => g[m - 1] = f[m - 1]
        BY <1>0, <3>1
      <4>2. g[m] = RegisterStep(f, c, schemas, m)
        BY <1>0, <3>1, <3>2
      <4> HIDE DEF g
      <4> QED BY <4>1, <4>2 DEF RegisterStep
    <3> HIDE DEF g
    <3>5. Walk(g, n)
      BY <3>3, <3>4
    <3> QED BY <2>1, <3>5
  <2> QED BY <2>2, <2>3
<1>2. PICK f : Walk(f, Len(schemas))
  <2>1. Len(schemas) \in 0..Len(schemas) /\ Len(schemas) \notin Without
    <3> HIDE DEF Without
    <3> QED BY <1>0, <1>1
  <2> QED BY <2>1
<1>3. f = [n \in 0..Len(schemas) |-> RegisterStep(f, c, schemas, n)]
  BY <1>2
<1> QED BY <1>3

(* What Registered gives is the end of such a walk, which takes the        *)
(* schemas one by one.                                                     *)
LEMMA RegisteredIsWalk ==
  ASSUME NEW c, NEW schemas, IsList(schemas)
  PROVE  \E f : /\ Registered(c, schemas) = f[Len(schemas)]
                /\ \A n \in 0..Len(schemas) : f[n] = RegisterStep(f, c, schemas, n)
<1> DEFINE f == CHOOSE f : f = [n \in 0..Len(schemas) |-> RegisterStep(f, c, schemas, n)]
<1>1. f = [n \in 0..Len(schemas) |-> RegisterStep(f, c, schemas, n)]
  BY RegisteredExists
<1>2. Registered(c, schemas) = f[Len(schemas)]
  BY DEF Registered, RegisterStep
<1> HIDE DEF f
<1>3. \A n \in 0..Len(schemas) : f[n] = RegisterStep(f, c, schemas, n)
  BY <1>1
<1> QED BY <1>2, <1>3


(* A schema that a connection may register.                                *)
Registrable(b, V, schema) ==
  /\ DOMAIN schema = {"name", "fields"} /\ IsList(schema.fields)
  /\ schema.name \in DOMAIN V.tables /\ Recorded(V, schema.name)

(* Opening: every listed table is registered, until one fails, and each    *)
(* registered one is ready.                                                *)
LEMMA RegisteredDoes ==
  ASSUME backend \in Sql, NEW c0, ConnOK(backend, c0), c0.txn # "aborted", c0.link = -1,
         NEW schemas, IsList(schemas),
         \A n \in DOMAIN schemas : Registrable(backend, Safe(backend, c0), schemas[n])
  PROVE  Ready(backend, c0, Registered(c0, schemas))
<1>0. Len(schemas) \in Nat /\ DOMAIN schemas = 1..Len(schemas)
  BY ListFacts
<1>1. PICK f : /\ Registered(c0, schemas) = f[Len(schemas)]
               /\ \A n \in 0..Len(schemas) : f[n] = RegisterStep(f, c0, schemas, n)
  BY RegisteredIsWalk
<1> DEFINE Good(n) == Ready(backend, c0, f[n])
           Bad == {n \in 0..Len(schemas) : ~Good(n)}
<1>2. Good(0)
  <2>1. f[0] = [c |-> c0, ok |-> TRUE, tables |-> <<>>]
    <3>1. f[0] = RegisterStep(f, c0, schemas, 0)
      BY <1>0, <1>1
    <3>2. RegisterStep(f, c0, schemas, 0) = [c |-> c0, ok |-> TRUE, tables |-> <<>>]
      BY DEF RegisterStep
    <3> QED BY <3>1, <3>2
  <2>2. /\ DOMAIN f[0] = {"c", "ok", "tables"} /\ f[0].ok = TRUE /\ f[0].c = c0
        /\ f[0].tables = <<>>
    BY <2>1
  <2>3. IsList(<<>>) /\ DOMAIN <<>> = {}
    BY EmptySeq DEF IsList
  <2> QED BY <2>2, <2>3, KeepsAll DEF Ready
<1>3. ASSUME NEW n \in 1..Len(schemas), Good(n - 1)
      PROVE  Good(n)
  <2>1. n \in 0..Len(schemas) /\ n # 0
    BY <1>0
  <2>2. f[n] = Register(f[n - 1], schemas[n])
    BY <1>1, <2>1 DEF RegisterStep
  <2>3. Registrable(backend, Safe(backend, c0), schemas[n])
    BY <1>0
  <2> QED BY <1>3, <2>2, <2>3, RegisterDoes DEF Registrable
<1>4. Bad = {}
  <2> SUFFICES ASSUME Bad # {} PROVE FALSE
    OBVIOUS
  <2>1. PICK n \in Bad : \A m \in Bad : n <= m
    <3>1. Bad \in SUBSET Nat BY <1>0
    <3> HIDE DEF Bad
    <3> QED BY <3>1, LeastNat
  <2>2. n \in 0..Len(schemas) /\ ~Good(n)
    OBVIOUS
  <2> HIDE DEF Good
  <2>3. n # 0
    BY <1>2, <2>2
  <2>4. n \in 1..Len(schemas) /\ n - 1 \in 0..Len(schemas) /\ ~(n <= n - 1)
    BY <1>0, <2>2, <2>3
  <2>5. Good(n - 1)
    BY <2>1, <2>4
  <2> QED BY <1>3, <2>2, <2>4, <2>5
<1>5. Good(Len(schemas))
  <2>1. Len(schemas) \in 0..Len(schemas) BY <1>0
  <2> HIDE DEF Good
  <2> QED BY <1>4, <2>1
<1> QED BY <1>1, <1>5

(* The schemas that database_init finds can all be registered.             *)
LEMMA KnownDoes ==
  ASSUME backend \in Sql, NEW c, ContentOK(backend, c.view)
  PROVE  IsList(Known(c)) /\ \A n \in DOMAIN Known(c) : Registrable(backend, c.view, Known(c)[n])
<1>1. PICK names : names = SetToSeq(TableList(backend, c.view) \ {Senders})
  OBVIOUS
<1>2. TableList(backend, c.view) \subseteq DOMAIN c.view.tables
      /\ \A N \in TableList(backend, c.view) \ {Senders} : Recorded(c.view, N)
  BY DEF TableList, Listed
<1>3. IsFiniteSet(TableList(backend, c.view) \ {Senders})
  <2>1. IsFiniteSet(DOMAIN c.view.tables) /\ TableList(backend, c.view) \ {Senders} \subseteq DOMAIN c.view.tables
    BY <1>2 DEF ContentOK
  <2> QED BY <2>1, FS_Subset
<1>4. IsList(names) /\ \A n \in DOMAIN names : names[n] \in TableList(backend, c.view) \ {Senders}
  BY <1>1, <1>3, SetToSeqIsList
<1>5. Known(c) = [n \in DOMAIN names |-> ListedSchema(c.view, names[n])]
  BY <1>1 DEF Known
<1>6. PICK known : known = Known(c)
  OBVIOUS
<1>7. known = [n \in DOMAIN names |-> known[n]] /\ \A n \in DOMAIN names : known[n] = ListedSchema(c.view, names[n])
  BY <1>5, <1>6
<1>8. IsList(known) /\ DOMAIN known = DOMAIN names
  BY <1>4, <1>7, ListMap
<1>9. ASSUME NEW N, Recorded(c.view, N), N \in DOMAIN c.view.tables
      PROVE  Registrable(backend, c.view, ListedSchema(c.view, N))
  <2>1. TableKey(N) \in DOMAIN c.view.meta /\ TableKey(N) # StartTimeKey /\ TableKey(N)[2] = N
    BY <1>9 DEF Recorded, TableKey, StartTimeKey
  <2>2. Matches(backend, c.view, N)
    BY <2>1 DEF ContentOK
  <2> QED BY <1>9, <2>2 DEF Matches, Registrable
<1>10. \A n \in DOMAIN known : Registrable(backend, c.view, known[n])
  <2> TAKE n \in DOMAIN known
  <2>1. names[n] \in TableList(backend, c.view) \ {Senders} /\ known[n] = ListedSchema(c.view, names[n])
    BY <1>4, <1>7, <1>8
  <2>2. Recorded(c.view, names[n]) /\ names[n] \in DOMAIN c.view.tables
    BY <1>2, <2>1
  <2> QED BY <1>9, <2>1, <2>2
<1> QED BY <1>6, <1>8, <1>10

(* An operation of database_init leaves what was stored, or more.          *)
Tried(b, c0, o) ==
  /\ ConnOK(b, o.c) /\ Grows(c0.disk, o.c.disk)
  /\ o.ok => Ready(b, c0, o)

(* An opening that was going well still is, after an operation that        *)
(* succeeded.                                                              *)
LEMMA ReadyStays ==
  ASSUME NEW b, NEW c0, NEW o, Ready(b, c0, o), NEW d, Keeps(b, o.c, d), d.txn # "aborted",
         NEW q, q = [o EXCEPT !.c = d, !.ok = TRUE]
  PROVE  Ready(b, c0, q)
<1>1. Keeps(b, c0, o.c) /\ ConnOK(b, o.c) /\ o.c.link = -1 /\ o.c.txn # "aborted"
  BY DEF Ready, Keeps
<1>2. Keeps(b, c0, d)
  BY <1>1, KeepsOrder
<1>3. DOMAIN q = {"c", "ok", "tables"} /\ q.ok = TRUE /\ q.c = d /\ q.tables = o.tables
  BY DEF Ready
<1>4. d.link = -1
  BY <1>1 DEF Keeps
<1>5. \A i \in DOMAIN q.tables : InUse(b, q.tables[i], d)
  BY <1>1, <1>3, InUseStays DEF Ready
<1> QED BY <1>2, <1>3, <1>4, <1>5 DEF Ready

(* database_init: the table of the senders is there, or the opening        *)
(* failed.                                                                 *)
LEMMA WithSendersDoes ==
  ASSUME backend \in Sql, NEW c0, NEW o, Ready(backend, c0, o), NEW listed,
         NEW q, q = WithSenders(o, listed)
  PROVE  Tried(backend, c0, q)
<1>1. ConnOK(backend, o.c) /\ Grows(c0.disk, o.c.disk) /\ o.c.txn # "aborted" /\ o.ok
  BY DEF Ready, Keeps
<1>2. CASE Senders \in listed
  <2>1. q = o
    BY <1>2 DEF WithSenders
  <2> QED BY <1>1, <2>1 DEF Tried
<1>3. CASE Senders \notin listed
  <2>1. PICK r : r = CreateSenders(backend, Start(o.c))
    OBVIOUS
  <2>2. q = [o EXCEPT !.c = r.c, !.ok = r.ok]
    BY <1>3, <2>1 DEF WithSenders
  <2>3. r = Exec(backend, Start(o.c), Creation(SendersTable))
    BY <2>1 DEF CreateSenders, Creation
  <2>4. Creation(SendersTable).op \notin {"END", "BEGIN"}
    BY DEF Creation
  <2>5. EffectOK(backend, o.c.view, Creation(SendersTable))
    BY <1>1, CreationIsOK DEF ConnOK
  <2>6. /\ ResultOK(backend, r) /\ Keeps(backend, o.c, r.c) /\ r.c.disk = o.c.disk
        /\ r.ok => r.c.txn = o.c.txn
    BY <1>1, <2>3, <2>4, <2>5, StatementDoes
  <2>7. q.c = r.c /\ q.ok = r.ok
    BY <2>2 DEF Ready
  <2>8. ASSUME r.ok PROVE Ready(backend, c0, q)
    <3>1. q = [o EXCEPT !.c = r.c, !.ok = TRUE]
      BY <2>2, <2>6, <2>8 DEF ResultOK
    <3> QED BY <1>1, <2>6, <2>8, <3>1, ReadyStays
  <2> QED BY <1>1, <2>6, <2>7, <2>8 DEF Tried, ResultOK
<1> QED BY <1>2, <1>3

(* database_init: so is _experiment_metadata.                              *)
LEMMA CreateMetadataDoes ==
  ASSUME backend \in Sql, NEW c0, NEW o, Ready(backend, c0, o), NEW q, q = CreateMetadata(o)
  PROVE  Tried(backend, c0, q) /\ (q.ok => Metadata \in DOMAIN Safe(backend, q.c).tables)
<1>0. PICK b : b = backend
  OBVIOUS
<1>1. ConnOK(b, o.c) /\ Grows(c0.disk, o.c.disk) /\ o.c.txn # "aborted" /\ Keeps(b, c0, o.c) /\ o.c.link = -1
  BY <1>0 DEF Ready, Keeps
<1>2. PICK r : r = CreateFromSchema(b, o.c, MetadataSchema)
  OBVIOUS
<1>3. PICK p : p = Prepare(b, r, Metadata)
  OBVIOUS
<1>4. q = IF ~r.ok THEN [o EXCEPT !.c = r.c, !.ok = FALSE]
          ELSE [o EXCEPT !.c = Described(b, p, MetadataSchema).c,
                         !.tables = Append(@, Table(MetadataSchema, "ready"))]
  BY <1>0, <1>2, <1>3 DEF CreateMetadata
<1>5. IsSchema(MetadataSchema) /\ HasSql(MetadataSchema, OmlToType(b)) /\ MetadataSchema.name = Metadata
  BY MetadataSchemaOK
<1>6. /\ ResultOK(b, r) /\ Keeps(b, o.c, r.c) /\ r.c.disk = o.c.disk
      /\ r.ok => /\ r.c.txn = o.c.txn
                 /\ Metadata \in DOMAIN r.c.view.tables
                 /\ r.c.view.tables[Metadata] = SchemaToSql(MetadataSchema, OmlToType(b)).columns
  BY <1>1, <1>2, <1>5, CreateDoes
<1>7. CASE ~r.ok
  <2>1. q.c = r.c /\ q.ok = FALSE
    BY <1>4, <1>7 DEF Ready
  <2> QED BY <1>0, <1>1, <1>6, <2>1 DEF Tried, ResultOK
<1>8. CASE r.ok
  <2>1. r = Start(r.c) /\ ConnOK(b, r.c) /\ Committed(r.c) = r.c.view
    BY <1>1, <1>6, <1>8, Successes DEF ResultOK, Committed
  <2>2. p = Prepare(b, Start(r.c), Metadata)
    BY <1>3, <2>1
  <2>3. b \in Sql
    BY <1>0
  <2>4. /\ ResultOK(b, p) /\ Keeps(b, r.c, p.c)
        /\ p.ok => /\ Metadata \in p.c.prepared /\ p.c.txn # "aborted"
                   /\ p.c.view = r.c.view /\ Safe(b, p.c) = p.c.view
        /\ ~p.ok => p.c.link = 0
    BY <1>6, <1>8, <2>1, <2>2, <2>3, PrepareDoes
  <2>5. p.ok /\ p.c.link = -1
    BY <1>1, <1>6, <2>4 DEF Keeps
  <2>6. PICK s : s = Described(b, p, MetadataSchema)
    OBVIOUS
  <2>7. MetadataSchema.name \in DOMAIN p.c.view.tables
        /\ p.c.view.tables[MetadataSchema.name] = SchemaToSql(MetadataSchema, OmlToType(b)).columns
    BY <1>5, <1>6, <1>8, <2>4, <2>5
  <2>8. /\ ResultOK(b, s) /\ Keeps(b, p.c, s.c) /\ Grows(p.c.view, s.c.view)
        /\ s.c.prepared = p.c.prepared
        /\ p.c.txn # "aborted" /\ Metadata \in DOMAIN p.c.view.tables =>
             s.c.link = 0 \/ s.c.txn = p.c.txn
    BY <1>5, <2>4, <2>6, <2>7, DescribedDoes
  <2>9. s.c.link = -1 /\ s.c.txn # "aborted" /\ Metadata \in s.c.prepared
    BY <1>5, <2>4, <2>5, <2>7, <2>8 DEF Keeps
  <2>10. Keeps(b, o.c, s.c) /\ Keeps(b, c0, s.c)
    <3>1. Keeps(b, o.c, p.c)
      BY <1>1, <1>6, <1>8, <2>4, KeepsOrder
    <3>2. Keeps(b, o.c, s.c)
      BY <2>8, <3>1, KeepsOrder
    <3> QED BY <1>1, <3>2, KeepsOrder
  <2>11. InUse(b, Table(MetadataSchema, "ready"), s.c)
    <3>1. DOMAIN MetadataSchema = {"name", "fields"} /\ IsList(MetadataSchema.fields)
      BY <1>5 DEF IsSchema, IsList
    <3>2. /\ TableShape(Table(MetadataSchema, "ready"))
          /\ Table(MetadataSchema, "ready").handle = "ready"
          /\ Table(MetadataSchema, "ready").schema.name = Metadata
      BY <1>5, <3>1, TableIs
    <3> QED BY <2>9, <3>2 DEF InUse
  <2>12. q = [o EXCEPT !.c = s.c, !.tables = Append(@, Table(MetadataSchema, "ready"))]
    BY <1>4, <1>8, <2>6
  <2>13. Ready(b, c0, q)
    BY <1>0, <1>1, <2>9, <2>10, <2>11, <2>12, ReadyAppend
  <2>14. q.c = s.c
    BY <2>12 DEF Ready
  <2>15. Metadata \in DOMAIN Safe(b, s.c).tables
    <3>1. Grows(Safe(b, p.c), Safe(b, s.c))
      BY <2>4, <2>8, SafeGrows DEF ResultOK
    <3> QED BY <1>5, <2>4, <2>5, <2>7, <3>1 DEF Grows
  <2> QED BY <1>0, <1>1, <2>8, <2>10, <2>13, <2>14, <2>15 DEF Tried, ResultOK, Keeps
<1> QED BY <1>7, <1>8

(* A database that is opened has its tables ready; one that is not keeps   *)
(* what was stored.                                                        *)
LEMMA DatabaseInitDoes ==
  ASSUME backend \in Sql, NEW V, ContentOK(backend, V), NEW o, o = DatabaseInit(Open(backend, V))
  PROVE  /\ ConnOK(backend, o.c) /\ Grows(V, o.c.disk)
         /\ o.ok => /\ o.c.link = -1 /\ o.c.txn # "aborted"
                    /\ IsList(o.tables) /\ \A i \in DOMAIN o.tables : InUse(backend, o.tables[i], o.c)
                    /\ Metadata \in DOMAIN Safe(backend, o.c).tables
<1>1. PICK c0 : c0 = Open(backend, V)
  OBVIOUS
<1>2. ConnOK(backend, c0) /\ c0.link = -1 /\ c0.txn = "open" /\ c0.disk = V /\ c0.view = V
  BY <1>1, OpenDoes
<1>3. Safe(backend, c0) = V
  BY <1>2 DEF Safe
<1>4. PICK listed : listed = TableList(backend, c0.view)
  OBVIOUS
<1>5. PICK reg : reg = Registered(c0, Known(c0))
  OBVIOUS
<1>6. Ready(backend, c0, reg)
  <2>1. IsList(Known(c0)) /\ \A n \in DOMAIN Known(c0) : Registrable(backend, V, Known(c0)[n])
    BY <1>2, KnownDoes
  <2> QED BY <1>2, <1>3, <1>5, <2>1, RegisteredDoes
<1>7. PICK snd : snd = WithSenders(reg, listed)
  OBVIOUS
<1>8. Tried(backend, c0, snd)
  BY <1>6, <1>7, WithSendersDoes
<1>9. o = IF Metadata \in listed \/ ~snd.ok THEN snd ELSE CreateMetadata(snd)
  BY <1>1, <1>4, <1>5, <1>7 DEF DatabaseInit, WithMetadata
<1>10. Tried(backend, c0, o) /\ (o.ok => Metadata \in DOMAIN Safe(backend, o.c).tables)
  <2>1. CASE Metadata \in listed /\ snd.ok
    <3>1. o = snd
      BY <1>9, <2>1
    <3>2. Metadata \in DOMAIN V.tables
      BY <1>2, <1>4, <2>1 DEF TableList, Listed
    <3>3. Keeps(backend, c0, o.c)
      BY <1>8, <2>1, <3>1 DEF Tried, Ready
    <3>4. Grows(V, Safe(backend, o.c))
      BY <1>2, <1>3, <3>3, SafeGrows
    <3> QED BY <1>8, <3>1, <3>2, <3>4 DEF Grows
  <2>2. CASE ~snd.ok
    BY <1>8, <1>9, <2>2
  <2>3. CASE Metadata \notin listed /\ snd.ok
    <3>1. o = CreateMetadata(snd) /\ Ready(backend, c0, snd)
      BY <1>8, <1>9, <2>3 DEF Tried
    <3> QED BY <3>1, CreateMetadataDoes
  <2> QED BY <2>1, <2>2, <2>3
<1> QED BY <1>2, <1>10 DEF Tried, Ready


-----------------------------------------------------------------------------
(* Senders, start times, rows, and the end.                                *)

(* sq3_add_sender_id, psql_add_sender_id: nothing is lost.                 *)
LEMMA AddSenderIdDoes ==
  ASSUME NEW b, NEW c, ConnOK(b, c), NEW name, NEW r, r = AddSenderId(b, c, name)
  PROVE  Keeps(b, c, r.c)
<1>1. PICK p : p = Exec(b, Start(c), Select(Senders))
  OBVIOUS
<1>2. Select(Senders).op \notin {"END", "BEGIN"}
  BY DEF Select
<1>3. ResultOK(b, p) /\ Keeps(b, c, p.c) /\ Grows(c.view, p.c.view)
  BY <1>1, <1>2, StatementDoes, QueriesAreOK DEF ConnOK
<1>4. CASE p.ok /\ name \in DOMAIN p.c.view.senders
  <2>1. r.c = p.c
    BY <1>1, <1>4 DEF AddSenderId
  <2> QED BY <1>3, <2>1
<1>5. CASE ~(p.ok /\ name \in DOMAIN p.c.view.senders)
  <2>1. PICK q : q = Exec(b, Start(p.c), Select(Senders))
    OBVIOUS
  <2>2. ResultOK(b, q) /\ Keeps(b, p.c, q.c) /\ Grows(p.c.view, q.c.view)
    BY <1>2, <1>3, <2>1, StatementDoes, QueriesAreOK DEF ConnOK, ResultOK
  <2>3. PICK id : id = FreshId(b, q)
    OBVIOUS
  <2>4. PICK s : s = [q.c EXCEPT !.sender_cnt = IF b = "sqlite" THEN id ELSE @]
    OBVIOUS
  <2>5. PICK d : d = SetKeyValue(b, s, Senders, name, id)
    OBVIOUS
  <2>6. r = NewSender(b, q, name)
    BY <1>1, <1>5, <2>1 DEF AddSenderId
  <2>7. r.c = d
    BY <2>3, <2>4, <2>5, <2>6 DEF NewSender
  <2>8. ConnOK(b, q.c)
    BY <2>2 DEF ResultOK
  <2>9. \A x \in DOMAIN q.c \ {"sender_cnt"} : s[x] = q.c[x]
    BY <2>4
  <2>10. /\ DOMAIN s = DOMAIN q.c /\ s.link = q.c.link /\ s.txn = q.c.txn /\ s.disk = q.c.disk
         /\ s.view = q.c.view /\ s.prepared = q.c.prepared
    BY <2>4, <2>8 DEF ConnOK
  <2>11. ConnOK(b, s) /\ Keeps(b, q.c, s)
    BY <2>8, <2>10, GrowsOrder DEF ConnOK, Keeps
  <2>12. Keeps(b, s, d) /\ Grows(s.view, d.view)
    BY <2>5, <2>11, SetKeyValueDoes, SenderIsOK DEF ConnOK
  <2>13. Keeps(b, c, q.c)
    BY <1>3, <2>2, KeepsOrder
  <2>14. Keeps(b, c, s)
    BY <2>10, <2>11, <2>13, GrowsOrder, KeepsOrder
  <2>15. Keeps(b, c, d)
    BY <2>12, <2>14, KeepsOrder
  <2> QED BY <2>7, <2>15
<1> QED BY <1>4, <1>5

(* Recording the start time loses nothing.                                 *)
LEMMA SetStartTimeDoes ==
  ASSUME NEW b, NEW c, ConnOK(b, c), NEW value
  PROVE  Keeps(b, c, SetMetadata(b, c, StartTimeKey, value))
<1>1. EffectOK(b, c.view, Store(Metadata, StartTimeKey, value))
  BY EntryIsOK DEF ConnOK
<1>2. PICK d : d = SetKeyValue(b, c, Metadata, StartTimeKey, value)
  OBVIOUS
<1>3. Keeps(b, c, d)
  BY <1>1, <1>2, SetKeyValueDoes
<1> QED BY <1>2, <1>3 DEF SetMetadata

(* A row of a table that nothing undoes.                                   *)
LEMMA InsertDoes ==
  ASSUME NEW b, NEW c, ConnOK(b, c), NEW row, NEW value,
         c.link # 0 /\ row.table # Metadata /\ RowFits(b, row) => Recorded(Safe(b, c), row.table),
         NEW r, r = Insert(b, c, row, value)
  PROVE  Keeps(b, c, r.c) /\ (r.ok => row \in r.c.view.rows)
<1>1. PICK p : p = IF c.due THEN Reopen(b, Start(c)) ELSE Start(c)
  OBVIOUS
<1>2. PICK q : q = [p EXCEPT !.c = IF p.ok THEN [@ EXCEPT !.due = FALSE] ELSE @]
  OBVIOUS
<1>3. r = Exec(b, q, InsertRow(row, value))
  BY <1>1, <1>2 DEF Insert
<1>4. ResultOK(b, p) /\ Keeps(b, c, p.c)
  <2>1. CASE c.due
    BY <1>1, <2>1, ReopenDoes
  <2>2. CASE ~c.due
    <3>1. p.c = c /\ p = [c |-> p.c, ok |-> p.ok] /\ p.ok = TRUE
      BY <1>1, <2>2 DEF Start
    <3> QED BY <3>1, KeepsAll DEF ResultOK
  <2> QED BY <2>1, <2>2
<1>5. q.ok = p.ok /\ ResultOK(b, q) /\ Keeps(b, c, q.c)
  <2>1. CASE p.ok
    <3>1. PICK x : x = [p.c EXCEPT !.due = FALSE]
      OBVIOUS
    <3>2. q = [p EXCEPT !.c = x]
      BY <1>2, <2>1, <3>1
    <3>3. q.c = x /\ q.ok = p.ok /\ q = [c |-> q.c, ok |-> q.ok]
      BY <1>4, <3>2 DEF ResultOK
    <3>4. /\ DOMAIN x = DOMAIN p.c /\ x.link = p.c.link /\ x.txn = p.c.txn /\ x.disk = p.c.disk
          /\ x.view = p.c.view /\ x.prepared = p.c.prepared
      BY <1>4, <3>1 DEF ResultOK, ConnOK
    <3>5. ConnOK(b, x) /\ Keeps(b, p.c, x)
      BY <1>4, <3>4, GrowsOrder DEF ResultOK, ConnOK, Keeps
    <3>6. Keeps(b, c, x)
      BY <1>4, <3>4, <3>5, GrowsOrder, KeepsOrder
    <3> QED BY <1>4, <3>3, <3>5, <3>6 DEF ResultOK
  <2>2. CASE ~p.ok
    <3>1. q = [p EXCEPT !.c = p.c]
      BY <1>2, <2>2
    <3>2. q = p
      BY <1>4, <3>1 DEF ResultOK
    <3> QED BY <1>4, <3>2
  <2> QED BY <2>1, <2>2
<1>6. CASE ~q.ok
  <2>1. r = q
    BY <1>3, <1>5, <1>6, Successes
  <2> QED BY <1>5, <1>6, <2>1
<1>7. CASE q.ok
  <2>1. q = Start(q.c) /\ ConnOK(b, q.c)
    BY <1>5, <1>7, Successes DEF ResultOK
  <2>2. r = Exec(b, Start(q.c), InsertRow(row, value))
    BY <1>3, <2>1
  <2>3. InsertRow(row, value).op \notin {"END", "BEGIN"}
    BY DEF InsertRow
  <2>4. ASSUME q.c.link # 0 PROVE EffectOK(b, q.c.view, InsertRow(row, value))
    <3>1. c.link # 0
      BY <1>5, <2>4 DEF Keeps
    <3>2. Grows(Safe(b, c), q.c.view)
      BY <1>5, <2>1, SafeGrows, GrowsOrder
    <3>3. row.table # Metadata /\ RowFits(b, row) => Recorded(q.c.view, row.table)
      BY <3>1, <3>2 DEF Recorded, Grows
    <3> QED BY <2>1, <3>3, RowIsOK DEF ConnOK
  <2>5. /\ Keeps(b, q.c, r.c) /\ Grows(q.c.view, r.c.view)
        /\ r.ok => r.c.view = Effect(q.c.view, InsertRow(row, value))
    BY <2>1, <2>2, <2>3, <2>4, StatementDoes
  <2>6. row \in Effect(q.c.view, InsertRow(row, value)).rows
    <3>1. Effect(q.c.view, InsertRow(row, value)) = [q.c.view EXCEPT !.rows = @ \cup {row}]
      BY DEF Effect, InsertRow
    <3> QED BY <2>1, <3>1 DEF ConnOK, ContentOK
  <2> QED BY <1>5, <2>5, <2>6, KeepsOrder
<1> QED BY <1>6, <1>7

(* The end of a connection commits what it has not lost.                   *)
LEMMA CloseDoes ==
  ASSUME NEW b, NEW c, ConnOK(b, c), NEW d, d = Close(b, c)
  PROVE  /\ ConnOK(b, d)
         /\ c.link # 0 /\ c.txn # "aborted" => d.disk = c.view
<1>1. PICK r : r = Exec(b, Start(c), End)
  OBVIOUS
<1>2. /\ ResultOK(b, r) /\ Keeps(b, c, r.c)
      /\ c.link # 0 => r.c.disk = Committed(c)
  BY <1>1, EndDoes
<1>3. d = Fresh(r.c.disk)
  BY <1>1 DEF Close
<1>4. d.disk = r.c.disk
  BY <1>3 DEF Fresh
<1>5. ConnOK(b, d)
  <2>1. ContentOK(b, r.c.disk)
    BY <1>2 DEF ResultOK, ConnOK
  <2> QED BY <1>3, <2>1, FreshOK
<1> QED BY <1>2, <1>4, <1>5 DEF Committed


-----------------------------------------------------------------------------
(* Clients and the databases that they hold.                               *)

(* A client that has gone refers to no database and has no streams.        *)
LEMMA GoneHoldNothing ==
  ASSUME TypeOK, NEW c \in Clients, client[c].phase = "gone"
  PROVE  client[c] = Gone /\ client[c].domain \notin Domains /\ DOMAIN client[c].streams = {}
<1>1. client[c] = Gone
  BY DEF TypeOK, ClientOK
<1>2. Gone.domain \notin Domains /\ DOMAIN Gone.streams = {}
  BY DatabasesAssumption DEF Gone
<1> QED BY <1>1, <1>2

(* A database that a client holds is open, and the client is the only one  *)
(* if the count is 1.                                                      *)
LEMMA HeldIsOpen ==
  ASSUME TypeOK, RefInv, NEW c \in Clients, client[c].phase # "gone",
         NEW d, d = client[c].domain
  PROVE  /\ d \in Domains /\ db[d].ref_count \in Nat /\ db[d].ref_count > 0
         /\ db[d].ref_count = 1 => \A e \in Clients : client[e].domain = d => e = c
<1>1. d \in Domains
  BY DEF TypeOK, ClientOK
<1>2. db[d].ref_count \in Nat /\ Cardinality(Holders(d)) <= db[d].ref_count
  BY <1>1 DEF TypeOK, DatabaseOK, RefInv
<1>3. c \in Holders(d) /\ Holders(d) \in SUBSET Clients
  BY DEF Holders
<1>4. db[d].ref_count > 0 /\ (db[d].ref_count = 1 => Holders(d) = {c})
  BY <1>2, <1>3, Counting, DatabasesAssumption
<1> QED BY <1>1, <1>2, <1>4 DEF Holders

(* Nobody holds a database that is closed.                                 *)
LEMMA ClosedIsFree ==
  ASSUME TypeOK, RefInv, NEW d \in Domains, ~IsOpen(d)
  PROVE  db[d].ref_count = 0 /\ \A e \in Clients : client[e].domain # d
<1>1. db[d].ref_count \in Nat
  BY DEF TypeOK, DatabaseOK
<1>2. \A e \in Clients : client[e].phase = "gone" => client[e].domain # d
  BY GoneHoldNothing
<1>3. \A e \in Clients : client[e].phase # "gone" => client[e].domain # d
  BY HeldIsOpen DEF IsOpen
<1> QED BY <1>1, <1>2, <1>3 DEF IsOpen

(* The tables that streams use stay in their places.                       *)
Extends(b, tables, new) ==
  \A i \in Linked(tables) : Usable(b, tables, i) => i \in Linked(new) /\ new[i] = tables[i]

(* More tables in the list change nothing for the streams that have        *)
(* theirs.                                                                 *)
LEMMA ExtendsKeeps ==
  ASSUME NEW b, NEW tables, NEW new, Extends(b, tables, new), NEW k, UsedOK(b, k, tables)
  PROVE  /\ UsedOK(b, k, new)
         /\ \A m : Agrees(m, k, tables) => Agrees(m, k, new)
<1>1. ASSUME NEW s \in DOMAIN k.streams, NEW t, t = k.streams[s].table, t # 0
      PROVE  Usable(b, new, t) /\ new[t] = tables[t] /\ FirstDifference(new[t].schema, s) = 0
  <2>1. Usable(b, tables, t) /\ FirstDifference(tables[t].schema, s) = 0
    BY <1>1 DEF UsedOK
  <2>2. t \in Linked(tables)
    BY <2>1 DEF Usable
  <2>3. t \in Linked(new) /\ new[t] = tables[t]
    BY <2>1, <2>2 DEF Extends
  <2> QED BY <2>1, <2>3 DEF Usable
<1>2. UsedOK(b, k, new)
  BY <1>1 DEF UsedOK
<1>3. ASSUME NEW m, Agrees(m, k, tables) PROVE Agrees(m, k, new)
  BY <1>1, <1>3 DEF Agrees
<1> QED BY <1>2, <1>3

(* A measurement agrees with a client that has more streams.               *)
LEMMA MoreStreams ==
  ASSUME NEW k, NEW q, NEW tables, NEW m, Agrees(m, k, tables),
         \A s \in DOMAIN k.streams : s \in DOMAIN q.streams /\ q.streams[s].table = k.streams[s].table
  PROVE  Agrees(m, q, tables)
BY DEF Agrees

-----------------------------------------------------------------------------
(* Steps, by what they change.                                             *)

(* The server or its hook dies: handlers are gone, databases closed.       *)
LEMMA DeathDoes ==
  ASSUME Inv, UNCHANGED <<backend, graph, ghosts>>, visits' \in [Clients -> Nat],
         \A c \in Clients : visits[c] <= visits'[c],
         db' = [d \in Domains |-> Closed], client' = [c \in Clients |-> Gone],
         DOMAIN conn' = Domains, \A d \in Domains : ConnOK(backend, conn'[d]),
         DOMAIN told' = Domains, \A d \in Domains : ToldOK(told'[d], Closed, taken[d], failed[d])
  PROVE  Inv'
<1>1. /\ backend' = backend /\ graph' = graph /\ taken' = taken /\ failed' = failed
      /\ db' = [d \in Domains |-> Closed] /\ client' = [c \in Clients |-> Gone]
  BY DEF ghosts
<1>2. ASSUME NEW d \in Domains
      PROVE  DatabaseOK(backend, db'[d], conn'[d], taken[d], failed[d], told'[d])
  <2>1. DatabaseOK(backend, db[d], conn[d], taken[d], failed[d], told[d])
    BY DEF Inv, TypeOK
  <2>2. db'[d] = Closed
    BY <1>1
  <2>3. ConnOK(backend, conn'[d])
    OBVIOUS
  <2>4. /\ DOMAIN db'[d] = {"ref_count", "start_time", "tables"} /\ db'[d].ref_count = 0
        /\ db'[d].tables = <<>> /\ IsList(<<>>) /\ DOMAIN <<>> = {}
    BY <2>2, EmptySeq DEF Closed, IsList
  <2>5. ToldOK(told'[d], db'[d], taken[d], failed[d])
    BY <2>2
  <2>6. IF backend = "fuseki" THEN taken[d] = {} /\ SemOK(db'[d].tables)
        ELSE SqlOK(db'[d], backend, conn'[d], taken[d], failed[d])
    BY <2>1, <2>4 DEF DatabaseOK, SemOK, SqlOK
  <2> QED BY <2>1, <2>3, <2>4, <2>5, <2>6 DEF DatabaseOK
<1>3. ASSUME NEW c \in Clients
      PROVE  /\ client'[c] = Gone /\ ClientOK(client'[c]) /\ client'[c].domain \notin Domains
             /\ DOMAIN client'[c].streams = {} /\ client'[c].phase = "gone"
  <2>1. client'[c] = Gone
    BY <1>1
  <2> QED BY <2>1, DatabasesAssumption DEF ClientOK, Gone
<1>4. TypeOK'
  <2>1. /\ DOMAIN db' = Domains /\ DOMAIN client' = Clients
    BY <1>1
  <2> QED BY <1>1, <1>2, <1>3, <2>1 DEF Inv, TypeOK
<1>5. RefInv'
  <2>1. ASSUME NEW d \in Domains PROVE Holders(d)' = {} /\ db'[d].ref_count = 0
    BY <1>1, <1>3 DEF Holders, Closed
  <2> QED BY <2>1, FS_EmptySet DEF RefInv
<1>6. UsedInv'
  BY <1>3 DEF UsedInv, UsedOK
<1>7. GraphInv'
  <2>1. StreamsKeepTheirSender'
    BY <1>1 DEF Inv, GraphInv, StreamsKeepTheirSender
  <2>2. \A m \in graph'.measurements : m.stream.client \in Clients /\ m.stream.visit \in Nat
    BY <1>1 DEF Inv, GraphInv
  <2>3. ASSUME NEW c \in Clients PROVE MeasurementsOK(c)'
    <3>1. ASSUME NEW m \in graph'.measurements, m.stream.client = c PROVE m.stream.visit <= visits'[c]
      <4>1. m.stream.visit <= visits[c] /\ m.stream.visit \in Nat
        BY <1>1, <3>1 DEF Inv, GraphInv, MeasurementsOK
      <4>2. visits[c] \in Nat /\ visits'[c] \in Nat
        BY DEF Inv, TypeOK
      <4> QED BY <4>1, <4>2
    <3> QED BY <1>3, <3>1 DEF MeasurementsOK
  <2> QED BY <2>1, <2>2, <2>3 DEF GraphInv
<1> QED BY <1>4, <1>5, <1>6, <1>7 DEF Inv


(* The server dies, or is stopped: each client is gone, and each database  *)
(* is what was stored.                                                     *)
LEMMA DiesDoes ==
  ASSUME Inv, Dies, UNCHANGED <<backend, told, graph, ghosts>>, visits' \in [Clients -> Nat],
         \A c \in Clients : visits[c] <= visits'[c]
  PROVE  Inv'
<1>1. /\ db' = [d \in Domains |-> Closed] /\ conn' = [d \in Domains |-> Fresh(conn[d].disk)]
      /\ client' = [c \in Clients |-> Gone]
  BY DEF Dies
<1>2. ASSUME NEW d \in Domains
      PROVE  ConnOK(backend, conn'[d]) /\ ToldOK(told'[d], Closed, taken[d], failed[d])
  <2>1. DatabaseOK(backend, db[d], conn[d], taken[d], failed[d], told[d])
    BY DEF Inv, TypeOK
  <2>2. ConnOK(backend, conn'[d])
    <3>1. ContentOK(backend, conn[d].disk)
      BY <2>1 DEF DatabaseOK, ConnOK
    <3> QED BY <1>1, <3>1, FreshOK
  <2>3. ToldOK(told'[d], Closed, taken[d], failed[d])
    <3>1. ToldOK(told[d], db[d], taken[d], failed[d]) /\ Closed.ref_count = 0
      BY <2>1 DEF DatabaseOK, Closed
    <3> QED BY <3>1 DEF ToldOK
  <2> QED BY <2>2, <2>3
<1>3. DOMAIN conn' = Domains /\ DOMAIN told' = Domains
  BY <1>1 DEF Inv, TypeOK
<1> QED BY <1>1, <1>2, <1>3, DeathDoes

(* Measurements are right when those who may go on had a table that stays. *)
LEMMA GraphStays ==
  ASSUME Inv, graph' = graph, visits' \in [Clients -> Nat],
         \A c \in Clients : visits[c] <= visits'[c],
         \A c \in Clients : client'[c].phase # "gone" /\ visits'[c] = visits[c] =>
           /\ client[c].phase # "gone"
           /\ \A m : Agrees(m, client[c], TablesOf(c)) => Agrees(m, client'[c], TablesOf(c)')
  PROVE  GraphInv'
<1>1. StreamsKeepTheirSender'
  BY DEF Inv, GraphInv, StreamsKeepTheirSender
<1>2. \A m \in graph'.measurements : m.stream.client \in Clients /\ m.stream.visit \in Nat
  BY DEF Inv, GraphInv
<1>3. ASSUME NEW c \in Clients PROVE MeasurementsOK(c)'
  <2>1. ASSUME NEW m \in graph'.measurements, m.stream.client = c
        PROVE  /\ m.stream.visit <= visits'[c]
               /\ client'[c].phase # "gone" /\ m.stream.visit = visits'[c] =>
                    Agrees(m, client'[c], TablesOf(c)')
    <3>1. /\ m.stream.visit <= visits[c] /\ m.stream.visit \in Nat
          /\ client[c].phase # "gone" /\ m.stream.visit = visits[c] => Agrees(m, client[c], TablesOf(c))
      BY <2>1 DEF Inv, GraphInv, MeasurementsOK
    <3>2. visits[c] \in Nat /\ visits'[c] \in Nat /\ visits[c] <= visits'[c]
      BY DEF Inv, TypeOK
    <3>3. m.stream.visit <= visits'[c]
      BY <3>1, <3>2
    <3>4. m.stream.visit = visits'[c] => visits'[c] = visits[c] /\ m.stream.visit = visits[c]
      BY <3>1, <3>2
    <3> QED BY <3>1, <3>3, <3>4
  <2> QED BY <2>1 DEF MeasurementsOK
<1> QED BY <1>1, <1>2, <1>3 DEF GraphInv

(* All databases but d, and all clients but c, are left alone.             *)
OnlyDatabase(d) ==
  /\ DOMAIN db' = Domains /\ DOMAIN conn' = Domains /\ DOMAIN told' = Domains
  /\ DOMAIN taken' = Domains /\ DOMAIN failed' = Domains
  /\ \A e \in Domains \ {d} : /\ db'[e] = db[e] /\ conn'[e] = conn[e] /\ told'[e] = told[e]
                              /\ taken'[e] = taken[e] /\ failed'[e] = failed[e]

OnlyClient(c) == DOMAIN client' = Clients /\ \A e \in Clients \ {c} : client'[e] = client[e]

DatabaseOf(d) == DatabaseOK(backend, db[d], conn[d], taken[d], failed[d], told[d])

(* A step that concerns one database and one client leaves the others as   *)
(* they are.                                                               *)
LEMMA TypeStays ==
  ASSUME Inv, backend' = backend, DOMAIN graph' = DOMAIN graph, visits' \in [Clients -> Nat],
         NEW d \in Domains, OnlyDatabase(d), DatabaseOf(d)',
         NEW c \in Clients, OnlyClient(c), ClientOK(client'[c])
  PROVE  TypeOK'
<1>1. ASSUME NEW e \in Domains PROVE DatabaseOf(e)'
  <2>1. CASE e = d
    BY <2>1
  <2>2. CASE e # d
    BY <2>2 DEF Inv, TypeOK, OnlyDatabase, DatabaseOf
  <2> QED BY <2>1, <2>2
<1>2. \A e \in Clients : ClientOK(client'[e])
  BY DEF Inv, TypeOK, OnlyClient
<1> QED BY <1>1, <1>2 DEF Inv, TypeOK, OnlyDatabase, OnlyClient, DatabaseOf

(* Clients of other databases have the tables that they had.               *)
LEMMA OthersStay ==
  ASSUME Inv, NEW d \in Domains, OnlyDatabase(d), NEW c \in Clients, OnlyClient(c), backend' = backend,
         NEW e \in Clients, e # c,
         client[e].domain = d => Extends(backend, db[d].tables, db'[d].tables)
  PROVE  /\ UsedOK(backend, client'[e], TablesOf(e)')
         /\ client[e].phase # "gone" =>
              \A m : Agrees(m, client[e], TablesOf(e)) => Agrees(m, client'[e], TablesOf(e)')
<1>0. client'[e] = client[e] /\ UsedOK(backend, client[e], TablesOf(e))
  BY DEF OnlyClient, Inv, UsedInv
<1>1. CASE client[e].phase = "gone"
  <2>1. DOMAIN client[e].streams = {}
    BY <1>1, GoneHoldNothing DEF Inv
  <2> QED BY <1>0, <1>1, <2>1 DEF UsedOK
<1>2. CASE client[e].phase # "gone" /\ client[e].domain = d
  BY <1>0, <1>2, ExtendsKeeps DEF TablesOf
<1>3. CASE client[e].phase # "gone" /\ client[e].domain # d
  <2>1. client[e].domain \in Domains
    BY <1>3 DEF Inv, TypeOK, ClientOK
  <2>2. TablesOf(e)' = TablesOf(e)
    BY <1>0, <1>3, <2>1 DEF TablesOf, OnlyDatabase
  <2> QED BY <1>0, <2>2
<1> QED BY <1>1, <1>2, <1>3

(* A client goes on with its database.                                     *)
GoesOn(k, q) ==
  /\ k.phase # "gone" /\ q.phase # "gone" /\ q.domain = k.domain
  /\ \A s \in DOMAIN k.streams : s \in DOMAIN q.streams /\ q.streams[s].table = k.streams[s].table

(* A client's message that only adds to the tables of its database and to  *)
(* its own streams.                                                        *)
LEMMA WorkDoes ==
  ASSUME Inv, backend' = backend, DOMAIN graph' = DOMAIN graph, visits' = visits,
         NEW d \in Domains, OnlyDatabase(d), DatabaseOf(d)',
         db'[d].ref_count = db[d].ref_count, Extends(backend, db[d].tables, db'[d].tables),
         NEW c \in Clients, OnlyClient(c), ClientOK(client'[c]),
         \/ client'[c] = client[c]
         \/ /\ client[c].domain = d /\ GoesOn(client[c], client'[c])
            /\ UsedOK(backend, client'[c], db'[d].tables)
  PROVE  TypeOK' /\ RefInv' /\ UsedInv' /\ (graph' = graph => GraphInv')
<1>1. TypeOK'
  BY TypeStays DEF Inv, TypeOK
<1>2. RefInv'
  <2>1. \A e \in Clients : client'[e].domain = client[e].domain
    BY DEF OnlyClient, GoesOn
  <2>2. \A e \in Domains : Holders(e)' = Holders(e) /\ db'[e].ref_count = db[e].ref_count
    BY <2>1 DEF Holders, OnlyDatabase
  <2> QED BY <2>2 DEF Inv, RefInv
<1>3. /\ UsedOK(backend, client'[c], TablesOf(c)')
      /\ client'[c].phase # "gone" =>
           /\ client[c].phase # "gone"
           /\ \A m : Agrees(m, client[c], TablesOf(c)) => Agrees(m, client'[c], TablesOf(c)')
  <2>1. UsedOK(backend, client[c], TablesOf(c))
    BY DEF Inv, UsedInv
  <2>2. CASE client'[c] = client[c] /\ client[c].phase = "gone"
    <3>1. DOMAIN client[c].streams = {}
      BY <2>2, GoneHoldNothing DEF Inv
    <3> QED BY <2>2, <3>1 DEF UsedOK
  <2>3. CASE client'[c] = client[c] /\ client[c].phase # "gone"
    <3>1. client[c].domain \in Domains
      BY <2>3 DEF Inv, TypeOK, ClientOK
    <3>2. CASE client[c].domain = d
      BY <2>1, <2>3, <3>2, ExtendsKeeps DEF TablesOf
    <3>3. CASE client[c].domain # d
      <4>1. TablesOf(c)' = TablesOf(c)
        BY <2>3, <3>1, <3>3 DEF TablesOf, OnlyDatabase
      <4> QED BY <2>1, <2>3, <4>1
    <3> QED BY <3>2, <3>3
  <2>4. CASE /\ client[c].domain = d /\ GoesOn(client[c], client'[c])
             /\ UsedOK(backend, client'[c], db'[d].tables)
    <3>1. TablesOf(c) = db[d].tables /\ TablesOf(c)' = db'[d].tables
      BY <2>4 DEF TablesOf, GoesOn
    <3>2. ASSUME NEW m, Agrees(m, client[c], TablesOf(c)) PROVE Agrees(m, client'[c], TablesOf(c)')
      <4>1. Agrees(m, client[c], db'[d].tables)
        BY <2>1, <3>1, <3>2, ExtendsKeeps
      <4> QED BY <2>4, <3>1, <4>1, MoreStreams DEF GoesOn
    <3> QED BY <2>4, <3>1, <3>2 DEF GoesOn
  <2> QED BY <2>2, <2>3, <2>4
<1>4. UsedInv'
  <2>1. ASSUME NEW e \in Clients PROVE UsedOK(backend, client'[e], TablesOf(e)')
    <3>1. CASE e = c
      BY <1>3, <3>1
    <3>2. CASE e # c
      BY <3>2, OthersStay
    <3> QED BY <3>1, <3>2
  <2> QED BY <2>1 DEF UsedInv
<1>5. ASSUME graph' = graph PROVE GraphInv'
  <2>1. ASSUME NEW e \in Clients, client'[e].phase # "gone"
        PROVE  /\ client[e].phase # "gone"
               /\ \A m : Agrees(m, client[e], TablesOf(e)) => Agrees(m, client'[e], TablesOf(e)')
    <3>1. CASE e = c
      BY <1>3, <2>1, <3>1
    <3>2. CASE e # c
      <4>1. client'[e] = client[e]
        BY <3>2 DEF OnlyClient
      <4> QED BY <2>1, <3>2, <4>1, OthersStay
    <3> QED BY <3>1, <3>2
  <2>2. visits' \in [Clients -> Nat] /\ \A e \in Clients : visits[e] <= visits'[e]
    BY DEF Inv, TypeOK
  <2> QED BY <1>5, <2>1, <2>2, GraphStays
<1> QED BY <1>1, <1>2, <1>4, <1>5


(* A client comes to a database that is open, or is opened for it.         *)
LEMMA EnterDoes ==
  ASSUME Inv, backend' = backend, graph' = graph,
         NEW c \in Clients, client[c].phase = "gone", visits' = [visits EXCEPT ![c] = @ + 1],
         NEW d \in Domains, OnlyDatabase(d), DatabaseOf(d)', Enter(c, d),
         db'[d].ref_count = db[d].ref_count + 1, IsOpen(d) => db'[d].tables = db[d].tables
  PROVE  Inv'
<1>1. /\ client' = [client EXCEPT ![c] = [Gone EXCEPT !.phase = "start", !.domain = d]]
      /\ DOMAIN client = Clients /\ visits \in [Clients -> Nat]
  BY DEF Enter, Inv, TypeOK
<1>2. /\ OnlyClient(c) /\ client'[c].phase = "start" /\ client'[c].domain = d
      /\ DOMAIN client'[c].streams = {} /\ DOMAIN client'[c] = {"phase", "domain", "sender", "streams"}
  BY <1>1 DEF OnlyClient, Gone
<1>3. visits' \in [Clients -> Nat] /\ visits'[c] = visits[c] + 1 /\ visits'[c] # visits[c]
      /\ \A e \in Clients : visits[e] <= visits'[e]
  BY <1>1
<1>4. ClientOK(client'[c])
  BY <1>2 DEF ClientOK
<1>5. TypeOK'
  BY <1>2, <1>3, <1>4, TypeStays
<1>6. RefInv'
  <2>1. client[c].domain \notin Domains
    BY GoneHoldNothing DEF Inv
  <2>2. ASSUME NEW e \in Domains, e # d PROVE Holders(e)' = Holders(e) /\ db'[e] = db[e]
    BY <1>2, <2>1, <2>2 DEF Holders, OnlyClient, OnlyDatabase
  <2>3. Holders(d)' \subseteq Holders(d) \cup {c}
    BY <1>2 DEF Holders, OnlyClient
  <2>4. Cardinality(Holders(d)) <= db[d].ref_count /\ db[d].ref_count \in Nat
    BY DEF Inv, RefInv, TypeOK, DatabaseOK
  <2>5. Holders(d) \in SUBSET Clients /\ Holders(d)' \in SUBSET Clients
    BY DEF Holders
  <2>6. Cardinality(Holders(d)') <= db'[d].ref_count
    BY <2>3, <2>4, <2>5, Counting, DatabasesAssumption
  <2>7. ASSUME NEW e \in Domains PROVE Cardinality(Holders(e)') <= db'[e].ref_count
    <3>1. CASE e = d
      BY <2>6, <3>1
    <3>2. CASE e # d
      BY <2>2, <3>2 DEF Inv, RefInv
    <3> QED BY <3>1, <3>2
  <2> QED BY <2>7 DEF RefInv
<1>7. ASSUME NEW e \in Clients, e # c
      PROVE  client[e].domain = d => Extends(backend, db[d].tables, db'[d].tables)
  <2>1. CASE IsOpen(d)
    BY <2>1 DEF Extends
  <2>2. CASE ~IsOpen(d)
    BY <2>2, ClosedIsFree DEF Inv
  <2> QED BY <2>1, <2>2
<1>8. UsedInv'
  <2>1. UsedOK(backend, client'[c], TablesOf(c)')
    BY <1>2 DEF UsedOK
  <2>2. ASSUME NEW e \in Clients PROVE UsedOK(backend, client'[e], TablesOf(e)')
    <3>1. CASE e = c
      BY <2>1, <3>1
    <3>2. CASE e # c
      BY <1>2, <1>7, <3>2, OthersStay
    <3> QED BY <3>1, <3>2
  <2> QED BY <2>2 DEF UsedInv
<1>9. GraphInv'
  <2>1. ASSUME NEW e \in Clients, client'[e].phase # "gone", visits'[e] = visits[e]
        PROVE  /\ client[e].phase # "gone"
               /\ \A m : Agrees(m, client[e], TablesOf(e)) => Agrees(m, client'[e], TablesOf(e)')
    <3>1. e # c
      BY <1>3, <2>1
    <3>2. client'[e] = client[e]
      BY <1>2, <3>1 DEF OnlyClient
    <3> QED BY <1>2, <1>7, <2>1, <3>1, <3>2, OthersStay
  <2> QED BY <1>3, <2>1, GraphStays
<1> QED BY <1>5, <1>6, <1>8, <1>9 DEF Inv

(* A client goes; the last one closes the database.                        *)
LEMMA LeaveDoes ==
  ASSUME Inv, backend' = backend, graph' = graph, visits' = visits,
         NEW c \in Clients, client[c].phase # "gone", NEW d, d = client[c].domain,
         OnlyDatabase(d), DatabaseOf(d)', client' = [client EXCEPT ![c] = Gone],
         db'[d].ref_count = db[d].ref_count - 1,
         db[d].ref_count > 1 => db'[d].tables = db[d].tables
  PROVE  Inv'
<1>0. /\ d \in Domains /\ db[d].ref_count \in Nat /\ db[d].ref_count > 0
      /\ db[d].ref_count = 1 => \A e \in Clients : client[e].domain = d => e = c
  BY HeldIsOpen DEF Inv
<1>1. OnlyClient(c) /\ client'[c] = Gone /\ visits' \in [Clients -> Nat]
  BY DEF OnlyClient, Inv, TypeOK
<1>2. /\ ClientOK(Gone) /\ Gone.phase = "gone" /\ DOMAIN Gone.streams = {}
      /\ Gone.domain \notin Domains
  BY DatabasesAssumption DEF ClientOK, Gone
<1>3. TypeOK'
  BY <1>0, <1>1, <1>2, TypeStays
<1>4. RefInv'
  <2>1. ASSUME NEW e \in Domains, e # d PROVE Holders(e)' = Holders(e) /\ db'[e] = db[e]
    BY <1>1, <1>2, <2>1 DEF Holders, OnlyClient, OnlyDatabase
  <2>2. Holders(d)' \subseteq Holders(d) \ {c} /\ c \in Holders(d)
    BY <1>0, <1>1, <1>2 DEF Holders, OnlyClient
  <2>3. Cardinality(Holders(d)) <= db[d].ref_count
    BY <1>0 DEF Inv, RefInv
  <2>4. Holders(d) \in SUBSET Clients /\ Holders(d)' \in SUBSET Clients
    BY DEF Holders
  <2>5. Cardinality(Holders(d)') <= db'[d].ref_count
    BY <1>0, <2>2, <2>3, <2>4, Counting, DatabasesAssumption
  <2>6. ASSUME NEW e \in Domains PROVE Cardinality(Holders(e)') <= db'[e].ref_count
    <3>1. CASE e = d
      BY <2>5, <3>1
    <3>2. CASE e # d
      BY <2>1, <3>2 DEF Inv, RefInv
    <3> QED BY <3>1, <3>2
  <2> QED BY <2>6 DEF RefInv
<1>5. ASSUME NEW e \in Clients, e # c
      PROVE  client[e].domain = d => Extends(backend, db[d].tables, db'[d].tables)
  <2>1. CASE db[d].ref_count > 1
    BY <2>1 DEF Extends
  <2>2. CASE db[d].ref_count = 1
    BY <1>0, <1>5, <2>2
  <2> QED BY <1>0, <2>1, <2>2
<1>6. UsedInv'
  <2>1. UsedOK(backend, client'[c], TablesOf(c)')
    BY <1>1, <1>2 DEF UsedOK
  <2>2. ASSUME NEW e \in Clients PROVE UsedOK(backend, client'[e], TablesOf(e)')
    <3>1. CASE e = c
      BY <2>1, <3>1
    <3>2. CASE e # c
      BY <1>0, <1>1, <1>5, <3>2, OthersStay
    <3> QED BY <3>1, <3>2
  <2> QED BY <2>2 DEF UsedInv
<1>7. GraphInv'
  <2>1. ASSUME NEW e \in Clients, client'[e].phase # "gone"
        PROVE  /\ client[e].phase # "gone"
               /\ \A m : Agrees(m, client[e], TablesOf(e)) => Agrees(m, client'[e], TablesOf(e)')
    <3>1. e # c
      BY <1>1, <1>2, <2>1
    <3>2. client'[e] = client[e]
      BY <1>1, <3>1 DEF OnlyClient
    <3> QED BY <1>0, <1>1, <1>5, <2>1, <3>1, <3>2, OthersStay
  <2>2. \A e \in Clients : visits[e] <= visits'[e]
    BY DEF Inv, TypeOK
  <2> QED BY <1>1, <2>1, <2>2, GraphStays
<1> QED BY <1>3, <1>4, <1>6, <1>7 DEF Inv


-----------------------------------------------------------------------------
(* The operations of a client.                                             *)

(* A database whose connection was used stays sound.                       *)
LEMMA ConnectStays ==
  ASSUME NEW b, NEW r, NEW c, NEW rows, NEW f, NEW event, DatabaseOK(b, r, c, rows, f, event),
         r.ref_count > 0, NEW d, Keeps(b, c, d),
         NEW q, DOMAIN q = DOMAIN r, q.ref_count = r.ref_count, q.tables = r.tables,
         NEW g, g \in BOOLEAN, ~g => ~f /\ d.txn # "aborted" /\ d.link = -1
  PROVE  DatabaseOK(b, q, d, rows, g, event)
<1>1. ConnOK(b, c) /\ ConnOK(b, d)
  BY DEF DatabaseOK, Keeps
<1>2. ToldOK(event, q, rows, g)
  BY DEF DatabaseOK, ToldOK
<1>3. CASE b = "fuseki"
  BY <1>1, <1>2, <1>3 DEF DatabaseOK
<1>4. CASE b # "fuseki"
  <2>1. /\ Metadata \in DOMAIN Safe(b, c).tables
        /\ TablesOK(b, r.tables, c)
        /\ StoredOK(c, rows, f)
    BY <1>4 DEF DatabaseOK, SqlOK
  <2>2. Grows(Safe(b, c), Safe(b, d))
    BY <1>1, SafeGrows
  <2>3. TablesOK(b, q.tables, d)
    <3>1. /\ c.prepared \subseteq d.prepared /\ (d.link = -1 => c.link = -1)
          /\ (c.link = 0 => d.link = 0)
      BY DEF Keeps
    <3>2. \A N : Recorded(Safe(b, c), N) => Recorded(Safe(b, d), N)
      BY <2>2 DEF Grows, Recorded
    <3> QED BY <2>1, <3>1, <3>2 DEF TablesOK
  <2>4. StoredOK(d, rows, g)
    <3>1. ASSUME ~g PROVE rows \subseteq d.view.rows
      <4>1. c.txn # "aborted" /\ rows \subseteq c.view.rows
        BY <2>1, <3>1 DEF StoredOK
      <4> QED BY <4>1 DEF Keeps, Grows
    <3> QED BY <3>1 DEF StoredOK
  <2>5. SqlOK(q, b, d, rows, g)
    BY <2>1, <2>2, <2>3, <2>4 DEF SqlOK, Grows
  <2> QED BY <1>1, <1>2, <1>4, <2>5 DEF DatabaseOK
<1> QED BY <1>3, <1>4

(* A client whose streams are the same keeps its tables.                   *)
LEMMA ClientStays ==
  ASSUME NEW k, ClientOK(k), k.phase # "gone",
         NEW q, DOMAIN q = DOMAIN k, q.phase # "gone", q.domain = k.domain, q.streams = k.streams
  PROVE  /\ ClientOK(q) /\ GoesOn(k, q)
         /\ \A b, tables : UsedOK(b, k, tables) => UsedOK(b, q, tables)
BY DEF ClientOK, GoesOn, UsedOK

(* What Connect says of the other connections, and of this one.            *)
LEMMA ConnectDoes ==
  ASSUME TypeOK, NEW d \in Domains, NEW e, Connect(d, e)
  PROVE  /\ DOMAIN conn' = Domains /\ DOMAIN failed' = Domains /\ conn'[d] = e
         /\ failed'[d] = (failed[d] \/ e.txn = "aborted" \/ e.link # -1)
         /\ failed'[d] \in BOOLEAN /\ (~failed'[d] => ~failed[d] /\ e.txn # "aborted" /\ e.link = -1)
         /\ \A x \in Domains \ {d} : conn'[x] = conn[x] /\ failed'[x] = failed[x]
<1>1. /\ DOMAIN conn = Domains /\ DOMAIN failed = Domains
      /\ conn' = [conn EXCEPT ![d] = e]
      /\ failed' = [failed EXCEPT ![d] = failed[d] \/ e.txn = "aborted" \/ e.link # -1]
      /\ failed[d] \in BOOLEAN
  BY DEF TypeOK, Connect, DatabaseOK
<1>2. failed'[d] = (failed[d] \/ e.txn = "aborted" \/ e.link # -1)
  BY <1>1
<1>3. /\ DOMAIN conn' = Domains /\ DOMAIN failed' = Domains /\ conn'[d] = e
      /\ \A x \in Domains \ {d} : conn'[x] = conn[x] /\ failed'[x] = failed[x]
  BY <1>1
<1> QED BY <1>1, <1>2, <1>3

(* A client that uses the connection and leaves the tables.                *)
LEMMA UseDoes ==
  ASSUME Inv, UNCHANGED <<backend, told, graph, taken, visits>>,
         NEW c \in Clients, client[c].phase # "gone", NEW d, d = client[c].domain,
         NEW e, Keeps(backend, conn[d], e), Connect(d, e),
         DOMAIN db' = Domains, \A x \in Domains \ {d} : db'[x] = db[x],
         DOMAIN db'[d] = DOMAIN db[d], db'[d].ref_count = db[d].ref_count,
         db'[d].tables = db[d].tables,
         OnlyClient(c), DOMAIN client'[c] = DOMAIN client[c], client'[c].phase # "gone",
         client'[c].domain = d, client'[c].streams = client[c].streams
  PROVE  Inv'
<1>1. d \in Domains /\ db[d].ref_count > 0
  BY HeldIsOpen DEF Inv
<1>2. /\ DOMAIN conn' = Domains /\ DOMAIN failed' = Domains /\ conn'[d] = e
      /\ failed'[d] \in BOOLEAN /\ (~failed'[d] => ~failed[d] /\ e.txn # "aborted" /\ e.link = -1)
      /\ \A x \in Domains \ {d} : conn'[x] = conn[x] /\ failed'[x] = failed[x]
  BY <1>1, ConnectDoes DEF Inv
<1>3. OnlyDatabase(d)
  BY <1>2 DEF OnlyDatabase, Inv, TypeOK
<1>4. DatabaseOK(backend, db'[d], e, taken[d], failed'[d], told[d])
  <2>1. DatabaseOK(backend, db[d], conn[d], taken[d], failed[d], told[d])
    BY <1>1 DEF Inv, TypeOK
  <2> QED BY <1>1, <1>2, <2>1, ConnectStays
<1>5. DatabaseOf(d)'
  BY <1>2, <1>4 DEF DatabaseOf
<1>6. /\ ClientOK(client'[c]) /\ GoesOn(client[c], client'[c])
      /\ UsedOK(backend, client'[c], db'[d].tables)
  <2>1. ClientOK(client[c]) /\ UsedOK(backend, client[c], db[d].tables)
    BY DEF Inv, TypeOK, UsedInv, TablesOf
  <2> QED BY <2>1, ClientStays
<1>7. Extends(backend, db[d].tables, db'[d].tables)
  BY DEF Extends
<1> QED BY <1>1, <1>3, <1>5, <1>6, <1>7, WorkDoes DEF Inv

(* The three backends.                                                     *)
LEMMA BackendIs ==
  ASSUME TypeOK
  PROVE  backend \in {"sqlite", "postgresql", "fuseki"} /\ (~Semantic => backend \in Sql)
BY DatabasesAssumption DEF TypeOK, Semantic, Sql

(* The start-time header.                                                  *)
LEMMA StartTimeDoes ==
  ASSUME Inv, NEW c \in Clients, ProcessStartTime(c)
  PROVE  Inv'
<1>1. PICK d : d = client[c].domain
  OBVIOUS
<1>2. client[c].phase # "gone"
  BY DEF ProcessStartTime
<1>3. d \in Domains /\ ConnOK(backend, conn[d])
  <2>1. d \in Domains
    BY <1>1, <1>2, HeldIsOpen DEF Inv
  <2> QED BY <2>1 DEF Inv, TypeOK, DatabaseOK
<1>4. PICK e : /\ e = IF (db[d].start_time = 0 \/ Semantic) /\ ~Semantic
                      THEN SetMetadata(backend, conn[d], StartTimeKey, StartOf[c]) ELSE conn[d]
               /\ Connect(d, e)
  BY <1>1 DEF ProcessStartTime
<1>5. Keeps(backend, conn[d], e)
  BY <1>3, <1>4, SetStartTimeDoes, KeepsAll
<1>6. /\ DOMAIN db' = Domains /\ \A x \in Domains \ {d} : db'[x] = db[x]
      /\ DOMAIN db'[d] = DOMAIN db[d] /\ db'[d].ref_count = db[d].ref_count
      /\ db'[d].tables = db[d].tables
  <2>1. db' = [db EXCEPT ![d].start_time = StartOf[c]] \/ db' = db
    BY <1>1 DEF ProcessStartTime
  <2>2. DOMAIN db = Domains /\ DOMAIN db[d] = {"ref_count", "start_time", "tables"}
    BY <1>3 DEF Inv, TypeOK, DatabaseOK
  <2> QED BY <1>3, <2>1, <2>2
<1>7. /\ OnlyClient(c) /\ DOMAIN client'[c] = DOMAIN client[c] /\ client'[c].phase # "gone"
      /\ client'[c].domain = d /\ client'[c].streams = client[c].streams
  <2>1. client' = [client EXCEPT ![c].phase = "sender"]
    BY DEF ProcessStartTime
  <2>2. DOMAIN client = Clients /\ DOMAIN client[c] = {"phase", "domain", "sender", "streams"}
    BY DEF Inv, TypeOK, ClientOK
  <2> QED BY <1>1, <2>1, <2>2 DEF OnlyClient
<1>8. UNCHANGED <<backend, told, graph, taken, visits>>
  BY DEF ProcessStartTime
<1> QED BY <1>1, <1>2, <1>4, <1>5, <1>6, <1>7, <1>8, UseDoes

(* The sender-id header.                                                   *)
LEMMA SenderIdDoes ==
  ASSUME Inv, NEW c \in Clients, ProcessSenderId(c)
  PROVE  Inv'
<1>1. PICK d : d = client[c].domain
  OBVIOUS
<1>2. client[c].phase # "gone" /\ UNCHANGED <<backend, told, graph, taken, visits, db>>
  BY DEF ProcessSenderId
<1>3. d \in Domains /\ ConnOK(backend, conn[d])
  <2>1. d \in Domains
    BY <1>1, <1>2, HeldIsOpen DEF Inv
  <2> QED BY <2>1 DEF Inv, TypeOK, DatabaseOK
<1>4. DOMAIN client = Clients /\ DOMAIN client[c] = {"phase", "domain", "sender", "streams"}
      /\ DOMAIN db = Domains
  BY DEF Inv, TypeOK, ClientOK
<1>5. CASE Semantic
  <2>1. client' = [client EXCEPT ![c].phase = "data"] /\ UNCHANGED <<conn, failed>>
    BY <1>5 DEF ProcessSenderId, ProcessSemSender
  <2>2. /\ OnlyClient(c) /\ DOMAIN client'[c] = DOMAIN client[c] /\ client'[c].phase # "gone"
        /\ client'[c].domain = d /\ client'[c].streams = client[c].streams
    BY <1>1, <1>4, <2>1 DEF OnlyClient
  <2>3. OnlyDatabase(d) /\ DatabaseOf(d)'
    BY <1>2, <1>3, <2>1 DEF OnlyDatabase, DatabaseOf, Inv, TypeOK
  <2>4. /\ ClientOK(client'[c]) /\ GoesOn(client[c], client'[c])
        /\ UsedOK(backend, client'[c], db'[d].tables)
    <3>1. ClientOK(client[c]) /\ UsedOK(backend, client[c], db[d].tables)
      BY <1>1 DEF Inv, TypeOK, UsedInv, TablesOf
    <3> QED BY <1>1, <1>2, <2>2, <3>1, ClientStays
  <2>5. Extends(backend, db[d].tables, db'[d].tables)
    BY <1>2 DEF Extends
  <2> QED BY <1>1, <1>2, <1>3, <2>2, <2>3, <2>4, <2>5, WorkDoes DEF Inv
<1>6. CASE ~Semantic
  <2>1. PICK r : /\ r = AddSenderId(backend, conn[d], SenderOf[c]) /\ Connect(d, r.c)
                 /\ client' = [client EXCEPT ![c].phase = "data", ![c].sender = r.id]
    BY <1>1, <1>6 DEF ProcessSenderId, ProcessSqlSender
  <2>2. Keeps(backend, conn[d], r.c)
    BY <1>3, <2>1, AddSenderIdDoes
  <2>3. /\ OnlyClient(c) /\ DOMAIN client'[c] = DOMAIN client[c] /\ client'[c].phase # "gone"
        /\ client'[c].domain = d /\ client'[c].streams = client[c].streams
    BY <1>1, <1>4, <2>1 DEF OnlyClient
  <2>4. /\ DOMAIN db' = Domains /\ \A x \in Domains \ {d} : db'[x] = db[x]
        /\ DOMAIN db'[d] = DOMAIN db[d] /\ db'[d].ref_count = db[d].ref_count
        /\ db'[d].tables = db[d].tables
    BY <1>2, <1>4
  <2> QED BY <1>1, <1>2, <2>1, <2>2, <2>3, <2>4, UseDoes
<1> QED BY <1>5, <1>6


-----------------------------------------------------------------------------
(* Declaring a stream.                                                     *)

(* The name that a stream gets is free, or that of a table like it.        *)
LEMMA RenamedDoes ==
  ASSUME NEW tables, NEW s, IsSchema(s), NEW r, r = Renamed(tables, s), r # NoSchema,
         NEW t, t = FindTable(tables, r.name), t # 0
  PROVE  IsSchema(r) /\ r.fields = s.fields /\ FirstDifference(r, tables[t].schema) = 0
<1> DEFINE fitting == {i \in Attempts : Takes(tables, s, i)}
<1>1. r = IF fitting = {} THEN NoSchema
          ELSE [s EXCEPT !.name = NameOf(s, CHOOSE i \in fitting : \A j \in fitting : i <= j)]
  BY DEF Renamed
<1>2. fitting # {} /\ fitting \in SUBSET Nat
  BY <1>1, DatabasesAssumption DEF Attempts
<1>3. \E i \in fitting : \A j \in fitting : i <= j
  <2> HIDE DEF fitting
  <2> QED BY <1>2, LeastNat
<1>4. PICK i \in fitting : r = [s EXCEPT !.name = NameOf(s, i)]
  <2>1. (CHOOSE i \in fitting : \A j \in fitting : i <= j) \in fitting
    <3> HIDE DEF fitting
    <3> QED BY <1>3
  <2> HIDE DEF fitting
  <2> QED BY <1>1, <1>2, <2>1
<1>5. DOMAIN r = DOMAIN s /\ r.name = NameOf(s, i) /\ r.fields = s.fields
  BY <1>4 DEF IsSchema
<1>6. SchemaDiff(r, tables[t].schema) = 0
  BY <1>4, <1>5 DEF Takes
<1>7. FirstDifference(r, tables[t].schema) = 0
  BY <1>6 DEF SchemaDiff
<1> QED BY <1>5, <1>7 DEF IsSchema

(* A renamed schema has the fields it had.                                 *)
LEMMA RenamedIs ==
  ASSUME NEW tables, NEW s, IsSchema(s), NEW r, r = Renamed(tables, s), r # NoSchema
  PROVE  IsSchema(r) /\ r.fields = s.fields /\ DOMAIN r = {"name", "fields"} /\ IsList(r.fields)
<1>1. PICK n : r = [s EXCEPT !.name = n]
  BY DEF Renamed
<1>2. DOMAIN r = DOMAIN s /\ r.fields = s.fields
  BY <1>1 DEF IsSchema
<1> QED BY <1>2 DEF IsSchema, IsList

(* A copy of the stream's schema fits it, and so does a table like it.     *)
LEMMA CopyFits ==
  ASSUME NEW s, IsSchema(s), NEW r, IsSchema(r), r.fields = s.fields
  PROVE  FirstDifference(SchemaCopy(r), s) = 0
<1>1. IsList(s.fields) /\ DOMAIN r = {"name", "fields"}
  BY DEF IsSchema, IsList
<1>2. PICK q : q = SchemaCopy(r)
  OBVIOUS
<1>3. /\ IsList(q.fields) /\ Len(q.fields) = Len(s.fields)
      /\ \A i \in DOMAIN s.fields : q.fields[i] = CopyField(s.fields[i])
  BY <1>1, <1>2, CopiesAreSame
<1>4. DOMAIN s.fields = 1..Len(s.fields)
  BY <1>1, ListFacts
<1>5. \A i \in 1..Len(s.fields) : q.fields[i].name = s.fields[i].name /\ q.fields[i].type = s.fields[i].type
  BY <1>3, <1>4 DEF CopyField, IsSchema
<1>6. Alike(q.fields, s.fields)
  BY <1>3, <1>5 DEF Alike, SameField
<1> QED BY <1>1, <1>2, <1>3, <1>6, NoDifference

(* A table that fits the renamed schema has the fields of the stream.      *)
LEMMA FoundFits ==
  ASSUME NEW s, IsSchema(s), NEW r, IsSchema(r), r.fields = s.fields,
         NEW q, IsList(q.fields), FirstDifference(r, q) = 0
  PROVE  FirstDifference(q, s) = 0
<1>1. IsList(s.fields) /\ IsList(r.fields)
  BY DEF IsSchema, IsList
<1>2. Alike(s.fields, q.fields)
  BY <1>1, NoDifference
<1>3. Alike(q.fields, s.fields)
  BY <1>2 DEF Alike, SameField
<1> QED BY <1>1, <1>3, NoDifference

(* The stream s of a client gets the table at place t.                     *)
LEMMA AssignDoes ==
  ASSUME NEW k, ClientOK(k), k.phase # "gone", NEW s, IsSchema(s), s \notin DOMAIN k.streams,
         NEW b, NEW tables, UsedOK(b, k, tables), NEW t,
         t # 0 => Usable(b, tables, t) /\ FirstDifference(tables[t].schema, s) = 0,
         NEW q, q = [k EXCEPT !.streams = Put(@, s, [table |-> t, rows |-> 0])]
  PROVE  ClientOK(q) /\ GoesOn(k, q) /\ UsedOK(b, q, tables)
<1>1. DOMAIN q = DOMAIN k /\ q.phase = k.phase /\ q.domain = k.domain
      /\ q.streams = Put(k.streams, s, [table |-> t, rows |-> 0])
  BY DEF ClientOK
<1>2. /\ DOMAIN q.streams = {s} \cup DOMAIN k.streams
      /\ q.streams[s] = [table |-> t, rows |-> 0]
      /\ \A x \in DOMAIN k.streams : q.streams[x] = k.streams[x]
  BY <1>1 DEF Put
<1>3. \A x \in DOMAIN q.streams : DOMAIN q.streams[x] = {"table", "rows"} /\ IsSchema(x)
  BY <1>2 DEF ClientOK
<1>4. ClientOK(q)
  BY <1>1, <1>3 DEF ClientOK
<1>5. GoesOn(k, q)
  BY <1>1, <1>2 DEF GoesOn
<1>6. UsedOK(b, q, tables)
  <2>1. ASSUME NEW x \in DOMAIN q.streams, q.streams[x].table # 0
        PROVE  /\ Usable(b, tables, q.streams[x].table)
               /\ FirstDifference(tables[q.streams[x].table].schema, x) = 0
    <3>1. CASE x = s
      BY <1>2, <2>1, <3>1
    <3>2. CASE x # s
      BY <1>2, <2>1, <3>2 DEF UsedOK
    <3> QED BY <3>1, <3>2
  <2> QED BY <2>1 DEF UsedOK
<1> QED BY <1>4, <1>5, <1>6

(* What database_create_table registers.                                   *)
LEMMA RegistrationDoes ==
  ASSUME NEW made \in {"nothing", "inner", "outer", "both"},
         NEW schema, DOMAIN schema = {"name", "fields"}, IsList(schema.fields),
         NEW new, new = Registration(made, schema)
  PROVE  /\ IsList(new) /\ 1 \in DOMAIN new
         /\ \A i \in DOMAIN new : TableShape(new[i])
         /\ \A i \in Linked(new) : new[i].schema.name = schema.name /\ made # "nothing"
                                   /\ (made = "both" => new[i].handle = "ready")
                                   /\ new[i].schema = SchemaCopy(schema)
         /\ made = "both" => new[1] = Table(schema, "ready")
<1>1. TableShape(Unlinked)
  <2>1. IsList(<<>>)
    BY EmptySeq DEF IsList
  <2> QED BY <2>1 DEF TableShape, Unlinked, NoSchema
<1>2. \A h \in {"none", "ready", "freed"} :
        /\ TableShape(Table(schema, h)) /\ Table(schema, h).handle = h
        /\ Table(schema, h).schema.name = schema.name /\ Table(schema, h).schema = SchemaCopy(schema)
  BY TableIs
<1>3. \A x, y : IsList(<<x>>) /\ IsList(<<x, y>>)
  <2> TAKE x, y
  <2>1. <<x>> \in Seq({x, y}) /\ <<x, y>> \in Seq({x, y})
    OBVIOUS
  <2> QED BY <2>1, ListIntro
<1>4. PICK ready, freed : ready = Table(schema, "ready") /\ freed = Table(schema, "freed")
  OBVIOUS
<1>5. /\ TableShape(ready) /\ ready.handle = "ready" /\ ready.schema.name = schema.name
      /\ TableShape(freed) /\ freed.schema.name = schema.name
      /\ ready.schema = SchemaCopy(schema) /\ freed.schema = SchemaCopy(schema)
  BY <1>2, <1>4
<1>6. CASE made = "nothing"
  <2>1. new = <<Unlinked>>
    BY <1>6 DEF Registration
  <2>2. DOMAIN new = {1} /\ new[1] = Unlinked
    BY <2>1
  <2>3. IsList(new)
    BY <1>3, <2>1
  <2> QED BY <1>1, <1>6, <2>2, <2>3 DEF Linked
<1>7. CASE made = "inner"
  <2>1. new = <<Unlinked, freed>>
    BY <1>4, <1>7 DEF Registration
  <2>2. DOMAIN new = {1, 2} /\ new[1] = Unlinked /\ new[2] = freed
    BY <2>1
  <2>3. IsList(new)
    BY <1>3, <2>1
  <2> QED BY <1>1, <1>5, <1>7, <2>2, <2>3 DEF Linked
<1>8. CASE made = "outer"
  <2>1. new = <<Unlinked, ready>>
    BY <1>4, <1>8 DEF Registration
  <2>2. DOMAIN new = {1, 2} /\ new[1] = Unlinked /\ new[2] = ready
    BY <2>1
  <2>3. IsList(new)
    BY <1>3, <2>1
  <2> QED BY <1>1, <1>5, <1>8, <2>2, <2>3 DEF Linked
<1>9. CASE made = "both"
  <2>1. new = <<ready, ready>>
    BY <1>4, <1>9 DEF Registration
  <2>2. DOMAIN new = {1, 2} /\ new[1] = ready /\ new[2] = ready
    BY <2>1
  <2>3. IsList(new)
    BY <1>3, <2>1
  <2> QED BY <1>4, <1>5, <1>9, <2>2, <2>3 DEF Linked
<1> QED BY <1>6, <1>7, <1>8, <1>9

(* Tables added behind those there are.                                    *)
LEMMA TablesGrow ==
  ASSUME NEW tables, IsList(tables), \A i \in DOMAIN tables : TableShape(tables[i]),
         NEW new, IsList(new), \A i \in DOMAIN new : TableShape(new[i])
  PROVE  LET both == tables \o new IN
         /\ IsList(both) /\ \A i \in DOMAIN both : TableShape(both[i])
         /\ \A b : Extends(b, tables, both)
         /\ \A b, c : TablesOK(b, tables, c) /\ TablesOK(b, new, c) => TablesOK(b, both, c)
         /\ \A i \in DOMAIN new : both[Len(tables) + i] = new[i] /\ Len(tables) + i \in DOMAIN both
<1>1. PICK both : both = tables \o new
  OBVIOUS
<1>2. /\ Len(tables) \in Nat /\ DOMAIN tables = 1..Len(tables)
      /\ Len(new) \in Nat /\ DOMAIN new = 1..Len(new)
  BY ListFacts
<1>3. /\ IsList(both) /\ DOMAIN both = 1..Len(tables) + Len(new)
      /\ \A i \in 1..Len(tables) : both[i] = tables[i]
      /\ \A i \in 1..Len(new) : both[Len(tables) + i] = new[i]
  BY <1>1, ListConcat
<1>4. ASSUME NEW i \in DOMAIN both
      PROVE  \/ i \in DOMAIN tables /\ both[i] = tables[i]
             \/ \E j \in DOMAIN new : both[i] = new[j]
  <2>1. CASE i <= Len(tables)
    BY <1>2, <1>3, <2>1
  <2>2. CASE ~(i <= Len(tables))
    <3>1. i - Len(tables) \in 1..Len(new) /\ i = Len(tables) + (i - Len(tables))
      BY <1>2, <1>3, <2>2
    <3> QED BY <1>2, <1>3, <3>1
  <2> QED BY <2>1, <2>2
<1>5. \A i \in DOMAIN both : TableShape(both[i])
  BY <1>4
<1>6. \A b : Extends(b, tables, both)
  BY <1>2, <1>3 DEF Extends, Linked
<1>7. ASSUME NEW b, NEW c, TablesOK(b, tables, c), TablesOK(b, new, c) PROVE TablesOK(b, both, c)
  <2>1. ASSUME NEW i \in Linked(both)
        PROVE  \/ i \in Linked(tables) /\ both[i] = tables[i]
               \/ \E j \in Linked(new) : both[i] = new[j]
    BY <1>4 DEF Linked
  <2> QED BY <1>7, <2>1 DEF TablesOK
<1>8. \A i \in DOMAIN new : both[Len(tables) + i] = new[i] /\ Len(tables) + i \in DOMAIN both
  BY <1>2, <1>3
<1> QED BY <1>1, <1>3, <1>5, <1>6, <1>7, <1>8

(* What a client may declare has fields of types that oml_value knows.     *)
LEMMA GivenIsSchema ==
  ASSUME Inv, NEW c \in Clients, NEW s \in StreamsOf[backend][c]
  PROVE  IsSchema(s)
<1>1. backend \in Backends
  BY DEF Inv, TypeOK
<1> QED BY <1>1, DatabasesAssumption

(* A stream is declared, and gets a table that is there and fits, or none. *)
LEMMA StreamDoes ==
  ASSUME Inv, UNCHANGED <<backend, graph, visits>>,
         NEW c \in Clients, client[c].phase # "gone", NEW d, d = client[c].domain,
         NEW s \in StreamsOf[backend][c], s \notin DOMAIN client[c].streams,
         OnlyDatabase(d), DatabaseOf(d)', db'[d].ref_count = db[d].ref_count,
         Extends(backend, db[d].tables, db'[d].tables),
         NEW t, Assign(c, s, t),
         t # 0 => /\ Usable(backend, db'[d].tables, t)
                  /\ FirstDifference(db'[d].tables[t].schema, s) = 0
  PROVE  Inv'
<1>1. d \in Domains
  BY HeldIsOpen DEF Inv
<1>2. ClientOK(client[c]) /\ UsedOK(backend, client[c], db[d].tables) /\ DOMAIN client = Clients
  BY DEF Inv, TypeOK, UsedInv, TablesOf
<1>3. UsedOK(backend, client[c], db'[d].tables)
  BY <1>2, ExtendsKeeps
<1>4. IsSchema(s)
  BY GivenIsSchema
<1>5. /\ OnlyClient(c)
      /\ client'[c] = [client[c] EXCEPT !.streams = Put(@, s, [table |-> t, rows |-> 0])]
  BY <1>2 DEF Assign, OnlyClient, ClientOK
<1>6. /\ ClientOK(client'[c]) /\ GoesOn(client[c], client'[c])
      /\ UsedOK(backend, client'[c], db'[d].tables)
  BY <1>2, <1>3, <1>4, <1>5, AssignDoes
<1> QED BY <1>1, <1>5, <1>6, WorkDoes DEF Inv

(* A stream that is refused, or uses a table that there is.                *)
LEMMA SameTablesDo ==
  ASSUME Inv, UNCHANGED <<backend, told, graph, taken, visits, db, conn, failed>>,
         NEW c \in Clients, client[c].phase # "gone", NEW d, d = client[c].domain,
         NEW s \in StreamsOf[backend][c], s \notin DOMAIN client[c].streams,
         NEW t, Assign(c, s, t),
         t # 0 => /\ Usable(backend, db[d].tables, t)
                  /\ FirstDifference(db[d].tables[t].schema, s) = 0
  PROVE  Inv'
<1>1. d \in Domains
  BY HeldIsOpen DEF Inv
<1>2. OnlyDatabase(d) /\ DatabaseOf(d)'
  BY <1>1 DEF OnlyDatabase, DatabaseOf, Inv, TypeOK
<1>3. Extends(backend, db[d].tables, db'[d].tables)
  BY DEF Extends
<1> QED BY <1>2, <1>3, StreamDoes

HasDatabase(c, d) == client[c].phase # "gone" /\ client[c].domain = d

Undeclared(c, s) == s \notin DOMAIN client[c].streams

FitsStream(schema, s) == IsSchema(schema) /\ schema.fields = s.fields

(* A table is created, or what is left of the attempt.                     *)
LEMMA CreateSqlTableDoes ==
  ASSUME Inv, ~Semantic, UNCHANGED <<backend, told, graph, taken, visits>>,
         NEW c \in Clients, NEW d, HasDatabase(c, d), NEW s \in StreamsOf[backend][c], Undeclared(c, s),
         NEW schema, FitsStream(schema, s), CreateSqlTable(c, d, s, schema)
  PROVE  Inv'
<1>1. d \in Domains /\ db[d].ref_count > 0
  BY HeldIsOpen DEF Inv, HasDatabase
<1>2. DatabaseOf(d) /\ backend \in Sql /\ backend # "fuseki"
  BY <1>1, BackendIs DEF Inv, TypeOK, DatabaseOf, Semantic
<1>3. PICK r : /\ r = TableCreate(backend, conn[d], schema) /\ Connect(d, r.c)
               /\ db' = [db EXCEPT ![d].tables = @ \o Registration(r.made, schema)]
               /\ Assign(c, s, IF r.made = "both" THEN Len(db[d].tables) + 1 ELSE 0)
  BY DEF CreateSqlTable
<1>4. PICK new : new = Registration(r.made, schema)
  OBVIOUS
<1>5. PICK both : both = db[d].tables \o new
  OBVIOUS
<1>6. /\ DOMAIN db' = Domains /\ (\A x \in Domains \ {d} : db'[x] = db[x])
      /\ DOMAIN db'[d] = DOMAIN db[d] /\ db'[d].ref_count = db[d].ref_count
      /\ db'[d].tables = both
  BY <1>1, <1>2, <1>3, <1>4, <1>5 DEF Inv, TypeOK, DatabaseOf, DatabaseOK
<1>7. /\ ConnOK(backend, conn[d]) /\ Metadata \in DOMAIN Safe(backend, conn[d]).tables
      /\ IsList(db[d].tables) /\ \A i \in DOMAIN db[d].tables : TableShape(db[d].tables[i])
  BY <1>1, <1>2 DEF DatabaseOf, DatabaseOK, SqlOK
<1>8. /\ Keeps(backend, conn[d], r.c)
      /\ r.made \in {"nothing", "inner", "outer", "both"}
      /\ r.made \in {"inner", "outer"} => r.c.link = 0
      /\ r.made = "both" => /\ schema.name \in r.c.prepared
                            /\ r.c.link # 0 /\ EntryFits(backend, schema) =>
                                 Recorded(Safe(backend, r.c), schema.name)
  BY <1>2, <1>3, <1>7, TableCreateDoes DEF FitsStream
<1>9. DOMAIN schema = {"name", "fields"} /\ IsList(schema.fields)
  BY DEF FitsStream, IsSchema, IsList
<1>10. /\ IsList(new) /\ 1 \in DOMAIN new
       /\ \A i \in DOMAIN new : TableShape(new[i])
       /\ \A i \in Linked(new) : new[i].schema.name = schema.name /\ r.made # "nothing"
                                 /\ (r.made = "both" => new[i].handle = "ready")
                                 /\ new[i].schema = SchemaCopy(schema)
       /\ r.made = "both" => new[1] = Table(schema, "ready")
  BY <1>4, <1>8, <1>9, RegistrationDoes
<1>11. /\ IsList(both) /\ \A i \in DOMAIN both : TableShape(both[i])
       /\ Extends(backend, db[d].tables, both)
       /\ \A b, q : TablesOK(b, db[d].tables, q) /\ TablesOK(b, new, q) => TablesOK(b, both, q)
       /\ both[Len(db[d].tables) + 1] = new[1] /\ Len(db[d].tables) + 1 \in DOMAIN both
  <2>1. PICK tables : tables = db[d].tables
    OBVIOUS
  <2>2. /\ IsList(both) /\ \A i \in DOMAIN both : TableShape(both[i])
        /\ \A b : Extends(b, tables, both)
        /\ \A b, q : TablesOK(b, tables, q) /\ TablesOK(b, new, q) => TablesOK(b, both, q)
        /\ \A i \in DOMAIN new : both[Len(tables) + i] = new[i] /\ Len(tables) + i \in DOMAIN both
    <3>1. IsList(tables) /\ \A i \in DOMAIN tables : TableShape(tables[i])
      BY <1>7, <2>1
    <3>2. both = tables \o new
      BY <1>5, <2>1
    <3>3. IsList(new) /\ \A i \in DOMAIN new : TableShape(new[i])
      BY <1>10
    <3>4. LET z == tables \o new IN
          /\ IsList(z) /\ \A i \in DOMAIN z : TableShape(z[i])
          /\ \A b : Extends(b, tables, z)
          /\ \A b, q : TablesOK(b, tables, q) /\ TablesOK(b, new, q) => TablesOK(b, z, q)
          /\ \A i \in DOMAIN new : z[Len(tables) + i] = new[i] /\ Len(tables) + i \in DOMAIN z
      BY <3>1, <3>3, TablesGrow
    <3> QED BY <3>2, <3>4
  <2> QED BY <1>10, <2>1, <2>2
<1>12. TablesOK(backend, new, r.c)
  <2>1. ASSUME NEW i \in Linked(new)
        PROVE  /\ r.c.link = -1 => new[i].handle = "ready" /\ new[i].schema.name \in r.c.prepared
               /\ /\ r.c.link # 0 /\ new[i].schema.name # Metadata
                  /\ EntryFits(backend, new[i].schema)
                  => Recorded(Safe(backend, r.c), new[i].schema.name)
    <3>1. /\ new[i].schema.name = schema.name /\ r.made \in {"inner", "outer", "both"}
          /\ EntryFits(backend, new[i].schema) <=> EntryFits(backend, schema)
      BY <1>8, <1>9, <1>10, <2>1, CopyDescription
    <3>2. CASE r.made = "both"
      BY <1>8, <1>10, <2>1, <3>1, <3>2
    <3>3. CASE r.made # "both"
      BY <1>8, <3>1, <3>3
    <3> QED BY <3>2, <3>3
  <2> QED BY <2>1 DEF TablesOK
<1>13. /\ DOMAIN conn' = Domains /\ DOMAIN failed' = Domains /\ conn'[d] = r.c
       /\ failed'[d] \in BOOLEAN /\ (~failed'[d] => ~failed[d] /\ r.c.txn # "aborted" /\ r.c.link = -1)
       /\ \A x \in Domains \ {d} : conn'[x] = conn[x] /\ failed'[x] = failed[x]
  BY <1>1, <1>3, ConnectDoes DEF Inv
<1>14. OnlyDatabase(d)
  BY <1>6, <1>13 DEF OnlyDatabase, Inv, TypeOK
<1>15. DatabaseOK(backend, db[d], r.c, taken[d], failed'[d], told[d])
  BY <1>1, <1>2, <1>8, <1>13, ConnectStays DEF DatabaseOf
<1>16. DatabaseOf(d)'
  <2>1. SqlOK(db[d], backend, r.c, taken[d], failed'[d])
    BY <1>2, <1>15 DEF DatabaseOK
  <2>2. SqlOK(db'[d], backend, r.c, taken[d], failed'[d])
    <3>1. TablesOK(backend, both, r.c)
      BY <1>1, <1>11, <1>12, <2>1 DEF SqlOK
    <3> QED BY <1>1, <1>6, <2>1, <3>1 DEF SqlOK
  <2>3. ToldOK(told[d], db'[d], taken[d], failed'[d])
    BY <1>6, <1>15 DEF DatabaseOK, ToldOK
  <2>4. DatabaseOK(backend, db'[d], r.c, taken[d], failed'[d], told[d])
    BY <1>2, <1>6, <1>11, <1>15, <2>2, <2>3 DEF DatabaseOK
  <2> QED BY <1>13, <2>4 DEF DatabaseOf
<1>17. PICK t : t = (IF r.made = "both" THEN Len(db[d].tables) + 1 ELSE 0) /\ Assign(c, s, t)
  BY <1>3
<1>18. t # 0 => /\ Usable(backend, db'[d].tables, t)
                /\ FirstDifference(db'[d].tables[t].schema, s) = 0
  <2>1. SUFFICES ASSUME t # 0 PROVE Usable(backend, both, t) /\ FirstDifference(both[t].schema, s) = 0
    BY <1>6
  <2>2. r.made = "both" /\ t \in DOMAIN both /\ both[t] = Table(schema, "ready")
    BY <1>10, <1>11, <1>17, <2>1
  <2>3. both[t].handle = "ready" /\ both[t].schema = SchemaCopy(schema)
    BY <1>9, <2>2, TableIs
  <2>4. both[t] # Unlinked
    BY <2>3 DEF Unlinked
  <2>5. FirstDifference(both[t].schema, s) = 0
    <3>1. IsSchema(s)
      BY GivenIsSchema
    <3> QED BY <2>3, <3>1, CopyFits DEF FitsStream
  <2> QED BY <2>2, <2>4, <2>3, <2>5 DEF Usable, Linked
<1> QED BY <1>6, <1>11, <1>14, <1>16, <1>17, <1>18, StreamDoes DEF HasDatabase, Undeclared

(* A schema, in a database with SQL.                                       *)
LEMMA SqlSchemaDoes ==
  ASSUME Inv, ~Semantic, NEW c \in Clients, NEW s \in StreamsOf[backend][c], ProcessSchema(c, s)
  PROVE  Inv'
<1>1. PICK d : d = client[c].domain
  OBVIOUS
<1>2. /\ client[c].phase # "gone" /\ s \notin DOMAIN client[c].streams
      /\ UNCHANGED <<backend, told, graph, taken, visits>>
      /\ ProcessSqlSchema(c, d, s)
  BY <1>1 DEF ProcessSchema
<1>3. d \in Domains /\ IsList(db[d].tables) /\ \A i \in DOMAIN db[d].tables : TableShape(db[d].tables[i])
  <2>1. d \in Domains
    BY <1>1, <1>2, HeldIsOpen DEF Inv
  <2> QED BY <2>1 DEF Inv, TypeOK, DatabaseOK
<1>4. IsSchema(s)
  BY GivenIsSchema
<1>5. PICK schema : /\ schema = Renamed(db[d].tables, s)
                    /\ LET t == FindTable(db[d].tables, schema.name) IN
                       CASE schema = NoSchema ->
                              Assign(c, s, 0) /\ UNCHANGED <<server, hook, db, conn, sem, failed>>
                         [] schema # NoSchema /\ t = 0 -> CreateSqlTable(c, d, s, schema)
                         [] schema # NoSchema /\ t # 0 -> UseSqlTable(c, s, t)
  BY <1>2 DEF ProcessSqlSchema
<1>6. PICK t : t = FindTable(db[d].tables, schema.name)
  OBVIOUS
<1>7. CASE schema = NoSchema
  <2>1. Assign(c, s, 0) /\ UNCHANGED <<db, conn, failed>>
    BY <1>5, <1>7
  <2> QED BY <1>1, <1>2, <2>1, SameTablesDo
<1>8. CASE schema # NoSchema /\ t = 0
  <2>1. CreateSqlTable(c, d, s, schema)
    BY <1>5, <1>6, <1>8
  <2>2. FitsStream(schema, s)
    BY <1>4, <1>5, <1>8, RenamedIs DEF FitsStream
  <2>3. HasDatabase(c, d) /\ Undeclared(c, s)
    BY <1>1, <1>2 DEF HasDatabase, Undeclared
  <2> QED BY <1>2, <2>1, <2>2, <2>3, CreateSqlTableDoes
<1>9. CASE schema # NoSchema /\ t # 0
  <2>1. UseSqlTable(c, s, t)
    BY <1>5, <1>6, <1>9
  <2>2. Assign(c, s, t) /\ UNCHANGED <<db, conn, failed>>
    BY <2>1 DEF UseSqlTable
  <2>3. t \in Linked(db[d].tables)
    BY <1>3, <1>6, <1>9, FindTableFinds
  <2>4. Usable(backend, db[d].tables, t) /\ TableShape(db[d].tables[t])
    BY <1>3, <2>3 DEF Usable, Linked, Semantic
  <2>5. /\ IsSchema(schema) /\ schema.fields = s.fields
        /\ FirstDifference(schema, db[d].tables[t].schema) = 0
    BY <1>4, <1>5, <1>6, <1>9, RenamedDoes
  <2>6. FirstDifference(db[d].tables[t].schema, s) = 0
    BY <1>4, <2>4, <2>5, FoundFits DEF TableShape
  <2> QED BY <1>1, <1>2, <2>2, <2>4, <2>6, SameTablesDo
<1> QED BY <1>7, <1>8, <1>9

(* A table of the triple store gets its statement from sem_prepare.        *)
LEMMA TemplatedIs ==
  ASSUME NEW schema, IsSchema(schema), NEW d, NEW reply, NEW a, a = Templated(schema, d, reply)
  PROVE  TableShape(a) /\ a.handle = "ready" /\ a.schema = SchemaCopy(schema) /\ a.schema.name = schema.name
<1>1. PICK p : p = Table(schema, "ready")
  OBVIOUS
<1>2. DOMAIN schema = {"name", "fields"} /\ IsList(schema.fields)
  BY DEF IsSchema, IsList
<1>3. /\ TableShape(p) /\ p.handle = "ready" /\ p.schema = SchemaCopy(schema)
      /\ p.schema.name = schema.name
  BY <1>1, <1>2, TableIs
<1>4. a = p \/ a = [p EXCEPT !.template = Template(d, reply)]
  BY <1>1 DEF Templated
<1>5. /\ DOMAIN a = {"schema", "handle", "template"} /\ a.handle = p.handle /\ a.schema = p.schema
  BY <1>3, <1>4 DEF TableShape
<1> QED BY <1>3, <1>5 DEF TableShape

(* Where the table is that a stream gets.                                  *)
Place(tables, t) == IF t = 0 THEN Len(tables) + 1 ELSE t

(* The table that is registered last has no statement: it is found next.   *)
LEMMA SemTablesDo ==
  ASSUME NEW tables, IsList(tables), \A i \in DOMAIN tables : TableShape(tables[i]), SemOK(tables),
         NEW schema, IsSchema(schema), NEW d, NEW reply,
         NEW t, t = FindTable(tables, schema.name),
         NEW new, new = SemTables(tables, schema, d, t, reply),
         NEW x, x = Place(tables, t)
  PROVE  /\ IsList(new) /\ \A i \in DOMAIN new : TableShape(new[i])
         /\ SemOK(new) /\ Extends("fuseki", tables, new)
         /\ Usable("fuseki", new, x) /\ new[x] = Templated(schema, d, reply)
<1>0. x = IF t = 0 THEN Len(tables) + 1 ELSE t
  BY DEF Place
<1>1. PICK a : a = Templated(schema, d, reply)
  OBVIOUS
<1>2. PICK z : z = Table(schema, "none")
  OBVIOUS
<1>3. TableShape(a) /\ a.handle = "ready" /\ a.schema = SchemaCopy(schema) /\ a.schema.name = schema.name
  BY <1>1, TemplatedIs
<1>4. TableShape(z) /\ z.handle = "none" /\ z.schema.name = schema.name
  <2>1. DOMAIN schema = {"name", "fields"} /\ IsList(schema.fields)
    BY DEF IsSchema, IsList
  <2> QED BY <1>2, <2>1, TableIs
<1>5. a # Unlinked /\ z # Unlinked
  BY <1>3, <1>4 DEF Unlinked
<1>6. PICK n : n = Len(tables)
  OBVIOUS
<1>7. n \in Nat /\ DOMAIN tables = 1..n /\ tables \in Seq(Range(tables))
  BY <1>6, ListFacts DEF IsList
<1>8. /\ t = 0 => \A i \in Linked(tables) : tables[i].schema.name # schema.name
      /\ t # 0 => t \in Linked(tables) /\ tables[t].schema.name = schema.name
  BY FindTableFinds
<1>9. t # 0 => t \in 1..n
  BY <1>7, <1>8 DEF Linked
<1>10. PICK m : m = IF t = 0 THEN n + 1 ELSE n
  OBVIOUS
<1>11. PICK base : base = IF t = 0 THEN Append(tables, a) ELSE [tables EXCEPT ![t] = a]
  OBVIOUS
<1>12. /\ IsList(base) /\ Len(base) = m /\ m \in Nat /\ x \in 1..m /\ base[x] = a
       /\ \A i \in 1..m : i # x => i \in 1..n /\ base[i] = tables[i]
       /\ \A i \in 1..n : i \in 1..m
  <2>1. CASE t = 0
    <3>1. base = Append(tables, a) /\ m = n + 1 /\ x = n + 1
      BY <1>0, <1>6, <1>10, <1>11, <2>1
    <3>2. IsList(base) /\ Len(base) = n + 1
      BY <1>6, <3>1, ListAppend
    <3>3. /\ base[n + 1] = a /\ \A i \in 1..n : base[i] = tables[i]
      BY <1>6, <1>7, <3>1, AppendProperties
    <3> QED BY <1>7, <3>1, <3>2, <3>3
  <2>2. CASE t # 0
    <3>1. base = [tables EXCEPT ![t] = a] /\ m = n /\ x = t
      BY <1>0, <1>10, <1>11, <2>2
    <3>2. /\ DOMAIN base = 1..n /\ base[t] = a
          /\ \A i \in 1..n : i # t => base[i] = tables[i]
      BY <1>7, <1>9, <2>2, <3>1
    <3>3. base \in Seq(Range(tables) \cup {a})
      BY <1>6, <1>7, <1>9, <2>2, <3>1
    <3>4. IsList(base) /\ Len(base) = n
      BY <1>7, <3>2, <3>3, ListIntro
    <3> QED BY <1>7, <1>9, <2>2, <3>1, <3>2, <3>4
  <2> QED BY <2>1, <2>2
<1>13. new = Append(base, z)
  <2>1. CASE t = 0
    <3>1. new = tables \o <<a, z>>
      BY <1>1, <1>2, <2>1 DEF SemTables
    <3>2. base = Append(tables, a)
      BY <1>11, <2>1
    <3> QED BY <1>7, <3>1, <3>2
  <2>2. CASE t # 0
    BY <1>1, <1>2, <1>11, <2>2 DEF SemTables
  <2> QED BY <2>1, <2>2
<1>14. /\ IsList(new) /\ DOMAIN new = 1..(m + 1) /\ new[m + 1] = z
       /\ \A i \in 1..m : new[i] = base[i]
  <2>1. base \in Seq(Range(base))
    BY <1>12 DEF IsList
  <2>2. IsList(new) /\ Len(new) = m + 1
    BY <1>12, <1>13, ListAppend
  <2>3. DOMAIN new = 1..(m + 1)
    BY <2>2, ListFacts
  <2> QED BY <1>12, <1>13, <2>1, <2>2, <2>3, AppendProperties
<1>15. ASSUME NEW i \in DOMAIN new
       PROVE  \/ i = m + 1 /\ new[i] = z
              \/ i = x /\ new[i] = a
              \/ i # x /\ i \in DOMAIN tables /\ new[i] = tables[i]
  BY <1>7, <1>12, <1>14
<1>16. \A i \in DOMAIN tables : i # x => i \in DOMAIN new /\ new[i] = tables[i]
  BY <1>7, <1>12, <1>14
<1>17. x \in DOMAIN new /\ new[x] = a /\ m + 1 \in DOMAIN new /\ m + 1 # x
  BY <1>12, <1>14
<1>18. \A i \in DOMAIN new : TableShape(new[i])
  BY <1>3, <1>4, <1>15
<1>19. SemOK(new)
  <2>1. ASSUME NEW i \in DOMAIN new PROVE new[i].handle \in {"none", "ready", "unlinked"}
    BY <1>3, <1>4, <1>15 DEF SemOK
  <2>2. ASSUME NEW i \in DOMAIN new, Newest(new, i) PROVE new[i].handle = "none"
    <3>1. CASE new[i].schema.name = schema.name
      <4>1. m + 1 \in Linked(new) /\ new[m + 1].schema.name = schema.name
        BY <1>4, <1>5, <1>14, <1>17 DEF Linked
      <4>2. i \in Linked(new) /\ FindTable(new, schema.name) = i
        BY <2>2, <3>1 DEF Newest
      <4>3. i # 0 /\ i \in 1..(m + 1)
        BY <1>12, <1>14
      <4>4. m + 1 <= i
        BY <1>14, <4>1, <4>2, <4>3, FindTableFinds
      <4>5. i = m + 1
        BY <1>12, <4>3, <4>4
      <4> QED BY <1>4, <1>14, <4>5
    <3>2. CASE new[i].schema.name # schema.name
      <4>1. i # x /\ i \in DOMAIN tables /\ new[i] = tables[i]
        BY <1>3, <1>4, <1>15, <3>2
      <4>2. PICK name : name = tables[i].schema.name
        OBVIOUS
      <4>3. i \in Linked(new) /\ FindTable(new, name) = i /\ i # 0
        BY <1>7, <2>2, <4>1, <4>2 DEF Newest
      <4>4. i \in Linked(tables)
        BY <4>1, <4>3 DEF Linked
      <4>5. PICK u : u = FindTable(tables, name)
        OBVIOUS
      <4>6. u \in Linked(tables) /\ tables[u].schema.name = name /\ i <= u
        BY <4>2, <4>4, <4>5, FindTableFinds
      <4>7. u \in DOMAIN tables /\ u # x
        <5>1. u \in DOMAIN tables
          BY <4>6 DEF Linked
        <5>2. CASE t = 0
          BY <1>0, <1>6, <1>7, <5>1, <5>2
        <5>3. CASE t # 0
          <6>1. name # schema.name
            BY <3>2, <4>1, <4>2
          <6>2. tables[x].schema.name = schema.name
            BY <1>0, <1>8, <5>3
          <6> QED BY <4>6, <5>1, <6>1, <6>2
        <5> QED BY <5>1, <5>2, <5>3
      <4>8. u \in Linked(new) /\ new[u].schema.name = name
        BY <1>16, <4>6, <4>7 DEF Linked
      <4>9. u <= i
        BY <1>14, <4>3, <4>8, FindTableFinds
      <4>10. u = i
        BY <1>7, <4>1, <4>6, <4>7, <4>9
      <4>11. Newest(tables, i)
        BY <4>2, <4>4, <4>5, <4>10 DEF Newest
      <4> QED BY <4>1, <4>11 DEF SemOK
    <3> QED BY <3>1, <3>2
  <2> QED BY <2>1, <2>2 DEF SemOK
<1>20. Extends("fuseki", tables, new)
  <2>1. ASSUME NEW i \in Linked(tables), tables[i].handle = "ready"
        PROVE  i \in Linked(new) /\ new[i] = tables[i]
    <3>1. i \in DOMAIN tables /\ tables[i] # Unlinked
      BY DEF Linked
    <3>2. i # x
      <4>1. CASE t = 0
        BY <1>0, <1>6, <1>7, <3>1, <4>1
      <4>2. CASE t # 0
        <5>1. Newest(tables, t)
          BY <1>8, <4>2 DEF Newest
        <5>2. tables[t].handle = "none"
          BY <1>7, <1>9, <4>2, <5>1 DEF SemOK
        <5> QED BY <1>0, <2>1, <4>2, <5>2
      <4> QED BY <4>1, <4>2
    <3> QED BY <1>16, <3>1, <3>2 DEF Linked
  <2> QED BY <2>1 DEF Extends, Usable
<1>21. Usable("fuseki", new, x) /\ new[x] = Templated(schema, d, reply)
  BY <1>1, <1>3, <1>5, <1>17 DEF Usable, Linked
<1> QED BY <1>14, <1>18, <1>19, <1>20, <1>21

(* The table of a schema that is refused leaves the list.                  *)
LEMMA UnlinkedDoes ==
  ASSUME NEW tables, IsList(tables), \A i \in DOMAIN tables : TableShape(tables[i]), SemOK(tables),
         NEW new, new = Append(tables, Unlinked)
  PROVE  /\ IsList(new) /\ \A i \in DOMAIN new : TableShape(new[i])
         /\ SemOK(new) /\ Extends("fuseki", tables, new)
<1>1. PICK n : n = Len(tables)
  OBVIOUS
<1>2. n \in Nat /\ DOMAIN tables = 1..n
  BY <1>1, ListFacts
<1>3. IsList(new) /\ DOMAIN new = 1..n + 1 /\ new[n + 1] = Unlinked /\ \A i \in 1..n : new[i] = tables[i]
  BY <1>1, ListAppend
<1>4. TableShape(Unlinked) /\ Unlinked.handle = "unlinked"
  <2>1. IsList(<<>>)
    BY EmptySeq DEF IsList
  <2> QED BY <2>1 DEF TableShape, Unlinked, NoSchema
<1>5. \A i \in DOMAIN new : (i \in DOMAIN tables /\ new[i] = tables[i]) \/ new[i] = Unlinked
  BY <1>2, <1>3
<1>6. \A i \in DOMAIN new : TableShape(new[i])
  BY <1>4, <1>5
<1>7. Linked(new) = Linked(tables) /\ \A i \in Linked(tables) : new[i] = tables[i]
  BY <1>2, <1>3, <1>5 DEF Linked
<1>8. \A name : FindTable(new, name) = FindTable(tables, name)
  BY <1>7 DEF FindTable
<1>9. \A i : Newest(new, i) <=> Newest(tables, i)
  BY <1>7, <1>8 DEF Newest
<1>10. SemOK(new)
  <2>1. ASSUME NEW i \in DOMAIN new
        PROVE  /\ new[i].handle \in {"none", "ready", "unlinked"}
               /\ Newest(new, i) => new[i].handle = "none"
    <3>1. CASE new[i] = Unlinked
      <4>1. i \notin Linked(new)
        BY <3>1 DEF Linked
      <4> QED BY <1>4, <3>1, <4>1 DEF Newest
    <3>2. CASE i \in DOMAIN tables /\ new[i] = tables[i]
      BY <1>9, <3>2 DEF SemOK
    <3> QED BY <1>5, <3>1, <3>2
  <2> QED BY <2>1 DEF SemOK
<1>11. Extends("fuseki", tables, new)
  BY <1>7 DEF Extends, Usable
<1> QED BY <1>3, <1>6, <1>10, <1>11

(* A schema, in the triple store.                                          *)
LEMMA SemSchemaDoes ==
  ASSUME Inv, Semantic, NEW c \in Clients, NEW s \in StreamsOf[backend][c], ProcessSchema(c, s)
  PROVE  Inv'
<1>1. PICK d : d = client[c].domain
  OBVIOUS
<1>2. /\ client[c].phase # "gone" /\ s \notin DOMAIN client[c].streams
      /\ UNCHANGED <<backend, told, graph, taken, visits>>
      /\ ProcessSemSchema(c, d, s)
  BY <1>1 DEF ProcessSchema
<1>3. d \in Domains
  BY <1>1, <1>2, HeldIsOpen DEF Inv
<1>4. backend = "fuseki" /\ DatabaseOf(d)
  BY <1>3 DEF Inv, TypeOK, Semantic, DatabaseOf
<1>5. PICK schema \in {Renamed(db[d].tables, s)}, reply \in {"answer", "error", "crash"} :
        /\ schema # NoSchema /\ failed' = failed
        /\ \/ Dies
           \/ SemRefuses(c, d, s) /\ UNCHANGED <<server, hook, conn>>
           \/ SemTableCreate(c, d, s, schema, reply) /\ UNCHANGED <<server, hook, conn>>
  BY <1>2 DEF ProcessSemSchema
<1>6. CASE Dies
  <2>1. visits' \in [Clients -> Nat] /\ \A e \in Clients : visits[e] <= visits'[e]
    BY <1>2 DEF Inv, TypeOK
  <2>2. Dies /\ UNCHANGED <<backend, told, graph, ghosts>>
    BY <1>2, <1>5, <1>6 DEF ghosts
  <2> QED BY <2>1, <2>2, DiesDoes
<1>7. CASE SemTableCreate(c, d, s, schema, reply) /\ UNCHANGED <<server, hook, conn>>
  <2>1. PICK tables : tables = db[d].tables
    OBVIOUS
  <2>2. PICK t : t = FindTable(tables, schema.name)
    OBVIOUS
  <2>3. PICK new : new = SemTables(tables, schema, d, t, reply)
    OBVIOUS
  <2>4. PICK x : x = Place(tables, t)
    OBVIOUS
  <2>5. SemTableCreate(c, d, s, schema, reply) /\ conn' = conn
    BY <1>5, <1>7
  <2>6. db' = [db EXCEPT ![d].tables = new] /\ Assign(c, s, x)
    BY <2>1, <2>2, <2>3, <2>4, <2>5 DEF SemTableCreate, Place
  <2>7. /\ DOMAIN db' = Domains /\ (\A e \in Domains \ {d} : db'[e] = db[e])
        /\ DOMAIN db'[d] = DOMAIN db[d] /\ db'[d].ref_count = db[d].ref_count
        /\ db'[d].tables = new
    BY <1>3, <1>4, <2>6 DEF Inv, TypeOK, DatabaseOf, DatabaseOK
  <2>8. /\ IsList(tables) /\ (\A i \in DOMAIN tables : TableShape(tables[i])) /\ SemOK(tables)
    BY <1>4, <2>1 DEF DatabaseOf, DatabaseOK
  <2>9. IsSchema(s) /\ IsSchema(schema) /\ schema.fields = s.fields
    <3>1. IsSchema(s)
      BY GivenIsSchema
    <3> QED BY <1>5, <3>1, RenamedIs
  <2>10. /\ IsList(new) /\ (\A i \in DOMAIN new : TableShape(new[i]))
         /\ SemOK(new) /\ Extends("fuseki", tables, new)
         /\ Usable("fuseki", new, x) /\ new[x].schema = SchemaCopy(schema)
    <3>1. IsSchema(schema)
      BY <2>9
    <3>2. IsList(new)
      BY <2>2, <2>3, <2>4, <2>8, <3>1, SemTablesDo
    <3>3. SemOK(new)
      BY <2>2, <2>3, <2>4, <2>8, <3>1, SemTablesDo
    <3>4. Extends("fuseki", tables, new)
      BY <2>2, <2>3, <2>4, <2>8, <3>1, SemTablesDo
    <3>5. \A i \in DOMAIN new : TableShape(new[i])
      BY <2>2, <2>3, <2>4, <2>8, <3>1, SemTablesDo
    <3>6. Usable("fuseki", new, x)
      BY <2>2, <2>3, <2>4, <2>8, <3>1, SemTablesDo
    <3>7. new[x] = Templated(schema, d, reply)
      BY <2>2, <2>3, <2>4, <2>8, <3>1, SemTablesDo
    <3>8. new[x].schema = SchemaCopy(schema)
      BY <3>1, <3>7, TemplatedIs
    <3> QED BY <3>2, <3>3, <3>4, <3>5, <3>6, <3>8
  <2>11. FirstDifference(new[x].schema, s) = 0
    BY <2>9, <2>10, CopyFits
  <2>12. OnlyDatabase(d)
    BY <1>2, <1>5, <2>5, <2>7 DEF OnlyDatabase, Inv, TypeOK
  <2>13. DatabaseOf(d)'
    <3>1. DatabaseOK(backend, db'[d], conn[d], taken[d], failed[d], told[d])
      <4>1. ToldOK(told[d], db'[d], taken[d], failed[d])
        BY <1>4, <2>7 DEF DatabaseOf, DatabaseOK, ToldOK
      <4> QED BY <1>4, <2>7, <2>10, <4>1 DEF DatabaseOf, DatabaseOK
    <3> QED BY <1>2, <1>5, <2>5, <3>1 DEF DatabaseOf
  <2>14. Extends(backend, db[d].tables, db'[d].tables) /\ Usable(backend, db'[d].tables, x)
         /\ FirstDifference(db'[d].tables[x].schema, s) = 0
    BY <1>4, <2>1, <2>7, <2>10, <2>11
  <2> QED BY <1>1, <1>2, <2>6, <2>7, <2>12, <2>13, <2>14, StreamDoes
<1>8. CASE SemRefuses(c, d, s) /\ UNCHANGED <<server, hook, conn>>
  <2>1. PICK tables : tables = db[d].tables
    OBVIOUS
  <2>2. PICK new : new = Append(tables, Unlinked)
    OBVIOUS
  <2>3. db' = [db EXCEPT ![d].tables = new] /\ Assign(c, s, 0) /\ conn' = conn
    BY <1>8, <2>1, <2>2 DEF SemRefuses
  <2>4. /\ DOMAIN db' = Domains /\ (\A e \in Domains \ {d} : db'[e] = db[e])
        /\ DOMAIN db'[d] = DOMAIN db[d] /\ db'[d].ref_count = db[d].ref_count
        /\ db'[d].tables = new
    BY <1>3, <1>4, <2>3 DEF Inv, TypeOK, DatabaseOf, DatabaseOK
  <2>5. /\ IsList(tables) /\ (\A i \in DOMAIN tables : TableShape(tables[i])) /\ SemOK(tables)
    BY <1>4, <2>1 DEF DatabaseOf, DatabaseOK
  <2>6. /\ IsList(new) /\ (\A i \in DOMAIN new : TableShape(new[i]))
        /\ SemOK(new) /\ Extends("fuseki", tables, new)
    BY <2>2, <2>5, UnlinkedDoes
  <2>7. OnlyDatabase(d)
    BY <1>2, <1>5, <2>3, <2>4 DEF OnlyDatabase, Inv, TypeOK
  <2>8. DatabaseOf(d)'
    <3>1. DatabaseOK(backend, db'[d], conn[d], taken[d], failed[d], told[d])
      <4>1. ToldOK(told[d], db'[d], taken[d], failed[d])
        BY <1>4, <2>4 DEF DatabaseOf, DatabaseOK, ToldOK
      <4> QED BY <1>4, <2>4, <2>6, <4>1 DEF DatabaseOf, DatabaseOK
    <3> QED BY <1>2, <1>5, <2>3, <3>1 DEF DatabaseOf
  <2>9. Extends(backend, db[d].tables, db'[d].tables)
    BY <1>4, <2>1, <2>4, <2>6
  <2> QED BY <1>1, <1>2, <2>3, <2>4, <2>7, <2>8, <2>9, StreamDoes
<1> QED BY <1>5, <1>6, <1>7, <1>8

(* A schema, in either.                                                    *)
LEMMA SchemaDoes ==
  ASSUME Inv, NEW c \in Clients, NEW s \in StreamsOf[backend][c], ProcessSchema(c, s)
  PROVE  Inv'
BY SqlSchemaDoes, SemSchemaDoes

-----------------------------------------------------------------------------
(* Rows.                                                                   *)

(* A row counted changes no table of the client.                           *)
LEMMA CountDoes ==
  ASSUME NEW k, ClientOK(k), k.phase # "gone", NEW s \in DOMAIN k.streams,
         NEW q, q = [k EXCEPT !.streams[s].rows = @ + 1]
  PROVE  /\ ClientOK(q) /\ GoesOn(k, q) /\ DOMAIN q.streams = DOMAIN k.streams
         /\ \A b, tables : UsedOK(b, k, tables) => UsedOK(b, q, tables)
<1>1. PICK f : f = [k.streams EXCEPT ![s].rows = @ + 1]
  OBVIOUS
<1>2. q = [k EXCEPT !.streams = f]
  BY <1>1
<1>3. /\ DOMAIN k = {"phase", "domain", "sender", "streams"}
      /\ \A x \in DOMAIN k.streams : DOMAIN k.streams[x] = {"table", "rows"} /\ IsSchema(x)
  BY DEF ClientOK
<1>4. DOMAIN q = DOMAIN k /\ q.phase = k.phase /\ q.domain = k.domain /\ q.streams = f
  BY <1>2, <1>3
<1>5. /\ DOMAIN f = DOMAIN k.streams
      /\ \A x \in DOMAIN k.streams : DOMAIN f[x] = {"table", "rows"} /\ f[x].table = k.streams[x].table
  BY <1>1, <1>3
<1>6. ClientOK(q)
  BY <1>3, <1>4, <1>5 DEF ClientOK
<1>7. GoesOn(k, q)
  BY <1>4, <1>5 DEF GoesOn
<1>8. \A b, tables : UsedOK(b, k, tables) => UsedOK(b, q, tables)
  BY <1>4, <1>5 DEF UsedOK
<1> QED BY <1>4, <1>5, <1>6, <1>7, <1>8

(* A row that was taken is seen on the connection.                         *)
LEMMA RowStays ==
  ASSUME NEW b, NEW r, NEW c, NEW rows, NEW f, NEW event, DatabaseOK(b, r, c, rows, f, event),
         b # "fuseki", r.ref_count > 0, NEW d, Keeps(b, c, d),
         NEW more, more \subseteq rows \cup d.view.rows,
         NEW g, g \in BOOLEAN, ~g => ~f /\ d.txn # "aborted" /\ d.link = -1
  PROVE  DatabaseOK(b, r, d, more, g, event)
<1>1. DatabaseOK(b, r, d, rows, g, event)
  BY ConnectStays
<1>2. SqlOK(r, b, d, rows, g)
  BY <1>1 DEF DatabaseOK
<1>3. StoredOK(d, more, g)
  BY <1>2 DEF SqlOK, StoredOK
<1>4. SqlOK(r, b, d, more, g)
  BY <1>2, <1>3 DEF SqlOK
<1>5. ToldOK(event, r, more, g)
  BY <1>1 DEF DatabaseOK, ToldOK
<1> QED BY <1>1, <1>4, <1>5 DEF DatabaseOK

(* A row, in a database with SQL.                                          *)
LEMMA InsertSqlDoes ==
  ASSUME Inv, ~Semantic, NEW c \in Clients, NEW s, NEW value, ProcessRow(c, s, value)
  PROVE  Inv'
<1>1. PICK d : d = client[c].domain
  OBVIOUS
<1>2. PICK t : t = client[c].streams[s].table
  OBVIOUS
<1>3. PICK table : table = db[d].tables[t]
  OBVIOUS
<1>4. /\ s \in DOMAIN client[c].streams /\ t # 0 /\ Count(c, s)
      /\ UNCHANGED <<backend, told, db, visits>>
      /\ InsertSql(c, d, s, table, value)
  BY <1>1, <1>2, <1>3 DEF ProcessRow
<1>5. client[c].phase # "gone"
  BY <1>4, GoneHoldNothing DEF Inv
<1>6. d \in Domains /\ db[d].ref_count > 0
  BY <1>1, <1>5, HeldIsOpen DEF Inv
<1>7. DatabaseOK(backend, db[d], conn[d], taken[d], failed[d], told[d]) /\ backend # "fuseki"
  BY <1>6 DEF Inv, TypeOK, Semantic
<1>8. PICK row : row = Row(c, s, table)
  OBVIOUS
<1>9. PICK r : /\ r = Insert(backend, conn[d], row, value) /\ Connect(d, r.c) /\ graph' = graph
               /\ taken' = IF r.ok THEN [taken EXCEPT ![d] = @ \cup {row}] ELSE taken
  BY <1>4, <1>8 DEF InsertSql
<1>10. PICK e : e = r.c
  OBVIOUS
<1>11. ConnOK(backend, conn[d]) /\ TablesOK(backend, db[d].tables, conn[d])
  BY <1>6, <1>7 DEF DatabaseOK, SqlOK
<1>12. UsedOK(backend, client[c], db[d].tables) /\ ClientOK(client[c])
  BY <1>1 DEF Inv, TypeOK, UsedInv, TablesOf
<1>13. t \in Linked(db[d].tables)
  BY <1>4, <1>2, <1>12 DEF UsedOK, Usable
<1>14. conn[d].link # 0 /\ row.table # Metadata /\ RowFits(backend, row) =>
         Recorded(Safe(backend, conn[d]), row.table)
  <2>1. row.table = table.schema.name /\ row.stream.declared = s
    BY <1>8 DEF Row, StreamId
  <2>2. PICK own : own = [s EXCEPT !.name = row.table]
    OBVIOUS
  <2>3. IsSchema(s)
    BY <1>4, <1>12 DEF ClientOK
  <2>4. /\ DOMAIN own = {"name", "fields"} /\ own.fields = s.fields /\ own.name = row.table
        /\ IsList(s.fields)
    BY <2>2, <2>3 DEF IsSchema, IsList
  <2>5. TableShape(table)
    BY <1>3, <1>7, <1>13 DEF DatabaseOK, Linked
  <2>6. FirstDifference(table.schema, s) = 0
    BY <1>2, <1>3, <1>4, <1>12 DEF UsedOK
  <2>7. Alike(table.schema.fields, s.fields)
    BY <2>4, <2>5, <2>6, NoDifference DEF TableShape
  <2>8. EntryFits(backend, own) <=> EntryFits(backend, table.schema)
    BY <2>1, <2>4, <2>5, <2>7, SameDescription DEF TableShape
  <2>9. RowFits(backend, row) <=> EntryFits(backend, own)
    BY <2>1, <2>2 DEF RowFits
  <2>10. conn[d].link # 0 /\ table.schema.name # Metadata /\ EntryFits(backend, table.schema) =>
           Recorded(Safe(backend, conn[d]), table.schema.name)
    BY <1>3, <1>11, <1>13 DEF TablesOK
  <2> QED BY <2>1, <2>8, <2>9, <2>10
<1>15. Keeps(backend, conn[d], e) /\ (r.ok => row \in e.view.rows)
  BY <1>9, <1>10, <1>11, <1>14, InsertDoes
<1>16. /\ DOMAIN conn' = Domains /\ DOMAIN failed' = Domains /\ conn'[d] = e
       /\ failed'[d] \in BOOLEAN /\ (~failed'[d] => ~failed[d] /\ e.txn # "aborted" /\ e.link = -1)
       /\ \A x \in Domains \ {d} : conn'[x] = conn[x] /\ failed'[x] = failed[x]
  BY <1>6, <1>9, <1>10, ConnectDoes DEF Inv
<1>17. /\ DOMAIN taken' = Domains /\ (\A x \in Domains \ {d} : taken'[x] = taken[x])
       /\ taken'[d] = IF r.ok THEN taken[d] \cup {row} ELSE taken[d]
  BY <1>6, <1>9 DEF Inv, TypeOK
<1>18. OnlyDatabase(d)
  BY <1>4, <1>16, <1>17 DEF OnlyDatabase, Inv, TypeOK
<1>19. taken'[d] \subseteq taken[d] \cup e.view.rows
  BY <1>15, <1>17
<1>20. DatabaseOf(d)'
  <2>1. DatabaseOK(backend, db[d], e, taken'[d], failed'[d], told[d])
    BY <1>6, <1>7, <1>15, <1>16, <1>19, RowStays
  <2> QED BY <1>4, <1>16, <2>1 DEF DatabaseOf
<1>21. OnlyClient(c) /\ client'[c] = [client[c] EXCEPT !.streams[s].rows = @ + 1]
  BY <1>4 DEF Count, OnlyClient, Inv, TypeOK
<1>22. /\ ClientOK(client'[c]) /\ GoesOn(client[c], client'[c])
       /\ UsedOK(backend, client'[c], db'[d].tables)
  BY <1>4, <1>5, <1>12, <1>21, CountDoes
<1>23. Extends(backend, db[d].tables, db'[d].tables) /\ db'[d].ref_count = db[d].ref_count
  BY <1>4 DEF Extends
<1> QED BY <1>1, <1>4, <1>6, <1>9, <1>18, <1>20, <1>21, <1>22, <1>23, WorkDoes DEF Inv

(* A measurement that is added names what those before it name: they agree *)
(* with the same table.                                                    *)
LEMMA PostedDoes ==
  ASSUME Inv, db' = db, visits' = visits,
         NEW c \in Clients, OnlyClient(c), GoesOn(client[c], client'[c]),
         NEW new, new.stream.client = c, new.stream.visit = visits[c],
         Agrees(new, client[c], TablesOf(c)),
         graph'.measurements = graph.measurements \cup {new}
  PROVE  GraphInv'
<1>1. client[c].phase # "gone"
  BY Zenon DEF GoesOn
<1>2. ASSUME NEW m \in graph.measurements, m.stream = new.stream
      PROVE  m.sender = new.sender /\ m.domain = new.domain
  <2>1. Agrees(m, client[c], TablesOf(c))
    BY <1>1, <1>2 DEF Inv, GraphInv, MeasurementsOK
  <2> QED BY <1>2, <2>1, Zenon DEF Agrees
<1>3. StreamsKeepTheirSender'
  <2>1. ASSUME NEW m \in graph'.measurements, NEW n \in graph'.measurements, m.stream = n.stream
        PROVE  m.sender = n.sender /\ m.domain = n.domain
    <3>1. CASE m \in graph.measurements /\ n \in graph.measurements
      BY <2>1, <3>1 DEF Inv, GraphInv, StreamsKeepTheirSender
    <3>2. CASE m \in graph.measurements /\ n = new
      BY <1>2, <2>1, <3>2
    <3>3. CASE m = new /\ n \in graph.measurements
      BY <1>2, <2>1, <3>3
    <3>4. CASE m = new /\ n = new
      BY <3>4
    <3> QED BY <3>1, <3>2, <3>3, <3>4
  <2> QED BY <2>1 DEF StreamsKeepTheirSender
<1>4. visits[c] \in Nat
  BY DEF Inv, TypeOK
<1>5. \A m \in graph'.measurements : m.stream.client \in Clients /\ m.stream.visit \in Nat
  BY <1>4 DEF Inv, GraphInv
<1>6. ASSUME NEW e \in Clients
      PROVE  /\ client'[e].phase # "gone" => client[e].phase # "gone"
             /\ TablesOf(e)' = TablesOf(e)
             /\ \A m : Agrees(m, client[e], TablesOf(e)) => Agrees(m, client'[e], TablesOf(e)')
  <2>1. CASE e = c
    <3>1. TablesOf(e)' = TablesOf(e)
      BY <2>1 DEF TablesOf, GoesOn
    <3> QED BY <2>1, <3>1, MoreStreams DEF GoesOn
  <2>2. CASE e # c
    <3>1. client'[e] = client[e]
      BY <2>2 DEF OnlyClient
    <3>2. TablesOf(e)' = TablesOf(e)
      BY <3>1 DEF TablesOf
    <3> QED BY <3>1, <3>2
  <2> QED BY <2>1, <2>2
<1>7. Agrees(new, client'[c], TablesOf(c)')
  BY <1>6
<1>8. ASSUME NEW e \in Clients PROVE MeasurementsOK(e)'
  <2>1. ASSUME NEW m \in graph'.measurements, m.stream.client = e
        PROVE  /\ m.stream.visit <= visits'[e]
               /\ client'[e].phase # "gone" /\ m.stream.visit = visits'[e] =>
                    Agrees(m, client'[e], TablesOf(e)')
    <3>1. CASE m \in graph.measurements
      <4>1. /\ m.stream.visit <= visits[e]
            /\ client[e].phase # "gone" /\ m.stream.visit = visits[e] => Agrees(m, client[e], TablesOf(e))
        BY <2>1, <3>1 DEF Inv, GraphInv, MeasurementsOK
      <4> QED BY <1>6, <4>1
    <3>2. CASE m = new
      BY <1>4, <1>7, <2>1, <3>2
    <3> QED BY <3>1, <3>2
  <2> QED BY <2>1 DEF MeasurementsOK
<1> QED BY <1>3, <1>5, <1>8 DEF GraphInv

(* A row, in the triple store.                                             *)
LEMMA InsertSemDoes ==
  ASSUME Inv, Semantic, NEW c \in Clients, NEW s, NEW value, ProcessRow(c, s, value)
  PROVE  Inv'
<1>1. PICK d : d = client[c].domain
  OBVIOUS
<1>2. PICK t : t = client[c].streams[s].table
  OBVIOUS
<1>3. PICK table : table = db[d].tables[t]
  OBVIOUS
<1>4. /\ s \in DOMAIN client[c].streams /\ t # 0 /\ Count(c, s)
      /\ UNCHANGED <<backend, told, db, visits>>
      /\ InsertSem(c, s, table)
  BY <1>1, <1>2, <1>3 DEF ProcessRow
<1>5. client[c].phase # "gone"
  BY <1>4, GoneHoldNothing DEF Inv
<1>6. d \in Domains
  BY <1>1, <1>5, HeldIsOpen DEF Inv
<1>7. /\ UNCHANGED <<conn, failed, taken>>
      /\ graph' = graph \/ graph' = Posted(c, s, table.template)
  BY <1>4 DEF InsertSem
<1>8. OnlyDatabase(d) /\ DatabaseOf(d)'
  BY <1>4, <1>6, <1>7 DEF OnlyDatabase, DatabaseOf, Inv, TypeOK
<1>9. UsedOK(backend, client[c], db[d].tables) /\ ClientOK(client[c])
  BY <1>1 DEF Inv, TypeOK, UsedInv, TablesOf
<1>10. OnlyClient(c) /\ client'[c] = [client[c] EXCEPT !.streams[s].rows = @ + 1]
  BY <1>4 DEF Count, OnlyClient, Inv, TypeOK
<1>11. /\ ClientOK(client'[c]) /\ GoesOn(client[c], client'[c])
      /\ UsedOK(backend, client'[c], db'[d].tables)
  BY <1>4, <1>5, <1>9, <1>10, CountDoes
<1>12. Extends(backend, db[d].tables, db'[d].tables) /\ db'[d].ref_count = db[d].ref_count
  BY <1>4 DEF Extends
<1>13. DOMAIN graph' = DOMAIN graph
  BY <1>7 DEF Posted, Inv, TypeOK
<1>14. TypeOK' /\ RefInv' /\ UsedInv' /\ (graph' = graph => GraphInv')
  BY <1>1, <1>4, <1>6, <1>8, <1>10, <1>11, <1>12, <1>13, WorkDoes
<1>15. ASSUME graph' = Posted(c, s, table.template) PROVE GraphInv'
  <2>1. PICK template : template = table.template
    OBVIOUS
  <2>2. PICK new : new = [stream |-> StreamId(c, s), seq |-> client[c].streams[s].rows + 1,
                          sender |-> template.sender, domain |-> template.domain]
    OBVIOUS
  <2>3. graph'.measurements = graph.measurements \cup {new}
    BY <1>15, <2>1, <2>2, Zenon DEF Posted
  <2>4. new.stream = StreamId(c, s) /\ new.sender = template.sender /\ new.domain = template.domain
    BY <2>2, Zenon
  <2>5. new.stream.client = c /\ new.stream.visit = visits[c] /\ new.stream.declared = s
    BY <2>4 DEF StreamId
  <2>6. TablesOf(c)[t].template = template
    BY <1>1, <1>3, <2>1, Zenon DEF TablesOf
  <2>7. Agrees(new, client[c], TablesOf(c))
    BY <1>2, <1>4, <2>4, <2>5, <2>6, Zenon DEF Agrees
  <2> QED BY <1>4, <1>10, <1>11, <2>3, <2>5, <2>7, PostedDoes
<1> QED BY <1>7, <1>14, <1>15 DEF Inv

(* A row, in either.                                                       *)
LEMMA RowDoes ==
  ASSUME Inv, NEW c \in Clients, NEW s, NEW value, ProcessRow(c, s, value)
  PROVE  Inv'
BY InsertSqlDoes, InsertSemDoes

-----------------------------------------------------------------------------
(* Closing.                                                                *)

(* What is stored when the last client has gone is what the hook hears.    *)
LEMMA ReleasedDoes ==
  ASSUME Inv, NEW d \in Domains, db[d].ref_count > 0, NEW e, e = Released(d),
         NEW event, DOMAIN event = {"command", "rows"}, event.rows = e.disk.rows
  PROVE  ConnOK(backend, e) /\ ToldOK(event, Closed, taken[d], failed[d])
<1>1. DatabaseOK(backend, db[d], conn[d], taken[d], failed[d], told[d])
  BY DEF Inv, TypeOK
<1>2. Closed.ref_count = 0
  BY DEF Closed
<1>3. CASE Semantic
  <2>1. e = conn[d] /\ taken[d] = {}
    BY <1>1, <1>3 DEF Released, DatabaseOK, Semantic
  <2> QED BY <1>1, <1>2, <2>1 DEF DatabaseOK, ToldOK
<1>4. CASE ~Semantic
  <2>1. e = Close(backend, conn[d])
    BY <1>4 DEF Released
  <2>2. /\ ConnOK(backend, e)
        /\ conn[d].link # 0 /\ conn[d].txn # "aborted" => e.disk = conn[d].view
    BY <1>1, <2>1, CloseDoes DEF DatabaseOK
  <2>3. StoredOK(conn[d], taken[d], failed[d])
    BY <1>1, <1>4 DEF DatabaseOK, SqlOK, Semantic
  <2>4. failed[d] \/ taken[d] \subseteq event.rows
    BY <2>2, <2>3 DEF StoredOK
  <2> QED BY <1>2, <2>2, <2>4 DEF ToldOK
<1> QED BY <1>3, <1>4

(* A closed database is sound if the hook was told no more than is stored. *)
LEMMA ClosedIsOK ==
  ASSUME NEW b, NEW c, ConnOK(b, c), NEW rows, NEW f, f \in BOOLEAN, b = "fuseki" => rows = {},
         NEW event, ToldOK(event, Closed, rows, f)
  PROVE  DatabaseOK(b, Closed, c, rows, f, event)
<1>1. /\ DOMAIN Closed = {"ref_count", "start_time", "tables"} /\ Closed.ref_count = 0
      /\ Closed.tables = <<>> /\ IsList(<<>>) /\ DOMAIN <<>> = {}
  BY EmptySeq DEF Closed, IsList
<1>2. SemOK(<<>>) /\ SqlOK(Closed, b, c, rows, f)
  BY <1>1 DEF SemOK, SqlOK
<1> QED BY <1>1, <1>2 DEF DatabaseOK

(* A database that has no clients was not told to be anything but closed.  *)
LEMMA FallsSilent ==
  ASSUME Inv, NEW d \in Domains
  PROVE  /\ ToldOK(told[d], Closed, taken[d], failed[d])
         /\ ConnOK(backend, Fresh(conn[d].disk))
         /\ failed[d] \in BOOLEAN /\ (backend = "fuseki" => taken[d] = {})
<1>1. DatabaseOK(backend, db[d], conn[d], taken[d], failed[d], told[d])
  BY DEF Inv, TypeOK
<1>2. ToldOK(told[d], Closed, taken[d], failed[d])
  BY <1>1 DEF DatabaseOK, ToldOK, Closed
<1>3. ConnOK(backend, Fresh(conn[d].disk))
  BY <1>1, FreshOK DEF DatabaseOK, ConnOK
<1> QED BY <1>1, <1>2, <1>3 DEF DatabaseOK

(* database_release while others use the database.                         *)
LEMMA ReleaseSharedDoes ==
  ASSUME Inv, UNCHANGED <<backend, graph, ghosts, visits>>,
         NEW c \in Clients, client[c].phase # "gone", ReleaseShared(c, client[c].domain)
  PROVE  Inv'
<1>1. PICK d : d = client[c].domain
  OBVIOUS
<1>2. d \in Domains /\ db[d].ref_count \in Nat
  BY <1>1, HeldIsOpen DEF Inv
<1>3. DatabaseOK(backend, db[d], conn[d], taken[d], failed[d], told[d])
  BY <1>2 DEF Inv, TypeOK
<1>4. /\ db[d].ref_count > 1 /\ db' = [db EXCEPT ![d].ref_count = @ - 1]
      /\ client' = [client EXCEPT ![c] = Gone]
      /\ UNCHANGED <<backend, graph, visits, told, conn, taken, failed>>
  BY <1>1 DEF ReleaseShared, ghosts
<1>5. /\ DOMAIN db' = Domains /\ (\A e \in Domains \ {d} : db'[e] = db[e])
      /\ DOMAIN db'[d] = DOMAIN db[d] /\ db'[d].tables = db[d].tables
      /\ db'[d].ref_count = db[d].ref_count - 1
  BY <1>2, <1>3, <1>4 DEF Inv, TypeOK, DatabaseOK
<1>6. OnlyDatabase(d)
  BY <1>4, <1>5 DEF OnlyDatabase, Inv, TypeOK
<1>7. DatabaseOK(backend, db'[d], conn[d], taken[d], failed[d], told[d])
  <2>1. db'[d].ref_count \in Nat /\ db'[d].ref_count > 0 /\ db[d].ref_count > 0
    BY <1>2, <1>4, <1>5
  <2>2. ToldOK(told[d], db'[d], taken[d], failed[d])
    BY <1>3, <2>1 DEF DatabaseOK, ToldOK
  <2>3. SqlOK(db[d], backend, conn[d], taken[d], failed[d]) =>
          SqlOK(db'[d], backend, conn[d], taken[d], failed[d])
    BY <1>5, <2>1 DEF SqlOK
  <2> QED BY <1>3, <1>5, <2>1, <2>2, <2>3 DEF DatabaseOK
<1>8. DatabaseOf(d)'
  BY <1>4, <1>7 DEF DatabaseOf
<1> QED BY <1>1, <1>4, <1>5, <1>6, <1>8, LeaveDoes

(* database_release of the last client: commit, close, DBCLOSED.           *)
LEMMA ReleaseLastDoes ==
  ASSUME Inv, UNCHANGED <<backend, graph, ghosts, visits>>,
         NEW c \in Clients, client[c].phase # "gone", ReleaseLast(c, client[c].domain)
  PROVE  Inv'
<1>1. PICK d : d = client[c].domain
  OBVIOUS
<1>2. d \in Domains /\ db[d].ref_count = 1
  BY <1>1, HeldIsOpen DEF Inv, ReleaseLast
<1>3. PICK e : e = Released(d)
  OBVIOUS
<1>4. DOMAIN told' = Domains /\ \A x \in Domains \ {d} : told'[x] = told[x]
  BY <1>1, <1>2 DEF Inv, TypeOK, ReleaseLast, HookSendEvent
<1>5. DOMAIN told'[d] = {"command", "rows"} /\ told'[d].rows = conn'[d].disk.rows
  BY <1>1, <1>2 DEF Inv, TypeOK, ReleaseLast, HookSendEvent, Event
<1>6. ASSUME conn'[d] = e
      PROVE  ConnOK(backend, e) /\ ToldOK(told'[d], Closed, taken[d], failed[d])
  <2>1. PICK event : event = told'[d]
    OBVIOUS
  <2>2. DOMAIN event = {"command", "rows"} /\ event.rows = e.disk.rows /\ db[d].ref_count > 0
    BY <1>2, <1>5, <1>6, <2>1
  <2>3. ConnOK(backend, e) /\ ToldOK(event, Closed, taken[d], failed[d])
    BY <1>2, <1>3, <2>2, ReleasedDoes
  <2> QED BY <2>1, <2>3
<1>7. CASE hook = "dead"
  <2>1. /\ db' = [x \in Domains |-> Closed] /\ client' = [x \in Clients |-> Gone]
        /\ conn' = [x \in Domains |-> IF x = d THEN e ELSE Fresh(conn[x].disk)]
    BY <1>1, <1>3, <1>7 DEF ReleaseLast
  <2>2. DOMAIN conn' = Domains /\ conn'[d] = e /\ \A x \in Domains \ {d} : conn'[x] = Fresh(conn[x].disk)
    BY <1>2, <2>1
  <2>3. ASSUME NEW x \in Domains
        PROVE  ConnOK(backend, conn'[x]) /\ ToldOK(told'[x], Closed, taken[x], failed[x])
    <3>1. CASE x = d
      BY <1>6, <2>2, <3>1
    <3>2. CASE x # d
      BY <1>4, <2>2, <3>2, FallsSilent
    <3> QED BY <3>1, <3>2
  <2>4. visits' \in [Clients -> Nat] /\ \A x \in Clients : visits[x] <= visits'[x]
    BY DEF Inv, TypeOK
  <2> QED BY <1>4, <2>1, <2>2, <2>3, <2>4, DeathDoes
<1>8. CASE hook # "dead"
  <2>1. /\ db' = [db EXCEPT ![d] = Closed] /\ client' = [client EXCEPT ![c] = Gone]
        /\ conn' = [conn EXCEPT ![d] = e]
    BY <1>1, <1>3, <1>8 DEF ReleaseLast
  <2>2. /\ DOMAIN db' = Domains /\ db'[d] = Closed /\ (\A x \in Domains \ {d} : db'[x] = db[x])
        /\ DOMAIN conn' = Domains /\ conn'[d] = e /\ (\A x \in Domains \ {d} : conn'[x] = conn[x])
    BY <1>2, <2>1 DEF Inv, TypeOK
  <2>3. UNCHANGED <<backend, graph, taken, failed, visits>>
    BY DEF ghosts
  <2>4. OnlyDatabase(d)
    BY <1>4, <2>2, <2>3 DEF OnlyDatabase, Inv, TypeOK
  <2>5. DatabaseOK(backend, Closed, e, taken[d], failed[d], told'[d])
    BY <1>2, <1>6, <2>2, FallsSilent, ClosedIsOK
  <2>6. DatabaseOf(d)'
    BY <2>2, <2>3, <2>5 DEF DatabaseOf
  <2>7. db'[d].ref_count = db[d].ref_count - 1 /\ ~(db[d].ref_count > 1)
    BY <1>2, <2>2 DEF Closed
  <2> QED BY <1>1, <2>1, <2>3, <2>4, <2>6, <2>7, LeaveDoes
<1> QED BY <1>7, <1>8

(* A client leaves.                                                        *)
LEMMA CloseClientDoes ==
  ASSUME Inv, NEW c \in Clients, CloseClient(c)
  PROVE  Inv'
BY ReleaseSharedDoes, ReleaseLastDoes DEF CloseClient

-----------------------------------------------------------------------------
(* Opening, and what nobody asked for.                                     *)

(* The clients and their tables are left alone.                            *)
LEMMA ClientsStay ==
  ASSUME Inv, UNCHANGED <<backend, db, client, graph>>, visits' \in [Clients -> Nat],
         \A c \in Clients : visits[c] <= visits'[c],
         DOMAIN conn' = Domains, DOMAIN told' = Domains, DOMAIN taken' = Domains,
         DOMAIN failed' = Domains, \A d \in Domains : DatabaseOf(d)'
  PROVE  Inv'
<1>1. TypeOK'
  BY DEF Inv, TypeOK, DatabaseOf
<1>2. RefInv'
  BY DEF Inv, RefInv, Holders
<1>3. UsedInv'
  BY DEF Inv, UsedInv, TablesOf
<1>4. GraphInv'
  <2>1. \A c \in Clients : TablesOf(c)' = TablesOf(c)
    BY DEF TablesOf
  <2> QED BY <2>1, GraphStays
<1> QED BY <1>1, <1>2, <1>3, <1>4 DEF Inv

(* Nothing of the databases changes.                                       *)
LEMMA QuietDoes ==
  ASSUME Inv, UNCHANGED <<backend, told, db, conn, client, graph, taken, failed>>,
         visits' \in [Clients -> Nat], \A c \in Clients : visits[c] <= visits'[c]
  PROVE  Inv'
<1>1. ASSUME NEW d \in Domains PROVE DatabaseOf(d)'
  BY DEF DatabaseOf, Inv, TypeOK
<1>2. /\ DOMAIN conn' = Domains /\ DOMAIN told' = Domains /\ DOMAIN taken' = Domains
      /\ DOMAIN failed' = Domains
  BY DEF Inv, TypeOK
<1> QED BY <1>1, <1>2, ClientsStay

(* One connection changes.                                                 *)
LEMMA ConnectionDoes ==
  ASSUME Inv, UNCHANGED <<backend, told, db, client, graph, taken>>,
         visits' \in [Clients -> Nat], \A c \in Clients : visits[c] <= visits'[c],
         NEW d \in Domains, NEW e, DOMAIN conn' = Domains, conn'[d] = e,
         DOMAIN failed' = Domains,
         \A x \in Domains \ {d} : conn'[x] = conn[x] /\ failed'[x] = failed[x],
         DatabaseOK(backend, db[d], e, taken[d], failed'[d], told[d])
  PROVE  Inv'
<1>1. ASSUME NEW x \in Domains PROVE DatabaseOf(x)'
  <2>1. CASE x = d
    BY <2>1 DEF DatabaseOf
  <2>2. CASE x # d
    BY <2>2 DEF DatabaseOf, Inv, TypeOK
  <2> QED BY <2>1, <2>2
<1>2. DOMAIN told' = Domains /\ DOMAIN taken' = Domains
  BY DEF Inv, TypeOK
<1> QED BY <1>1, <1>2, ClientsStay

(* A second passes: the next insertion commits.                            *)
LEMMA NextSecondDoes ==
  ASSUME Inv, NEW d \in Domains, NextSecond(d)
  PROVE  Inv'
<1>1. /\ ~Semantic /\ db[d].ref_count > 0
      /\ UNCHANGED <<backend, told, db, client, graph, taken, failed, visits>>
      /\ conn' = [conn EXCEPT ![d].due = TRUE]
  BY DEF NextSecond, IsOpen, ghosts
<1>2. DatabaseOK(backend, db[d], conn[d], taken[d], failed[d], told[d])
  BY DEF Inv, TypeOK
<1>3. PICK c : c = conn[d]
  OBVIOUS
<1>4. PICK e : e = [c EXCEPT !.due = TRUE]
  OBVIOUS
<1>5. conn' = [conn EXCEPT ![d] = e]
  BY <1>1, <1>3, <1>4
<1>6. ConnOK(backend, c)
  BY <1>2, <1>3 DEF DatabaseOK
<1>7. /\ DOMAIN e = DOMAIN c /\ e.link = c.link /\ e.txn = c.txn /\ e.disk = c.disk
      /\ e.view = c.view /\ e.prepared = c.prepared
  BY <1>4, <1>6 DEF ConnOK
<1>8. Keeps(backend, c, e)
  BY <1>6, <1>7, GrowsOrder DEF ConnOK, Keeps
<1>9. failed[d] \in BOOLEAN /\ (~failed[d] => e.txn # "aborted" /\ e.link = -1)
  BY <1>1, <1>2, <1>3, <1>7 DEF DatabaseOK, SqlOK, StoredOK, Semantic
<1>10. DatabaseOK(backend, db[d], e, taken[d], failed[d], told[d])
  BY <1>1, <1>2, <1>3, <1>8, <1>9, ConnectStays
<1>11. /\ DOMAIN conn' = Domains /\ conn'[d] = e /\ DOMAIN failed' = Domains /\ failed'[d] = failed[d]
       /\ \A x \in Domains \ {d} : conn'[x] = conn[x] /\ failed'[x] = failed[x]
  BY <1>1, <1>5 DEF Inv, TypeOK
<1>12. visits' \in [Clients -> Nat] /\ \A k \in Clients : visits[k] <= visits'[k]
  BY <1>1 DEF Inv, TypeOK
<1> QED BY <1>1, <1>10, <1>11, <1>12, ConnectionDoes

(* What is used of a connection that breaks cannot be undone.              *)
LEMMA LinkDiesDoes ==
  ASSUME Inv, NEW d \in Domains, LinkDies(d)
  PROVE  Inv'
<1>1. /\ backend = "postgresql" /\ db[d].ref_count > 0 /\ conn[d].link = -1
      /\ UNCHANGED <<backend, told, db, client, graph, taken, visits>>
  BY DEF LinkDies, IsOpen
<1>2. DatabaseOK(backend, db[d], conn[d], taken[d], failed[d], told[d])
  BY DEF Inv, TypeOK
<1>3. PICK c : c = conn[d]
  OBVIOUS
<1>4. PICK n \in StatementsLeft : Connect(d, [c EXCEPT !.link = n])
  BY <1>3 DEF LinkDies
<1>5. PICK e : e = [c EXCEPT !.link = n]
  OBVIOUS
<1>6. n \in Nat
  BY <1>4, DatabasesAssumption
<1>7. ConnOK(backend, c) /\ SqlOK(db[d], backend, c, taken[d], failed[d])
  BY <1>1, <1>2, <1>3 DEF DatabaseOK
<1>8. /\ DOMAIN e = DOMAIN c /\ e.link = n /\ e.txn = c.txn /\ e.disk = c.disk
      /\ e.view = c.view /\ e.prepared = c.prepared
  BY <1>5, <1>7 DEF ConnOK
<1>9. ConnOK(backend, e)
  BY <1>1, <1>6, <1>7, <1>8 DEF ConnOK
<1>10. /\ DOMAIN conn' = Domains /\ conn'[d] = e /\ DOMAIN failed' = Domains /\ failed'[d] \in BOOLEAN
       /\ ~failed'[d] => e.link = -1
       /\ \A x \in Domains \ {d} : conn'[x] = conn[x] /\ failed'[x] = failed[x]
  BY <1>4, <1>5, ConnectDoes DEF Inv
<1>11. ~failed'[d] => FALSE
  BY <1>6, <1>8, <1>10
<1>12. SqlOK(db[d], backend, e, taken[d], failed'[d])
  <2>1. Safe(backend, e) = Safe(backend, c)
    BY <1>8 DEF Safe
  <2>2. TablesOK(backend, db[d].tables, e)
    BY <1>1, <1>3, <1>6, <1>7, <1>8, <2>1 DEF SqlOK, TablesOK
  <2> QED BY <1>7, <1>11, <2>1, <2>2 DEF SqlOK, StoredOK
<1>13. ToldOK(told[d], db[d], taken[d], failed'[d])
  BY <1>1, <1>2 DEF DatabaseOK, ToldOK
<1>14. DatabaseOK(backend, db[d], e, taken[d], failed'[d], told[d])
  BY <1>1, <1>2, <1>9, <1>10, <1>12, <1>13 DEF DatabaseOK
<1>15. visits' \in [Clients -> Nat] /\ \A k \in Clients : visits[k] <= visits'[k]
  BY <1>1 DEF Inv, TypeOK
<1> QED BY <1>1, <1>10, <1>14, <1>15, ConnectionDoes

(* A database is found open.                                               *)
LEMMA FindOpenDoes ==
  ASSUME Inv, UNCHANGED <<backend, graph>>,
         NEW c \in Clients, client[c].phase = "gone", visits' = [visits EXCEPT ![c] = @ + 1],
         NEW d \in Domains, FindOpen(c, d)
  PROVE  Inv'
<1>1. DatabaseOK(backend, db[d], conn[d], taken[d], failed[d], told[d]) /\ db[d].ref_count \in Nat
  BY DEF Inv, TypeOK, DatabaseOK
<1>2. /\ db[d].ref_count > 0 /\ db' = [db EXCEPT ![d].ref_count = @ + 1] /\ Enter(c, d)
      /\ UNCHANGED <<told, conn, taken, failed>>
  BY DEF FindOpen, IsOpen, ghosts
<1>3. /\ DOMAIN db' = Domains /\ (\A e \in Domains \ {d} : db'[e] = db[e])
      /\ DOMAIN db'[d] = DOMAIN db[d] /\ db'[d].tables = db[d].tables
      /\ db'[d].ref_count = db[d].ref_count + 1
  BY <1>1, <1>2 DEF Inv, TypeOK, DatabaseOK
<1>4. OnlyDatabase(d)
  BY <1>2, <1>3 DEF OnlyDatabase, Inv, TypeOK
<1>5. DatabaseOK(backend, db'[d], conn[d], taken[d], failed[d], told[d])
  <2>1. db'[d].ref_count \in Nat /\ db'[d].ref_count > 0
    BY <1>1, <1>2, <1>3
  <2>2. ToldOK(told[d], db'[d], taken[d], failed[d])
    BY <1>1, <1>2 DEF DatabaseOK, ToldOK
  <2>3. SqlOK(db[d], backend, conn[d], taken[d], failed[d]) =>
          SqlOK(db'[d], backend, conn[d], taken[d], failed[d])
    BY <1>2, <1>3 DEF SqlOK
  <2> QED BY <1>1, <1>3, <2>1, <2>2, <2>3 DEF DatabaseOK
<1>6. DatabaseOf(d)'
  BY <1>2, <1>5 DEF DatabaseOf
<1> QED BY <1>2, <1>3, <1>4, <1>6, EnterDoes

(* What opening a database gives is fit to be used.                        *)
LEMMA OpenDatabaseDoes ==
  ASSUME Inv, NEW d \in Domains, NEW o, o = OpenDatabase(d),
         NEW start, NEW event, DOMAIN event = {"command", "rows"}, event.command # "DBCLOSED"
  PROVE  /\ ConnOK(backend, o.c)
         /\ o.ok => DatabaseOK(backend, [ref_count |-> 1, start_time |-> start, tables |-> o.tables],
                               o.c, {}, FALSE, event)
<1>1. ConnOK(backend, conn[d])
  BY DEF Inv, TypeOK, DatabaseOK
<1>2. PICK r : r = [ref_count |-> 1, start_time |-> start, tables |-> o.tables]
  OBVIOUS
<1>3. /\ DOMAIN r = {"ref_count", "start_time", "tables"} /\ r.ref_count = 1 /\ r.ref_count \in Nat
      /\ r.tables = o.tables
  BY <1>2
<1>4. ToldOK(event, r, {}, FALSE)
  BY DEF ToldOK
<1>5. CASE Semantic
  <2>1. o.c = conn[d] /\ o.tables = <<>>
    BY <1>5 DEF OpenDatabase
  <2>2. IsList(<<>>) /\ DOMAIN <<>> = {}
    BY EmptySeq DEF IsList
  <2>3. SemOK(<<>>) /\ backend = "fuseki"
    BY <1>5, <2>2 DEF SemOK, Semantic
  <2>4. DatabaseOK(backend, r, o.c, {}, FALSE, event)
    BY <1>1, <1>3, <1>4, <2>1, <2>2, <2>3 DEF DatabaseOK
  <2> QED BY <1>1, <1>2, <2>1, <2>4
<1>6. CASE ~Semantic
  <2>1. o = DatabaseInit(Open(backend, conn[d].disk)) /\ backend \in Sql /\ backend # "fuseki"
    BY <1>6, BackendIs DEF OpenDatabase, Inv, Semantic
  <2>2. ContentOK(backend, conn[d].disk)
    BY <1>1 DEF ConnOK
  <2>3. /\ ConnOK(backend, o.c)
        /\ o.ok => /\ o.c.link = -1 /\ o.c.txn # "aborted"
                   /\ IsList(o.tables) /\ \A i \in DOMAIN o.tables : InUse(backend, o.tables[i], o.c)
                   /\ Metadata \in DOMAIN Safe(backend, o.c).tables
    BY <2>1, <2>2, DatabaseInitDoes
  <2>4. ASSUME o.ok PROVE DatabaseOK(backend, r, o.c, {}, FALSE, event)
    <3>1. TablesOK(backend, o.tables, o.c)
      BY <2>3, <2>4 DEF TablesOK, InUse, Linked
    <3>2. StoredOK(o.c, {}, FALSE)
      BY <2>3, <2>4 DEF StoredOK
    <3>3. SqlOK(r, backend, o.c, {}, FALSE)
      BY <1>3, <2>3, <2>4, <3>1, <3>2 DEF SqlOK
    <3>4. \A i \in DOMAIN r.tables : TableShape(r.tables[i])
      BY <1>3, <2>3, <2>4 DEF InUse
    <3> QED BY <1>3, <1>4, <2>1, <2>3, <2>4, <3>3, <3>4 DEF DatabaseOK
  <2> QED BY <1>2, <2>3, <2>4
<1> QED BY <1>5, <1>6

(* A database is opened, successfully.                                     *)
LEMMA OpenedDoes ==
  ASSUME Inv, UNCHANGED <<backend, graph>>,
         NEW c \in Clients, client[c].phase = "gone", visits' = [visits EXCEPT ![c] = @ + 1],
         NEW d \in Domains, ~IsOpen(d), Opened(c, d, OpenDatabase(d)), OpenDatabase(d).ok
  PROVE  Inv'
<1>1. PICK o : o = OpenDatabase(d)
  OBVIOUS
<1>2. PICK start : start = StartTime(o.c.view)
  OBVIOUS
<1>3. PICK r : r = [ref_count |-> 1, start_time |-> start, tables |-> o.tables]
  OBVIOUS
<1>4. /\ db' = [db EXCEPT ![d] = r] /\ conn' = [conn EXCEPT ![d] = o.c] /\ Enter(c, d)
      /\ HookSendEvent(IF start = 0 THEN "DBCREATED" ELSE "DBOPENED", d)
      /\ taken' = [taken EXCEPT ![d] = {}] /\ failed' = [failed EXCEPT ![d] = FALSE]
  BY <1>1, <1>2, <1>3 DEF Opened
<1>5. /\ DOMAIN db' = Domains /\ db'[d] = r /\ (\A e \in Domains \ {d} : db'[e] = db[e])
      /\ DOMAIN conn' = Domains /\ conn'[d] = o.c /\ (\A e \in Domains \ {d} : conn'[e] = conn[e])
      /\ DOMAIN taken' = Domains /\ taken'[d] = {} /\ (\A e \in Domains \ {d} : taken'[e] = taken[e])
      /\ DOMAIN failed' = Domains /\ failed'[d] = FALSE
      /\ (\A e \in Domains \ {d} : failed'[e] = failed[e])
  BY <1>4 DEF Inv, TypeOK
<1>6. PICK command \in {"DBCREATED", "DBOPENED", "none"} : told' = [told EXCEPT ![d] = Event(command, d)]
  BY <1>4 DEF HookSendEvent
<1>7. /\ DOMAIN told' = Domains /\ (\A e \in Domains \ {d} : told'[e] = told[e])
      /\ DOMAIN told'[d] = {"command", "rows"} /\ told'[d].command # "DBCLOSED"
  BY <1>6 DEF Event, Inv, TypeOK
<1>8. OnlyDatabase(d)
  BY <1>5, <1>7 DEF OnlyDatabase
<1>9. DatabaseOf(d)'
  <2>1. PICK event : event = told'[d]
    OBVIOUS
  <2>2. DatabaseOK(backend, r, o.c, {}, FALSE, event)
    BY <1>1, <1>3, <1>7, <2>1, OpenDatabaseDoes
  <2> QED BY <1>5, <2>1, <2>2 DEF DatabaseOf
<1>10. db'[d].ref_count = db[d].ref_count + 1
  BY <1>3, <1>5, ClosedIsFree DEF Inv
<1> QED BY <1>4, <1>8, <1>9, <1>10, EnterDoes

(* A database that cannot be opened is left, with what was committed.      *)
LEMMA NotOpenedDoes ==
  ASSUME Inv, UNCHANGED <<backend, graph>>, visits' \in [Clients -> Nat],
         \A c \in Clients : visits[c] <= visits'[c],
         NEW d \in Domains, ~IsOpen(d), NotOpened(d, OpenDatabase(d))
  PROVE  Inv'
<1>1. PICK o : o = OpenDatabase(d)
  OBVIOUS
<1>2. PICK e : e = Fresh(o.c.disk)
  OBVIOUS
<1>3. conn' = [conn EXCEPT ![d] = e] /\ UNCHANGED <<told, db, client, taken, failed>>
  BY <1>1, <1>2 DEF NotOpened, ghosts
<1>4. /\ DOMAIN conn' = Domains /\ conn'[d] = e /\ DOMAIN failed' = Domains /\ failed'[d] = failed[d]
      /\ \A x \in Domains \ {d} : conn'[x] = conn[x] /\ failed'[x] = failed[x]
  BY <1>3 DEF Inv, TypeOK
<1>5. ConnOK(backend, e)
  <2>1. PICK event : event = [command |-> "none", rows |-> {}]
    OBVIOUS
  <2>2. DOMAIN event = {"command", "rows"} /\ event.command # "DBCLOSED"
    BY <2>1
  <2>3. ConnOK(backend, o.c)
    BY <1>1, <2>2, OpenDatabaseDoes
  <2> QED BY <1>2, <2>3, FreshOK DEF ConnOK
<1>6. DatabaseOK(backend, db[d], e, taken[d], failed[d], told[d])
  <2>1. DatabaseOK(backend, db[d], conn[d], taken[d], failed[d], told[d])
    BY DEF Inv, TypeOK
  <2>2. db[d].ref_count = 0
    BY ClosedIsFree DEF Inv
  <2>3. SqlOK(db[d], backend, e, taken[d], failed[d])
    BY <2>2 DEF SqlOK
  <2> QED BY <1>5, <2>1, <2>3 DEF DatabaseOK
<1> QED BY <1>3, <1>4, <1>6, ConnectionDoes

(* The domain header: a database is found, opened, or neither.             *)
LEMMA DomainDoes ==
  ASSUME Inv, NEW c \in Clients, NEW d \in Domains, ProcessDomain(c, d)
  PROVE  Inv'
<1>1. /\ client[c].phase = "gone" /\ visits' = [visits EXCEPT ![c] = @ + 1]
      /\ UNCHANGED <<backend, graph>>
      /\ \/ FindOpen(c, d)
         \/ FindNew(c, d)
         \/ ~IsOpen(d) /\ UNCHANGED <<server, hook, told, db, conn, client, sem, ghosts>>
  BY DEF ProcessDomain
<1>2. visits' \in [Clients -> Nat] /\ \A k \in Clients : visits[k] <= visits'[k]
  BY <1>1 DEF Inv, TypeOK
<1>3. CASE FindOpen(c, d)
  BY <1>1, <1>3, FindOpenDoes
<1>4. CASE FindNew(c, d)
  <2>1. /\ ~IsOpen(d)
        /\ IF OpenDatabase(d).ok
           THEN IF hook = "dead" THEN Dies /\ UNCHANGED <<told, ghosts>>
                ELSE Opened(c, d, OpenDatabase(d))
           ELSE NotOpened(d, OpenDatabase(d))
    BY <1>4 DEF FindNew
  <2>2. CASE Dies /\ UNCHANGED <<told, ghosts>>
    BY <1>1, <1>2, <2>2, DiesDoes
  <2>3. CASE OpenDatabase(d).ok /\ Opened(c, d, OpenDatabase(d))
    BY <1>1, <2>1, <2>3, OpenedDoes
  <2>4. CASE NotOpened(d, OpenDatabase(d))
    BY <1>1, <1>2, <2>1, <2>4, NotOpenedDoes
  <2> QED BY <2>1, <2>2, <2>3, <2>4
<1>5. CASE UNCHANGED <<server, hook, told, db, conn, client, sem, ghosts>>
  <2>1. UNCHANGED <<backend, told, db, conn, client, graph, taken, failed>>
    BY <1>1, <1>5 DEF ghosts
  <2> QED BY <1>2, <2>1, QuietDoes
<1> QED BY <1>1, <1>3, <1>4, <1>5

-----------------------------------------------------------------------------
(* The invariant.                                                          *)

(* At first nothing is stored and nobody is there.                         *)
LEMMA InitHolds ==
  ASSUME Init
  PROVE  Inv
<1>1. /\ DOMAIN db = Domains /\ DOMAIN conn = Domains /\ DOMAIN told = Domains
      /\ DOMAIN taken = Domains /\ DOMAIN failed = Domains /\ DOMAIN client = Clients
      /\ backend \in Backends /\ visits = [c \in Clients |-> 0]
      /\ graph = [services |-> {}, measurements |-> {}]
  BY DEF Init
<1>2. ASSUME NEW d \in Domains
      PROVE  /\ DatabaseOK(backend, db[d], conn[d], taken[d], failed[d], told[d])
             /\ db[d].ref_count = 0
  <2>1. /\ db[d] = Closed /\ conn[d] = Fresh(Empty) /\ taken[d] = {} /\ failed[d] = FALSE
        /\ told[d] = [command |-> "none", rows |-> {}]
    BY DEF Init
  <2>2. ConnOK(backend, conn[d])
    BY <2>1, EmptyOK, FreshOK
  <2>3. ToldOK(told[d], Closed, taken[d], failed[d])
    BY <2>1 DEF ToldOK
  <2>4. DatabaseOK(backend, Closed, conn[d], taken[d], failed[d], told[d])
    <3>1. PICK c, rows, f, event : c = conn[d] /\ rows = taken[d] /\ f = failed[d] /\ event = told[d]
      OBVIOUS
    <3>2. /\ ConnOK(backend, c) /\ ToldOK(event, Closed, rows, f) /\ f \in BOOLEAN
          /\ backend = "fuseki" => rows = {}
      BY <2>1, <2>2, <2>3, <3>1
    <3>3. DatabaseOK(backend, Closed, c, rows, f, event)
      BY <3>2, ClosedIsOK
    <3> QED BY <3>1, <3>3
  <2>5. Closed.ref_count = 0
    BY DEF Closed
  <2> QED BY <2>1, <2>4, <2>5
<1>3. ASSUME NEW c \in Clients
      PROVE  client[c] = Gone /\ ClientOK(client[c]) /\ client[c].domain \notin Domains
             /\ DOMAIN client[c].streams = {}
  <2>1. client[c] = Gone
    BY DEF Init
  <2> QED BY <2>1, DatabasesAssumption DEF ClientOK, Gone
<1>4. TypeOK
  BY <1>1, <1>2, <1>3 DEF TypeOK
<1>5. RefInv
  <2>1. ASSUME NEW d \in Domains PROVE Holders(d) = {}
    BY <1>3 DEF Holders
  <2> QED BY <1>2, <2>1, FS_EmptySet DEF RefInv
<1>6. UsedInv
  BY <1>3 DEF UsedInv, UsedOK
<1>7. GraphInv
  BY <1>1 DEF GraphInv, StreamsKeepTheirSender, MeasurementsOK
<1> QED BY <1>4, <1>5, <1>6, <1>7 DEF Inv

(* Every step keeps the invariant.                                         *)
LEMMA StepHolds ==
  ASSUME Inv, [Next]_vars
  PROVE  Inv'
<1>1. ASSUME NEW c \in Clients, NEW d \in Domains, ProcessDomain(c, d) PROVE Inv'
  BY <1>1, DomainDoes
<1>2. ASSUME NEW c \in Clients, ProcessStartTime(c) PROVE Inv'
  BY <1>2, StartTimeDoes
<1>3. ASSUME NEW c \in Clients, ProcessSenderId(c) PROVE Inv'
  BY <1>3, SenderIdDoes
<1>4. ASSUME NEW c \in Clients, NEW s \in StreamsOf[backend][c], ProcessSchema(c, s) PROVE Inv'
  BY <1>4, SchemaDoes
<1>5. ASSUME NEW c \in Clients, NEW s \in StreamsOf[backend][c], NEW value \in {"small", "big"},
             ProcessRow(c, s, value)
      PROVE  Inv'
  BY <1>5, RowDoes
<1>6. ASSUME NEW c \in Clients, CloseClient(c) PROVE Inv'
  BY <1>6, CloseClientDoes
<1>7. ASSUME NEW d \in Domains, NextSecond(d) PROVE Inv'
  BY <1>7, NextSecondDoes
<1>8. visits \in [Clients -> Nat]
  BY DEF Inv, TypeOK
<1>9. CASE Crash
  <2>1. Dies /\ UNCHANGED <<backend, told, graph, ghosts, visits>>
    BY <1>9 DEF Crash
  <2>2. visits' \in [Clients -> Nat] /\ \A c \in Clients : visits[c] <= visits'[c]
    BY <1>8, <2>1
  <2> QED BY <2>1, <2>2, DiesDoes
<1>10. ASSUME NEW d \in Domains, LinkDies(d) PROVE Inv'
  BY <1>10, LinkDiesDoes
<1>11. ASSUME UNCHANGED <<backend, told, db, conn, client, graph, taken, failed, visits>> PROVE Inv'
  <2>1. visits' \in [Clients -> Nat] /\ \A c \in Clients : visits[c] <= visits'[c]
    BY <1>8, <1>11
  <2> QED BY <1>11, <2>1, QuietDoes
<1>12. CASE HookDies
  BY <1>11, <1>12 DEF HookDies, ghosts
<1>13. CASE StartServer
  BY <1>11, <1>13 DEF StartServer, ghosts
<1>14. CASE UNCHANGED vars
  BY <1>11, <1>14 DEF vars
<1> QED BY <1>1, <1>2, <1>3, <1>4, <1>5, <1>6, <1>7, <1>9, <1>10, <1>12, <1>13, <1>14 DEF Next

(* What the databases keep, whoever comes and whatever dies.               *)
THEOREM InvHolds == Spec => []Inv
BY InitHolds, StepHolds, PTL DEF Spec

-----------------------------------------------------------------------------
(* What it is for.                                                         *)

(* What the invariant says of committed rows.                              *)
LEMMA InvDescribes == Inv => RowsAreDescribed
<1> SUFFICES ASSUME Inv, NEW d \in Domains, NEW row \in conn[d].disk.rows,
                    row.table # Metadata, DescriptionFits(row)
             PROVE  /\ row.table \in DOMAIN conn[d].disk.tables
                    /\ Recorded(conn[d].disk, row.table)
                    /\ SchemaToSql(ListedSchema(conn[d].disk, row.table), OmlToType(backend)).columns
                         = conn[d].disk.tables[row.table]
  BY DEF RowsAreDescribed
<1>1. PICK disk : disk = conn[d].disk
  OBVIOUS
<1>2. ContentOK(backend, disk)
  BY <1>1 DEF Inv, TypeOK, DatabaseOK, ConnOK
<1>3. Recorded(disk, row.table)
  BY <1>1, <1>2 DEF ContentOK, RowFits, DescriptionFits
<1>4. TableKey(row.table) \in DOMAIN disk.meta /\ TableKey(row.table) # StartTimeKey
      /\ TableKey(row.table)[2] = row.table
  BY <1>3 DEF Recorded, TableKey, StartTimeKey
<1>5. Matches(backend, disk, row.table)
  BY <1>2, <1>4 DEF ContentOK
<1> QED BY <1>1, <1>3, <1>5 DEF Matches

(* A usable table of an open database is ready for insert.                 *)
LEMMA UsableIsReady ==
  ASSUME Inv, NEW d \in Domains, db[d].ref_count > 0, conn[d].link = -1,
         NEW tables, tables = db[d].tables, NEW t, Usable(backend, tables, t)
  PROVE  /\ tables[t] # Unlinked /\ tables[t].handle = "ready"
         /\ ~Semantic => tables[t].schema.name \in conn[d].prepared
<1>1. t \in Linked(tables) /\ tables[t] # Unlinked
  BY DEF Usable, Linked
<1>2. CASE Semantic
  BY <1>1, <1>2 DEF Usable, Semantic
<1>3. CASE ~Semantic
  <2>1. TablesOK(backend, tables, conn[d])
    BY <1>3 DEF Inv, TypeOK, DatabaseOK, SqlOK, Semantic
  <2> QED BY <1>1, <2>1 DEF TablesOK
<1> QED BY <1>2, <1>3

(* What the invariant says of tables in use.                               *)
LEMMA InvReadies == Inv => TablesInUseAreReady
<1>1. ASSUME Inv, NEW c \in Clients, NEW s \in DOMAIN client[c].streams,
             NEW d, d = client[c].domain, NEW k, k = client[c].streams[s],
             k.table # 0, conn[d].link = -1
      PROVE  /\ db[d].tables[k.table] # Unlinked
             /\ db[d].tables[k.table].handle = "ready"
             /\ FirstDifference(db[d].tables[k.table].schema, s) = 0
             /\ ~Semantic => db[d].tables[k.table].schema.name \in conn[d].prepared
  <2>1. client[c].phase # "gone"
    BY <1>1, GoneHoldNothing DEF Inv
  <2>2. d \in Domains /\ db[d].ref_count > 0
    BY <1>1, <2>1, HeldIsOpen DEF Inv
  <2>3. PICK t : t = k.table
    OBVIOUS
  <2>4. PICK tables : tables = db[d].tables
    OBVIOUS
  <2>5. UsedOK(backend, client[c], tables)
    BY <1>1, <2>4 DEF Inv, UsedInv, TablesOf
  <2>6. t = client[c].streams[s].table /\ t # 0
    BY <1>1, <2>3
  <2>7. Usable(backend, tables, t) /\ FirstDifference(tables[t].schema, s) = 0
    BY <2>5, <2>6 DEF UsedOK
  <2>8. /\ tables[t] # Unlinked /\ tables[t].handle = "ready"
        /\ ~Semantic => tables[t].schema.name \in conn[d].prepared
    BY <1>1, <2>2, <2>4, <2>7, UsableIsReady, Zenon
  <2> QED BY <2>3, <2>4, <2>7, <2>8, Zenon
<1> QED BY <1>1, Zenon DEF TablesInUseAreReady

(* What the invariant says of a hook that was told DBCLOSED.               *)
LEMMA InvStores == Inv => ClosedMeansStored
BY DEF Inv, TypeOK, DatabaseOK, ToldOK, ClosedMeansStored

(* What the invariant says of the measurements in the triple store.        *)
LEMMA InvKeeps == Inv => StreamsKeepTheirSender
BY DEF Inv, GraphInv

(* Whoever opens a database again finds the schema of every row, on each   *)
(* backend, whatever statements failed and whenever the server died.       *)
THEOREM RowsAreAlwaysDescribed == Spec => []RowsAreDescribed
BY InvHolds, InvDescribes, PTL

(* The table that a handler keeps for a stream is ready for insert.        *)
THEOREM TablesInUseAreAlwaysReady == Spec => []TablesInUseAreReady
BY InvHolds, InvReadies, PTL

(* When the hook hears that a database is closed its rows are stored.      *)
THEOREM ClosedAlwaysMeansStored == Spec => []ClosedMeansStored
BY InvHolds, InvStores, PTL

(* The measurements of a stream name one sender and one domain.            *)
THEOREM StreamsAlwaysKeepTheirSender == Spec => []StreamsKeepTheirSender
BY InvHolds, InvKeeps, PTL

===============================================================================
