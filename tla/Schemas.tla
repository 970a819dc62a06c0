------------------------------- MODULE Schemas --------------------------------
(***************************************************************************)
(* Schemas of measurement streams (lib/shared/schema.c) and their form in  *)
(* metadata and in SQL.                                                    *)
(*                                                                         *)
(* A schema is [name, fields], a field [name, type, concepts], a concept   *)
(* [s, p, o] (subject, predicate, object).  A name is a sequence of atoms, *)
(* so that a number can be added to it.  The index is left out: nothing    *)
(* here looks at it.  Metadata is a record of the same form, whose fields  *)
(* need not be readable; an SQL table is [name, columns], a column         *)
(* [name, type] with a type of the backend.                                *)
(***************************************************************************)
EXTENDS Integers, Sequences, SequencesExt

NoSchema == [name |-> <<>>, fields |-> <<>>]
UnknownType == "unknown"

OmlTypes == {"int32", "uint32", "int64", "uint64", "double", "string", "blob", "guid", "bool",
             "datetime", "vector"}

-----------------------------------------------------------------------------
(* A concept goes behind the head of the list: from the third on the list  *)
(* is in the order opposite to that of the concepts' arrival.              *)
AddSemDef(list, element) ==
  IF list = <<>> THEN <<element>> ELSE <<list[1], element>> \o Tail(list)

SemToMpdef(concepts) == FoldLeft(AddSemDef, <<>>, concepts)

(* The name ends at the first colon, the type at the second; some types    *)
(* have an old name.                                                       *)
FieldType(type) ==
  CASE type \in {"integer", "long"} -> "int32"
    [] type \in {"real", "float"} -> "double"
    [] type \in OmlTypes -> type
    [] OTHER -> UnknownType

FieldFromMeta(field) ==
  [name |-> field.name, type |-> FieldType(field.type), concepts |-> SemToMpdef(field.concepts)]

(* One field that cannot be read makes the whole schema unreadable.        *)
SchemaFromMeta(meta) ==
  LET fields == [i \in DOMAIN meta.fields |-> FieldFromMeta(meta.fields[i])] IN
  IF \E i \in DOMAIN fields : fields[i].type = UnknownType
  THEN NoSchema
  ELSE [name |-> meta.name, fields |-> fields]

(* The concepts do not go into the metadata.                               *)
SchemaToMeta(schema) ==
  IF schema.fields = <<>>
  THEN NoSchema
  ELSE [schema EXCEPT !.fields =
          [i \in DOMAIN @ |-> [name |-> @[i].name, type |-> @[i].type, concepts |-> <<>>]]]

-----------------------------------------------------------------------------
(* The columns that every table has, before those of the schema.           *)
MetadataColumns(o2t) ==
  <<[name |-> "oml_tuple_id", type |-> o2t["primary key"]],
    [name |-> "oml_sender_id", type |-> o2t["int32"]],
    [name |-> "oml_seq", type |-> o2t["int32"]],
    [name |-> "oml_ts_client", type |-> o2t["double"]],
    [name |-> "oml_ts_server", type |-> o2t["double"]]>>

Columns(schema, o2t) ==
  [i \in DOMAIN schema.fields |->
     [name |-> schema.fields[i].name, type |-> o2t[schema.fields[i].type]]]

(* No statement for a schema without fields, or with a type that the       *)
(* backend does not have.                                                  *)
HasSql(schema, o2t) ==
  /\ schema.fields # <<>>
  /\ \A i \in DOMAIN schema.fields : schema.fields[i].type \in DOMAIN o2t

SchemaToSql(schema, o2t) ==
  [name |-> schema.name, columns |-> MetadataColumns(o2t) \o Columns(schema, o2t)]

(* What the first CREATE TABLE of a backend says of a table's columns.     *)
ColumnNames(table) == {table.columns[i].name : i \in DOMAIN table.columns}

-----------------------------------------------------------------------------
(* A copy adds the concepts again, one by one: their order changes.        *)
CopyField(field) == [field EXCEPT !.concepts = SemToMpdef(@)]

SchemaCopy(schema) ==
  [schema EXCEPT !.fields = [i \in DOMAIN @ |-> CopyField(@[i])]]

(* -1 if the names differ or a schema has no fields, 0 if the fields have  *)
(* the same names and types, else the first that differs.                  *)
SameField(f, g) == f.name = g.name /\ f.type = g.type

FirstDifference(s1, s2) ==
  LET n == IF Len(s1.fields) < Len(s2.fields) THEN Len(s1.fields) ELSE Len(s2.fields)
      differing == {i \in 1..n : ~SameField(s1.fields[i], s2.fields[i])}
  IN  CASE differing # {} -> CHOOSE i \in differing : \A j \in differing : i <= j
        [] differing = {} /\ Len(s1.fields) # Len(s2.fields) -> n + 1
        [] OTHER -> 0

SchemaDiff(s1, s2) ==
  IF s1.name # s2.name \/ s1.fields = <<>> \/ s2.fields = <<>>
  THEN -1
  ELSE FirstDifference(s1, s2)
=============================================================================
