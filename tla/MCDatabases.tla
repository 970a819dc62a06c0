----------------------------- MODULE MCDatabases ------------------------------
(* Streams and constants for the runs of Databases.                        *)
EXTENDS Databases

Concept == [s |-> "m:Load", p |-> "m:isMetricOf", o |-> "m:Cpu"]

Field(name, type, concepts) == [name |-> name, type |-> type, concepts |-> concepts]
Stream(name, fields) == [name |-> <<name>>, fields |-> fields]

Load == Stream("load", <<Field("v", "uint64", <<Concept>>)>>)
(* Of the same name with another type, and a field whose name takes some   *)
(* five hundred letters: SQLite cannot store the metadata of its table.    *)
Wide == Stream("load", <<Field("v", "double", <<Concept>>), Field("five hundred letters", "string", <<>>)>>)

Names(s) == {[s EXCEPT !.name = NameOf(s, i)] : i \in 1..2}
WideEntries == {<<Metadata, TableKey(s.name), SchemaToMeta(s)>> : s \in Names(Wide)}

(* A stream without fields: the triple store refuses it.                   *)
Bare == Stream("bare", <<>>)

HiddenNames == {<<"pgstat">>}

Shared == ("alice" :> {Load}) @@ ("bob" :> {Load, Wide})
WithBare == ("alice" :> {Load, Bare}) @@ ("bob" :> {Load, Wide})
SharedStreams == ("sqlite" :> Shared) @@ ("postgresql" :> Shared) @@ ("fuseki" :> WithBare)

OnSql == ("alice" :> 1) @@ ("bob" :> 2)
OnFuseki == ("alice" :> 1) @@ ("bob" :> 2)
RowsOn == ("sqlite" :> OnSql) @@ ("postgresql" :> OnSql) @@ ("fuseki" :> OnFuseki)

FaultsOn == ("sqlite" :> 1) @@ ("postgresql" :> 1) @@ ("fuseki" :> 0)

Senders2 == ("alice" :> "a") @@ ("bob" :> "b")
Starts == ("alice" :> 5) @@ ("bob" :> 7)
=============================================================================
