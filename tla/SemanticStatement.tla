--------------------------- MODULE SemanticStatement ---------------------------
(***************************************************************************)
(* How server/fuseki_adapter.c stores a row: sem_prepare turns the         *)
(* concepts of a table's fields into the template of a SPARQL update, and  *)
(* sem_insert writes a row into the template's holes and posts it.         *)
(*                                                                         *)
(* A concept [s, p, o] relates two names, or a name and the field's own    *)
(* value.  A template is a sequence of lines <<subject, predicate,         *)
(* object>>: first those to INSERT, then those of the WHERE clause, which  *)
(* are <<Bind, expression, variable>>.  A line has at most one hole.       *)
(* Labels, prefixes and the text of a URI are left out.                    *)
(***************************************************************************)
EXTENDS Eager, FiniteSets, Functions, TLC

CONSTANTS
  Concepts,      \* those that fields are described with
  MaxFields,     \* bound: fields of a schema
  MaxConcepts    \* bound: concepts of a schema

VARIABLES
  fields,        \* the schema: the concepts of each field
  stage,         \* "schema", "ready", "failed"
  names,         \* hashtab: the variable of each name
  template,      \* insert_stmt of the table
  posted         \* the last update sent, <<>> if none was

vars == <<fields, stage, names, template, posted>>

-----------------------------------------------------------------------------
(* Terms.                                                                  *)
Name(x) == <<x>>
A == Name("a")
Bind == Name("BIND")
Measurement == Name("?measurement")
Metric == Name("?metric")
Resource == Name("?resource")
Sender == Name("?sender")
Domain == Name("?domain")
Service == Name("?monservice")
NewVariable(v) == <<"?v", v>>

Uri == "URI"           \* one that sem_prepare knows
FreshUri == "URI of ?struuid"
Value == "%value%"
IsMetricOf == "omn-monitoring:isMeasurementMetricOf"
UriPredicates == {"omn:hasURI", "omn-lifecycle:hasID"}

(* Holes.                                                                  *)
ReplaceSeq == Name("value_seq")
ReplaceTc == Name("value_tc")
ReplaceTs == Name("value_ts")
ReplaceMetric == Name("resource_metric")
PreparedVar(c) == <<"value", c>>
PreparedRes(c, is_res) == <<IF is_res THEN "resource" ELSE "field", c>>

IsHole(term) ==
  \/ term \in {ReplaceSeq, ReplaceTc, ReplaceTs, ReplaceMetric}
  \/ term[1] \in {"value", "resource", "field"}

HasHole(line) == \E i \in 1..3 : IsHole(line[i])

-----------------------------------------------------------------------------
(* What sem_prepare has so far: the lines to insert and to bind, the       *)
(* variables of names (hashtab), the bindings of variables (hashtab_res),  *)
(* and the next number of a new variable.                                  *)
Nothing == [insert |-> <<>>, where |-> <<>>, names |-> <<>>, bindings |-> <<>>, v |-> 1]

Knows(st, name) == name \in DOMAIN st.names

Insert(st, lines) == [st EXCEPT !.insert = @ \o lines]

Install(st, name, variable) == [st EXCEPT !.names = (name :> variable) @@ @]

(* Mutant of InstallRes: an older binding of the variable stays.           *)
InstallResTwice(st, variable, expression) ==
  [st EXCEPT !.bindings = Append(@, <<Bind, expression, variable>>)]

InstallRes(st, variable, expression) ==
  LET line == <<Bind, expression, variable>>
      at == {i \in DOMAIN st.bindings : st.bindings[i][3] = variable}
  IN
  [st EXCEPT !.bindings = IF at = {} THEN Append(@, line)
                          ELSE [i \in DOMAIN @ |-> IF i \in at THEN line ELSE @[i]]]

(* The first concept relates the measurement to its metric.                *)
ServiceLines(reply) ==
  IF reply # "new" THEN <<>>
  ELSE << <<Sender, A, Name("Infrastructure")>>, <<Domain, A, Name("MonitoringDomain")>>,
          <<Domain, Name("hasService"), Service>>, <<Service, A, Name("MonitoringService")>>,
          <<Service, Name("isServiceOf"), Sender>>, <<Service, Name("StartTime"), Name("starttime")>> >>

FirstConcept(st, osd, reply) ==
  LET named == Install(Install(st, osd.s, Measurement), osd.o, Metric)
      lines == << <<Measurement, A, Name(osd.s)>>, <<Measurement, Name(osd.p), Metric>>,
                  <<Metric, A, Name(osd.o)>> >>
               \o ServiceLines(reply)
               \o << <<Measurement, Name("sequenceNumber"), ReplaceSeq>>,
                     <<Measurement, Name("elapsedTimeAtClient"), ReplaceTc>>,
                     <<Measurement, Name("elapsedTimeAtServer"), ReplaceTs>>,
                     <<Measurement, Name("sentFrom"), Sender>>,
                     <<Measurement, Name("sentFrom"), Domain>> >>
      binds == << <<Bind, Name(FreshUri), Measurement>> >>
               \o (IF reply = "new" THEN << <<Bind, Name(Uri), Service>> >> ELSE <<>>)
               \o << <<Bind, ReplaceMetric, Metric>>, <<Bind, Name(Uri), Sender>>,
                     <<Bind, Name(Uri), Domain>> >>
  IN
  [Insert(named, lines) EXCEPT !.where = binds]

(* The URI of a variable is the value of field c.                          *)
HandleUri(st, c, subject, osd) ==
  InstallRes(Insert(st, << <<subject, Name(osd.p), PreparedVar(c)>> >>),
             subject, PreparedRes(c, subject = Resource))

HandleValue(st, c, subject, osd) == Insert(st, << <<subject, Name(osd.p), PreparedVar(c)>> >>)

(* A name gets the next variable, with a URI of its own.                   *)
NewName(st, name, lines) ==
  [InstallRes(Install(Insert(st, lines \o << <<NewVariable(st.v), A, Name(name)>> >>),
                      name, NewVariable(st.v)),
              NewVariable(st.v), Name(FreshUri))
   EXCEPT !.v = @ + 1]

ResourceNamed(st, osd) ==
  LET lines == << <<st.names[osd.s], Name(osd.p), Resource>>, <<Resource, A, Name(osd.o)>> >> IN
  InstallRes(Install(Insert(st, lines), osd.o, Resource), Resource, Name(FreshUri))

SubjectKnown(st, c, osd) ==
  LET subject == st.names[osd.s] IN
  CASE osd.p = IsMetricOf -> ResourceNamed(st, osd)
    [] osd.p \in UriPredicates -> HandleUri(st, c, subject, osd)
    [] osd.p \notin {IsMetricOf} \cup UriPredicates /\ osd.o = Value -> HandleValue(st, c, subject, osd)
    [] OTHER -> NewName(st, osd.o, << <<subject, Name(osd.p), NewVariable(st.v)>> >>)

(* Mutant of ObjectKnown: the subject takes the place of the object.       *)
ObjectKnownSwapped(st, osd) ==
  NewName(st, osd.s, << <<st.names[osd.o], Name(osd.p), NewVariable(st.v)>> >>)

ObjectKnown(st, osd) ==
  NewName(st, osd.s, << <<NewVariable(st.v), Name(osd.p), st.names[osd.o]>> >>)

(* A subject with a URI or a value leaves v as it is: the next new name    *)
(* gets the same variable.  Between two new names, v and v++ are arguments *)
(* of one call: either may be the greater one (late).                      *)
NeitherKnown(st, c, osd, late) ==
  LET this == NewVariable(st.v)
      next == NewVariable(st.v + 1)
      named == Install(Insert(st, << <<this, A, Name(osd.s)>> >>), osd.s, this)
      related == Insert(InstallRes(named, this, Name(FreshUri)),
                        << IF late THEN <<this, Name(osd.p), next>>
                           ELSE <<next, Name(osd.p), this>> >>)
  IN
  CASE osd.p \in UriPredicates -> HandleUri(named, c, this, osd)
    [] osd.p \notin UriPredicates /\ osd.o = Value ->
         InstallRes(HandleValue(named, c, this, osd), this, Name(FreshUri))
    [] OTHER -> NewName([related EXCEPT !.v = @ + 1], osd.o, <<>>)

BothKnown(st, c, osd) ==
  IF osd.o = Value
  THEN HandleValue(st, c, st.names[osd.s], osd)
  ELSE Insert(st, << <<st.names[osd.s], Name(osd.p), st.names[osd.o]>> >>)

FurtherConcept(st, c, osd, late) ==
  CASE Knows(st, osd.s) /\ ~Knows(st, osd.o) -> SubjectKnown(st, c, osd)
    [] ~Knows(st, osd.s) /\ Knows(st, osd.o) -> ObjectKnown(st, osd)
    [] ~Knows(st, osd.s) /\ ~Knows(st, osd.o) -> NeitherKnown(st, c, osd, late)
    [] OTHER -> BothKnown(st, c, osd)

(* The concepts of all fields, each with the number of its field.          *)
OfField(c) == [j \in DOMAIN fields[c] |-> [c |-> c, osd |-> fields[c][j]]]
Listed == FlattenSeq([c \in DOMAIN fields |-> OfField(c)])

SemPrepare(reply, late) ==
  IF Listed = <<>> THEN Nothing
  ELSE Fold(LAMBDA st, x : FurtherConcept(st, x.c, x.osd, late),
            FirstConcept(Nothing, Listed[1].osd, reply), Tail(Listed))

-----------------------------------------------------------------------------
(* sem_insert goes through the template once, from the front: a hole is    *)
(* looked for from the last one that was filled.                           *)
From(w, hole) == {i \in w.at..Len(w.lines) : \E k \in 1..3 : w.lines[i][k] = hole}

Filled(line) == [k \in 1..3 |-> IF IsHole(line[k]) THEN <<"filled">> \o line[k] ELSE line[k]]

FillOne(w, hole) ==
  LET i == CHOOSE i \in From(w, hole) : \A j \in From(w, hole) : i <= j IN
  [w EXCEPT !.lines[i] = Filled(@), !.at = i]

Fill(w, hole) == IF From(w, hole) = {} THEN w ELSE FillOne(w, hole)

FillValue(w, c, unsupported) ==
  IF From(w, PreparedVar(c)) # {} /\ c = unsupported
  THEN [w EXCEPT !.ok = FALSE]
  ELSE Fill(w, PreparedVar(c))

(* Mutant of FillUri: a field is the resource's or none.                   *)
FillUriOfResource(w, c) ==
  IF From(w, ReplaceMetric) # {} /\ From(w, PreparedRes(c, TRUE)) # {}
  THEN [Fill(Fill(w, ReplaceMetric), PreparedRes(c, TRUE)) EXCEPT !.metric = TRUE]
  ELSE IF w.metric THEN Fill(w, PreparedRes(c, TRUE)) ELSE w

(* The metric's URI is that of the resource with the metric's name: until  *)
(* the field of the resource's URI no other one is filled.                 *)
FillUri(w, c) ==
  CASE ~w.metric /\ (From(w, ReplaceMetric) = {} \/ From(w, PreparedRes(c, TRUE)) = {}) -> w
    [] ~w.metric /\ From(w, ReplaceMetric) # {} /\ From(w, PreparedRes(c, TRUE)) # {} ->
         [Fill(Fill(w, ReplaceMetric), PreparedRes(c, TRUE)) EXCEPT !.metric = TRUE]
    [] w.metric /\ From(w, PreparedRes(c, TRUE)) # {} -> Fill(w, PreparedRes(c, TRUE))
    [] OTHER -> Fill(w, PreparedRes(c, FALSE))

Numbers == [c \in 1..Len(fields) |-> c]

FillStart == Fold(Fill, [lines |-> template, at |-> 1, ok |-> TRUE, metric |-> FALSE],
                  <<ReplaceSeq, ReplaceTc, ReplaceTs>>)

FillValues(unsupported) ==
  Fold(LAMBDA w, c : IF w.ok THEN FillValue(w, c, unsupported) ELSE w, FillStart, Numbers)

FillUris(w) == Fold(FillUri, w, Numbers)

-----------------------------------------------------------------------------
Init ==
  /\ fields = <<>>
  /\ stage = "schema"
  /\ names = <<>> /\ template = <<>> /\ posted = <<>>

(* A field, and a concept of the last field.  Concepts are taken once.     *)
AddField ==
  /\ stage = "schema" /\ Len(fields) < MaxFields
  /\ fields' = Append(fields, <<>>)
  /\ UNCHANGED <<stage, names, template, posted>>

AddConcept(osd) ==
  /\ stage = "schema" /\ fields # <<>> /\ Len(Listed) < MaxConcepts
  /\ \A i \in DOMAIN Listed : Listed[i].osd # osd
  /\ fields' = [fields EXCEPT ![Len(fields)] = Append(@, osd)]
  /\ UNCHANGED <<stage, names, template, posted>>

(* The table is created; the triple store says whether it knows the        *)
(* sender's service.  Without an answer the statement is as if it did.      *)
Prepare(reply, late) ==
  /\ stage = "schema"
  /\ IF fields = <<>>
     THEN stage' = "failed" /\ UNCHANGED <<names, template>>
     ELSE /\ stage' = "ready"
          /\ \E st \in {SemPrepare(reply, late)} :
               /\ names' = st.names
               /\ template' = st.insert \o st.where \o st.bindings
  /\ UNCHANGED <<fields, posted>>

(* A row of value_count values; no literal is written for a blob, such as  *)
(* field unsupported is.  What the store answers is only logged.           *)
SemInsert(value_count, unsupported) ==
  /\ stage = "ready"
  /\ IF value_count # Len(fields)
     THEN posted' = <<>>
     ELSE \E w \in {FillValues(unsupported)} :
            posted' = IF w.ok /\ w.lines # <<>> THEN FillUris(w).lines ELSE <<>>
  /\ UNCHANGED <<fields, stage, names, template>>

Next ==
  \/ AddField
  \/ \E osd \in Concepts : AddConcept(osd)
  \/ \E reply \in {"new", "known"}, late \in BOOLEAN : Prepare(reply, late)
  \/ \E extra \in {0, 1}, unsupported \in 0..Len(fields) :
       SemInsert(Len(fields) + extra, unsupported)

Spec == Init /\ [][Next]_vars

-----------------------------------------------------------------------------
(* The schemas that the adapter can express, by the list l of their        *)
(* concepts.  The first one relates two names; each other one has a name   *)
(* of an earlier one, except that the value of one name may come first if  *)
(* no new name does afterwards.                                            *)
Ends(l, i) == {l[i].osd.s, l[i].osd.o} \ {Value}
NewEnds(l, i) == Ends(l, i) \ UNION {Ends(l, j) : j \in 1..(i - 1)}

RelatesTwo(l) == l # <<>> /\ l[1].osd.o # Value

Connected(l) ==
  \A i \in 2..Len(l) :
    \/ NewEnds(l, i) # Ends(l, i)
    \/ l[i].osd.o = Value /\ \A j \in (i + 1)..Len(l) : NewEnds(l, j) = {}

(* Neither the measurement nor its metric has a URI of its own.            *)
UrisAt(l) == {i \in DOMAIN l : l[i].osd.p \in UriPredicates}

UrisAreOthers(l) ==
  RelatesTwo(l) /\ \A i \in UrisAt(l) : names[l[i].osd.s] \notin {Measurement, Metric}

(* A field's value has one use; the resource's URI is the first URI and    *)
(* what has another one is named after the resource, in the order of the   *)
(* fields.                                                                 *)
OneUse(l) == \A i, j \in DOMAIN l : (l[i].c = l[j].c /\ {l[i].osd.o, l[j].osd.o} = {Value}) => i = j

BindsOf(variable) == {k \in DOMAIN template : template[k][1] = Bind /\ template[k][3] = variable}

ResourceFirst(l) ==
  /\ \E i \in UrisAt(l) : names[l[i].osd.s] = Resource /\ \A j \in UrisAt(l) : i <= j
  /\ \A i, j \in UrisAt(l) : \A m \in BindsOf(names[l[i].osd.s]), n \in BindsOf(names[l[j].osd.s]) :
       i < j => m < n

-----------------------------------------------------------------------------
(* A name stands for one variable, and each concept is a line between its  *)
(* ends or with a hole for its field's value (sem_prepare,                 *)
(* fuseki_adapter.c:688-782), if the concepts are connected.               *)
IsStated(concept) ==
  LET osd == concept.osd
      object == IF osd.o = Value THEN PreparedVar(concept.c) ELSE names[osd.o]
  IN <<names[osd.s], Name(osd.p), object>> \in Range(template)

ConceptsAreStated ==
  stage = "ready" => \A l \in {Listed} :
    (RelatesTwo(l) /\ Connected(l)) =>
      /\ \A n, m \in DOMAIN names : n # m => names[n] # names[m]
      /\ \A i \in DOMAIN l : IsStated(l[i])

(* Each variable of a name is bound once: an unbound one loses its lines,  *)
(* and the store refuses to bind one twice (fuseki_adapter.c:692-771).     *)
VariablesAreBoundOnce ==
  stage = "ready" => \A l \in {Listed} :
    UrisAreOthers(l) => \A x \in Range(names) : Cardinality(BindsOf(x)) = 1

(* An update that is posted has no hole left (sem_insert,                  *)
(* fuseki_adapter.c:867-1080), for schemas such as those of the examples   *)
(* (omn-based-monitoring-schema.rb:125-140).                               *)
UpdatesAreComplete ==
  posted # <<>> => \A l \in {Listed} :
    (UrisAreOthers(l) /\ OneUse(l) /\ ResourceFirst(l)) =>
      \A k \in DOMAIN posted : ~HasHole(posted[k])
=============================================================================
