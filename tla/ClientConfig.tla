---------------------------- MODULE ClientConfig ----------------------------
(***************************************************************************)
(* How liboml2 turns a command line, an environment and a configuration    *)
(* file into measurement points, streams, filters and writers              *)
(* (lib/client/init.c, parse_config.c).                                    *)
(*                                                                         *)
(* A client is a record: what omlc_instance holds, with the lists that     *)
(* hang on it as sequences; streams and writers are named by their place   *)
(* in the order of their creation.  A string is a string, an absent one is *)
(* <<>> and a present one <<s>> where the code distinguishes NULL.         *)
(***************************************************************************)
EXTENDS Filters

CONSTANTS
  FileUris, \* the collection URIs that name a file, which is text by default,
  NetUris   \* and those that name a server, which is sent binary by default

ASSUME ClientConfigAssumption == FileUris \cap NetUris = {}

----------------------------------------------------------------------------
(* omlc_init: the options.                                                 *)

(* The settings that options with an argument, or without, make.           *)
WithArgument == [o \in {"--oml-id", "--oml-domain", "--oml-exp-id", "--oml-collect",
                        "--oml-server", "--oml-config", "--oml-samples", "--oml-interval",
                        "--oml-instr-interval"} |->
                   CASE o = "--oml-id" -> "name"
                     [] o \in {"--oml-domain", "--oml-exp-id"} -> "domain"
                     [] o \in {"--oml-collect", "--oml-server"} -> "uri"
                     [] o = "--oml-config" -> "config"
                     [] o = "--oml-samples" -> "samples"
                     [] o = "--oml-interval" -> "interval"
                     [] o = "--oml-instr-interval" -> "instr"]

Flags == "--oml-text" :> "text" @@ "--oml-binary" :> "binary"

Settings == {"name", "domain", "uri", "config", "samples", "interval", "instr", "encoding"}

(* One argument: kept for the application, or taken with what follows it.  *)
ParseArg(s, arg) ==
  CASE s.end # "" -> s
    [] s.wants # "" -> [s EXCEPT !.set[s.wants] = <<arg>>, !.wants = "", !.taken = @ + 2]
    [] arg \in DOMAIN WithArgument -> [s EXCEPT !.wants = WithArgument[arg]]
    [] arg \in DOMAIN Flags -> [s EXCEPT !.set["encoding"] = <<Flags[arg]>>, !.taken = @ + 1]
    [] arg = "--oml-noop" -> [s EXCEPT !.end = "noop", !.taken = @ + 1]
    [] OTHER -> [s EXCEPT !.kept = Append(@, arg)]

ParseArgs(argv) ==
  LET s == Fold(ParseArg, [set |-> [k \in Settings |-> <<>>], wants |-> "", end |-> "",
                               taken |-> 0, kept |-> <<>>], argv)
  IN  IF s.wants # "" THEN [s EXCEPT !.end = "error"] ELSE s

(* What the application then finds in argv, up to *pargc: the arguments    *)
(* that were kept have been moved down over the others.                    *)
SeenArgs(argv) ==
  LET s == ParseArgs(argv)
  IN  SubSeq(s.kept \o SubSeq(argv, Len(s.kept) + 1, Len(argv)), 1, Len(argv) - s.taken)

(* An option, or the variable that stands in for it.                       *)
OrElse(x, y) == IF x # <<>> THEN x ELSE y

(* atoi and atof, for the numbers that occur.                              *)
Atoi(s) == IF s \in DOMAIN ("1" :> 1 @@ "2" :> 2 @@ "3" :> 3)
             THEN ("1" :> 1 @@ "2" :> 2 @@ "3" :> 3)[s] ELSE 0
AtoiOr(x, default) == IF x = <<>> THEN default ELSE Atoi(x[1])

NoClient == [up |-> FALSE]

(* The measurement points that are always there.                           *)
Field(name, type, relations) == [name |-> name, type |-> type, relations |-> relations]
MetadataFields == <<Field("value", "string", "none")>>
InstrumentationFields == <<Field("measurements_dropped", "uint32", "none")>>
Schema0 == 1
ClientInstr == 2

(* omlc_add_mp, before omlc_start.                                         *)
NewMP(name, fields) ==
  [name |-> name, fields |-> fields, streams |-> <<>>, default |-> 0,
   guarded |-> FALSE, active |-> TRUE]

AddMP(c, name, fields) == [c EXCEPT !.mpoints = Append(@, NewMP(name, fields))]

(* omlc_init; the file named by default_uri is "file:default".             *)
OmlcInit(argv, env) ==
  LET Made(s) ==
        LET set == [k \in Settings |->
                      OrElse(s.set[k], IF k \in DOMAIN env THEN <<env[k]>> ELSE <<>>)]
        IN AddMP(AddMP([up |-> TRUE, started |-> FALSE, set |-> set,
                          uri |-> OrElse(set["uri"], <<"file:default">>)[1],
                          sample_count |-> AtoiOr(s.set["samples"], 0),
                          sample_interval |-> AtoiOr(s.set["interval"], 0),
                          instr_interval |-> AtoiOr(s.set["instr"], 1), instr_time |-> 0,
                          mpoints |-> <<>>, streams |-> <<>>, writers |-> <<>>,
                          default_writer |-> 0, next_ms_idx |-> 0, threads |-> <<>>],
                         "_experiment_metadata", MetadataFields),
                   "_client_instrumentation", InstrumentationFields)
  IN  Once(LAMBDA s : IF s.end # "" THEN NoClient ELSE Made(s), ParseArgs(argv))

----------------------------------------------------------------------------
(* Streams.  An operation that can fail gives [ok, c] and what it made.    *)

Fails(c) == [ok |-> FALSE, c |-> c]
Does(c) == [ok |-> TRUE, c |-> c]

(* An operation that crashes leaves no client behind.                      *)
Crashes == Fails(NoClient)

(* create_writer, with the default encoding for the URI.                   *)
CreateWriter(c, uri, encoding) ==
  LET default == IF uri \in FileUris THEN "text" ELSE "binary"
  IN  IF c.set["name"] = <<>> \/ c.set["domain"] = <<>> \/ uri \notin FileUris \cup NetUris
        THEN Fails(c)
        ELSE Does([c EXCEPT !.writers = Append(@, [uri |-> uri,
                                                   encoding |-> OrElse(encoding, <<default>>)[1]])])

(* find_mp and find_mp_field: an index, or 0.                              *)
IndexWhere(s, Test(_)) == SelectInSeq(s, Test)
FindMP(c, name) == IndexWhere(c.mpoints, LAMBDA mp : mp.name = name)
FindField(mp, name) == IndexWhere(mp.fields, LAMBDA field : field.name = name)

(* find_mstream: a stream of any measurement point, or 0.                  *)
FindMStream(c, name) == IndexWhere(c.streams, LAMBDA ms : ms.table = name)

(* oml_ms_add_writer.                                                      *)
AddWriter(c, id, w) == [c EXCEPT !.streams[id].writers = Append(@, w)]

NewStream(table, m, interval, samples) ==
  [table |-> table, mp |-> m, thres |-> IF interval > 0 THEN 0 ELSE samples,
   interval |-> interval, size |-> 0, seq_no |-> 0, index |-> 0, writers |-> <<>>,
   filters |-> <<>>, written |-> 0]

(* create_mstream: the stream of that name, wherever it is, or a new one,  *)
(* with one more writer.                                                   *)
CreateMStream(c, name, m, w, interval, samples) ==
  LET table == OrElse(name, <<c.mpoints[m].name>>)[1]
      id == Len(c.streams) + 1
      New == [c EXCEPT !.streams = Append(@, NewStream(table, m, interval, samples)),
                       !.mpoints[m].guarded = @ \/ interval > 0,
                       !.mpoints[m].streams = <<id>> \o @]
      Made(found) == IF found = 0 THEN [c |-> New, id |-> id] ELSE [c |-> c, id |-> found]
      Given(r) == IF w = 0 THEN r ELSE [r EXCEPT !.c = AddWriter(@, r.id, w)]
  IN  Once(Given, Once(Made, FindMStream(c, table)))

(* create_default_filter: an average of what is sampled more than once.    *)
CreateDefaultFilter(ms, field, index) ==
  CreateFilter(IF (ms.thres > 1 \/ ms.interval > 0) /\ field.type \in NumericTypes
                 THEN "avg" ELSE "first",
               field.name, field, index)

CreateDefaultFilters(c, m, id) ==
  [c EXCEPT !.streams[id].filters =
     [k \in DOMAIN c.mpoints[m].fields |->
        CreateDefaultFilter(c.streams[id], c.mpoints[m].fields[k], k)]]

(* filter_engine_start.                                                    *)
StartThread(c, id) == [c EXCEPT !.threads = Append(@, id)]

(* oml_mp_get_default_ms.                                                  *)
DefaultMs(c, m) ==
  LET Run(d, id) == IF c.sample_interval > 0 THEN StartThread(d, id) ELSE d
      Filled(made) == LET first == made.c.mpoints[m].streams[1]
                      IN  Run(CreateDefaultFilters(made.c, m, first), first)
      New == Once(Filled, CreateMStream(c, <<>>, m, c.default_writer,
                                        c.sample_interval, c.sample_count))
      Default(d) == [d EXCEPT !.mpoints[m].default = d.mpoints[m].streams[1]]
  IN  IF c.mpoints[m].default # 0 THEN c
      ELSE Once(Default, IF c.mpoints[m].streams = <<>> THEN New ELSE c)

(* default_configuration.                                                  *)
DefaultConfiguration(c) ==
  LET Given(d) == [d EXCEPT !.default_writer = Len(d.writers),
                            !.sample_count = IF @ = 0 THEN 1 ELSE @]
      Each(d) == Fold(DefaultMs, d, [m \in DOMAIN d.mpoints |-> m])
      Written(r) == IF r.ok THEN Does(Each(Given(r.c))) ELSE r
  IN  Once(Written, CreateWriter(c, c.uri, c.set["encoding"]))

----------------------------------------------------------------------------
(* The configuration file: elements with a tag, attributes and children.   *)

Names == [omlc |-> <<"omlc">>, id |-> <<"id">>, domain |-> <<"domain", "experiment", "exp_id">>,
          collect |-> <<"collect">>, url |-> <<"url">>, encoding |-> <<"encoding">>,
          stream |-> <<"stream", "mp">>, name |-> <<"name">>, source |-> <<"mp", "source">>,
          samples |-> <<"samples">>, interval |-> <<"interval">>, filter |-> <<"filter", "f">>,
          field |-> <<"field", "pname">>, operation |-> <<"operation", "fname">>,
          rename |-> <<"rename", "sname">>]

(* get_xml_attr, match_xml_elt.                                            *)
Attr(el, token) ==
  LET present == SelectSeq(Names[token], LAMBDA n : n \in DOMAIN el.attrs)
  IN  IF present = <<>> THEN <<>> ELSE <<el.attrs[present[1]]>>

Matches(el, token) == el.tag \in Range(Names[token])

(* The children that match, taken in order until one fails.                *)
EachChild(c, el, token, Parse(_, _)) ==
  Fold(LAMBDA r, child : IF r.ok /\ Matches(child, token) THEN Parse(r.c, child) ELSE r,
       Does(c), el.children)

(* parse_filter: a filter that comes before those the stream has.          *)
ParseFilter(c, el, id, m) ==
  LET operation == Attr(el, "operation")
      Known == operation = <<>> \/ operation[1] \in DOMAIN Outputs
      Filter(def, index) ==
        IF operation = <<>>
          THEN CreateDefaultFilter(c.streams[id], def, index)
          ELSE CreateFilter(operation[1], OrElse(Attr(el, "rename"), <<def.name>>)[1], def, index)
      Put(index) == [c EXCEPT !.streams[id].filters =
                                <<Filter(c.mpoints[m].fields[index], index)>> \o @]
      Found(field) == IF field = <<>> THEN 0 ELSE FindField(c.mpoints[m], field[1])
  IN  Once(LAMBDA index : IF index = 0 \/ ~Known THEN Fails(c) ELSE Does(Put(index)),
           Found(Attr(el, "field")))

(* parse_stream_filters.  A stream that exists gets the filters once more, *)
(* and another thread.                                                     *)
ParseStreamFilters(c, el, w, source, name) ==
  LET samples == Attr(el, "samples")
      interval == AtoiOr(Attr(el, "interval"), -1)
      Count(n) == IF n = 0 THEN 1 ELSE n
      Run(d, id) == IF interval > 0 THEN StartThread(d, id) ELSE d
      Fill(d, m, id) == IF d.streams[id].filters = <<>> THEN CreateDefaultFilters(d, m, id) ELSE d
      Parsed(made, m) ==
        Once(LAMBDA r : IF r.ok THEN Does(Run(Fill(r.c, m, made.id), made.id)) ELSE r,
             EachChild(made.c, el, "filter", LAMBDA d, child : ParseFilter(d, child, made.id, m)))
      Parse(m) ==
        IF m = 0 \/ (samples = <<>>) = (Attr(el, "interval") = <<>>) THEN Fails(c)
        ELSE Once(LAMBDA made : Parsed(made, m),
                  CreateMStream(c, name, m, w, interval, Count(AtoiOr(samples, -1))))
  IN  Once(Parse, IF source = <<>> THEN 0 ELSE FindMP(c, source[1]))

(* parse_stream_or_mp: an <mp> has other names for the same things, and    *)
(* parse_mp copies its name before anybody asks whether it has one.        *)
PlainAttr(el, name) == IF name \in DOMAIN el.attrs THEN <<el.attrs[name]>> ELSE <<>>

ParseStreamOrMP(c, el, w) ==
  IF el.tag # "mp" THEN ParseStreamFilters(c, el, w, Attr(el, "source"), Attr(el, "name"))
  ELSE IF PlainAttr(el, "name") = <<>> THEN Crashes
  ELSE ParseStreamFilters(c, el, w, PlainAttr(el, "name"), PlainAttr(el, "rename"))

(* parse_collector, of an empty <collect/>: every measurement point.       *)
AddDefaultMs(c, m, w) ==
  Once(LAMBDA d : AddWriter(d, d.mpoints[m].default, w), DefaultMs(c, m))

CollectAll(c, w) ==
  Fold(LAMBDA d, m : AddDefaultMs(d, m, w),
       IF c.sample_interval = 0 /\ c.sample_count = 0 THEN [c EXCEPT !.sample_count = 1] ELSE c,
       [m \in DOMAIN c.mpoints |-> m])

(* parse_collector; add_metadata_stream.                                   *)
ParseCollector(c, el) ==
  LET url == Attr(el, "url")
      encoding == OrElse(Attr(el, "encoding"), <<"binary">>)
      Streams(d, w) ==
        IF el.children = <<>> THEN Does(CollectAll(d, w))
        ELSE EachChild(AddDefaultMs(d, Schema0, w), el, "stream",
                       LAMBDA e, child : ParseStreamOrMP(e, child, w))
      Written(r) == IF r.ok THEN Streams(r.c, Len(r.c.writers)) ELSE r
  IN  IF url = <<>> \/ encoding[1] \notin {"binary", "text"} THEN Fails(c)
      ELSE Once(Written, CreateWriter(c, url[1], encoding))

(* parse_config.                                                           *)
ParseConfig(c, root) ==
  LET named == [c EXCEPT !.set["name"] = OrElse(@, Attr(root, "id")),
                         !.set["domain"] = OrElse(@, Attr(root, "domain"))]
  IN  IF ~Matches(root, "omlc") THEN Fails(c)
      ELSE EachChild(named, root, "collect", ParseCollector)

----------------------------------------------------------------------------
(* write_schema: the columns of a stream.  `concepts` of the first output  *)
(* is what the stack holds unless its filter sets it.                      *)
AppendColumns(s, f) ==
  LET Column(t, j) ==
        LET concepts == MetaConcepts(f, t.concepts)
        IN  [columns |-> Append(t.columns, [name |-> OrElse(MetaName(f, j), <<f.name>>)[1],
                                            type |-> MetaType(f), concepts |-> concepts]),
             concepts |-> concepts]
  IN  Fold(Column, s, [j \in DOMAIN Outputs[f.kind] |-> j])

Columns(ms) ==
  Fold(AppendColumns, [columns |-> <<>>, concepts |-> "unset"], ms.filters).columns

(* schemastr_from_mpdef: the columns of a measurement point.               *)
FieldColumns(fields) ==
  [k \in DOMAIN fields |-> [name |-> fields[k].name, type |-> fields[k].type,
                            concepts |-> fields[k].relations]]

(* write_meta: the streams of all the measurement points, in order, are    *)
(* numbered from 0.                                                        *)
StreamOrder(c) == FlattenSeq([m \in DOMAIN c.mpoints |-> c.mpoints[m].streams])

NumberStreams(c) ==
  LET order == StreamOrder(c)
      Place(id) == CHOOSE k \in DOMAIN order : order[k] = id
  IN  [c EXCEPT !.streams = [id \in DOMAIN @ |->
                               IF id \in Range(order)
                                 THEN [@[id] EXCEPT !.index = Place(id) - 1] ELSE @[id]],
                !.next_ms_idx = Len(order)]

(* omlc_start, up to write_meta: by the configuration file if there is     *)
(* one.  The filtering threads are running from then on.                   *)
OmlcStart(c, files) ==
  LET made == IF c.set["config"] = <<>> THEN DefaultConfiguration(c)
           ELSE IF c.set["config"][1] \notin DOMAIN files THEN Fails(c)
           ELSE ParseConfig(c, files[c.set["config"][1]])
  IN  Once(LAMBDA r : IF r.ok THEN [r.c EXCEPT !.started = TRUE]
                      ELSE [up |-> FALSE, crashed |-> r.c = NoClient], made)
=============================================================================
