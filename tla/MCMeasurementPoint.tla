------------------------- MODULE MCMeasurementPoint -------------------------
(***************************************************************************)
(* Instances of MeasurementPoint: an application with one measurement      *)
(* point of a string and a number, started in the ways that differ.        *)
(***************************************************************************)
EXTENDS MeasurementPoint

Lin == <<Field("label", "string", "R1"), Field("seq", "int32", "R2")>>
Points == <<[name |-> "lin", fields |-> Lin]>>
Extra == <<[name |-> "late", fields |-> <<Field("n", "int32", "none")>>]>>

ThreadNames == <<"f1", "f2", "f3">>

Multiples == <<48, 24, 120>>
Words == <<"x", "y", "z">>
TwoMultiples == <<48, 24>>
TwoWords == <<"x", "y">>

El(tag, attrs, children) == [tag |-> tag, attrs |-> attrs, children |-> children]
FilterOf(field, operation) ==
  El("filter", "field" :> field @@ "operation" :> operation, <<>>)

(* A stream by its name for every number of samples, with each filter, and *)
(* an old-style periodic one of the same point, for two collectors.        *)
Config ==
  El("omlc", [id |-> "node"], <<
    El("collect", [url |-> "file:a", encoding |-> "text"], <<
      El("stream", [source |-> "lin", name |-> "two", samples |-> "2"],
         <<FilterOf("seq", "stddev"), FilterOf("seq", "delta"),
           FilterOf("label", "last")>>),
      El("mp", [name |-> "lin", rename |-> "timed", interval |-> "1"],
         <<FilterOf("seq", "delta"), El("f", [pname |-> "seq", fname |-> "sum"], <<>>)>>)>>),
    El("collect", [url |-> "tcp:b"], <<
      El("stream", [mp |-> "lin", name |-> "two", samples |-> "2"], <<>>)>>)>>)

Everything == El("omlc", [id |-> "node"], <<El("collect", [url |-> "tcp:b"], <<>>)>>)
Nameless ==
  El("omlc", [id |-> "node"], <<
    El("collect", [url |-> "file:a"], <<El("mp", [samples |-> "1"], <<>>)>>)>>)
Broken == El("omlc", [id |-> "node"], <<El("collect", [encoding |-> "text"], <<>>)>>)

One ==
  El("omlc", [id |-> "node"], <<
    El("collect", [url |-> "file:a"], <<
      El("stream", [source |-> "lin", samples |-> "1"], <<>>)>>)>>)

(* A stream that a file names again, the second time with an interval.     *)
Twice ==
  El("omlc", [id |-> "node"], <<
    El("collect", [url |-> "file:a"], <<
      El("stream", [source |-> "lin", name |-> "two", samples |-> "2"], <<>>),
      El("stream", [source |-> "lin", name |-> "two", interval |-> "1"], <<>>)>>)>>)

ConfigFiles == [conf |-> Config, all |-> Everything, one |-> One, broken |-> Broken,
                nameless |-> Nameless, twice |-> Twice]

InDomain == [domain |-> "d"]
Node == [name |-> "node", domain |-> "d"]
Quiet == <<"app", "--oml-instr-interval", "0">>

With(options, env, late) == [argv |-> Quiet \o options, env |-> env, late |-> late]

(* Each sample; averages of two; every second; by a file; and not at all.  *)
AllSetups ==
  {[argv |-> <<"app", "--oml-id", "node", "-v">>, env |-> InDomain, late |-> <<>>],
   With(<<>>, Node, Extra),
   With(<<"--oml-samples", "2", "--oml-text">>, Node, <<>>),
   With(<<"--oml-interval", "1", "x">>, Node, <<>>),
   With(<<"--oml-config", "conf">>, InDomain, <<>>),
   With(<<"--oml-config", "one", "--oml-samples", "1">>, InDomain, Extra),
   With(<<"--oml-config", "all", "--oml-samples", "2">>, InDomain, <<>>),
   With(<<"--oml-config", "broken">>, InDomain, <<>>),
   With(<<"--oml-config", "nameless">>, InDomain, <<>>),
   With(<<>>, InDomain, <<>>),
   With(<<"--oml-id">>, InDomain, <<>>)}

SampleSetups == {With(<<"--oml-samples", "2">>, Node, <<>>)}
LateSetups == {With(<<"--oml-samples", "2">>, Node, Extra)}

TwiceSetups == {With(<<"--oml-config", "twice">>, InDomain, <<>>)}
NoopSetups == {[argv |-> <<"app", "--oml-noop", "x">>, env |-> Node, late |-> <<>>]}

(* What the proofs assume of a setup.                                        *)
ASSUME MCAssumption == Setups = AllSetups => SoundlyConfigured
=============================================================================
