------------------------- MODULE MCMeasurementServer -------------------------
(* Sessions and constants for the runs of MeasurementServer.               *)
EXTENDS MeasurementServer, TLC

Symmetry == Permutations(Clients)

Metadata == <<"_experiment_metadata">>
Meta3 == <<"string", "string", "string">>
Int1 == <<"int32">>
Real1 == <<"double">>
Wide2 == <<"blob", "blob">>
NoFields == {}
Wide == {Wide2}

T == <<"T">>

Headers(start, sender) ==
  <<<<"domain", "exp">>, <<"start-time", start>>, <<"sender-id", sender>>>>

(* Two clients of one schema and one of another that has the same name and *)
(* as many fields; the third declares it once it has sent its headers.     *)
ProperScript ==
  [alice |-> Headers(5, "alice") \o
     <<<<"schema", 1, T, Int1>>, <<"end">>, <<"row", 1, 1>>, <<"row", 1, 1>>>>,
   bob |-> Headers(7, "bob") \o
     <<<<"schema", 1, T, Real1>>, <<"end">>, <<"row", 1, 1>>>>,
   carol |-> Headers(6, "carol") \o
     <<<<"schema", 0, Metadata, Meta3>>, <<"end">>,
       <<"meta", <<"schema", 1, T, Int1>>>>, <<"row", 1, 1>>>>]

(* Clients that make every mistake that the server looks for, a client of  *)
(* two databases, and one whose schema is too wide to be recorded.         *)
FaultyScript ==
  [early |-> <<<<"start-time", 5>>>>,
   nobody |-> <<<<"sender-id", "nobody">>>>,
   bad |-> <<<<"bad">>>>,
   headless |-> <<<<"row", 1, 1>>>>,
   twice |-> <<<<"domain", "exp">>, <<"schema", 1, T, Int1>>, <<"domain", "other">>,
               <<"end">>, <<"row", 1, 1>>>>,
   wide |-> <<<<"domain", "exp">>, <<"schema", 1, T, Wide2>>, <<"end">>, <<"row", 1, 2>>,
              <<"meta", <<"note">>>>>>,
   odd |-> <<<<"domain", "exp">>, <<"start-time", 5>>, <<"sender-id", "odd">>, <<"key">>, <<"note">>, <<"content", "C_BINARY_DATA">>,
             <<"schema", 2, T, Real1>>, <<"end">>, <<"row", 1, 1>>, <<"row", 3, 1>>,
             <<"row", 2, 2>>, <<"garbage">>, <<"meta", <<"key">>>>, <<"row", 2, 1>>>>]
=============================================================================
