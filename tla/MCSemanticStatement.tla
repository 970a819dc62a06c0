------------------------- MODULE MCSemanticStatement --------------------------
(* The concepts of used_memory in omn-based-monitoring-schema.rb, and a    *)
(* unit that is connected to nothing but itself.                           *)
EXTENDS SemanticStatement

C(s, p, o) == [s |-> s, p |-> p, o |-> o]

MemoryConcepts ==
  { C("Simple", "isMeasurementDataOf", "UsedMemory"), C("UsedMemory", IsMetricOf, "PC"),
    C("Simple", "hasMeasurementDataValue", Value), C("PC", "omn:hasURI", Value),
    C("VM", "omn:hasURI", Value), C("VM", "childOf", "PC"), C("Byte", "hasPrefix", "giga") }
=============================================================================
