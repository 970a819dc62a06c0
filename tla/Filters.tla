------------------------------ MODULE Filters ------------------------------
(***************************************************************************)
(* The filters of a measurement stream (lib/client/filter/): each keeps    *)
(* what it needs of the samples of the current window of one field, and    *)
(* gives its outputs when the stream reports.                              *)
(*                                                                         *)
(* A double is <<n>>, or <<>> for NAN; samples are multiples of 24, so     *)
(* that the quotients that occur are whole.  A square root is left as a    *)
(* term.  histogram_filter.c is compiled but never registered.             *)
(***************************************************************************)
EXTENDS Eager, TLC

(* The outputs of the registered filters (omlf_register_filter of each).   *)
Outputs == [avg |-> <<"avg", "min", "max">>, first |-> <<"first">>, last |-> <<"last">>,
            stddev |-> <<"stddev", "variance">>, sum |-> <<"sum">>,
            delta |-> <<"delta", "last">>]

NumericTypes == {"int32", "uint32", "double"}

(* Those whose outputs have the type of the input (OML_INPUT_VALUE).       *)
Copying == {"first", "last"}

NaN == <<>>

Add(x, v) == IF x = NaN THEN <<v>> ELSE <<x[1] + v>>
Lesser(x, v) == IF x = NaN \/ v < x[1] THEN <<v>> ELSE x
Greater(x, v) == IF x = NaN \/ v > x[1] THEN <<v>> ELSE x
Quotient(x, n) == IF x = NaN \/ n = 0 THEN NaN ELSE <<x[1] \div n>>
Root(x) == IF x = NaN THEN NaN ELSE <<"sqrt", x[1]>>

----------------------------------------------------------------------------
(* The state of a filter.                                                  *)

(* What a new window starts with.                                          *)
Blank == [avg |-> [sum |-> NaN, min |-> NaN, max |-> NaN, count |-> 0],
          stddev |-> [m |-> 0, s |-> 0, count |-> 0],
          sum |-> [sum |-> 0],
          first |-> [fresh |-> TRUE, value |-> <<>>],
          last |-> [value |-> <<>>],
          delta |-> [previous |-> 0, current |-> 0]]

(* create_filter_result_vector: the types of what it gives.                *)
ResultTypes(f) ==
  [j \in DOMAIN Outputs[f.kind] |-> IF f.kind \in Copying THEN f.type ELSE "double"]

(* A filter that cannot take the type has no instance data: create_filter  *)
(* does not look at what the constructor returns.                          *)
Usable(kind, type) == kind \in Copying \/ type \in NumericTypes

CreateFilter(kind, name, field, index) ==
  [kind |-> kind, name |-> name, type |-> field.type, concepts |-> field.relations,
   index |-> index, usable |-> Usable(kind, field.type), data |-> Blank[kind]]

InputAvg(d, v) == [sum |-> Add(d.sum, v), min |-> Lesser(d.min, v),
                   max |-> Greater(d.max, v), count |-> d.count + 1]

(* Welford's method.                                                       *)
InputStddev(d, v) ==
  LET n == d.count + 1
      m == IF n = 1 THEN v ELSE d.m + (v - d.m) \div n
  IN  [m |-> m, s |-> IF n = 1 THEN 0 ELSE d.s + (v - d.m) * (v - m), count |-> n]

(* The filter's input function, for a value of its field.                  *)
FilterInput(f, v) ==
  LET d == f.data IN
  [f EXCEPT !.data =
     CASE f.kind = "avg" -> InputAvg(d, v)
       [] f.kind = "stddev" -> InputStddev(d, v)
       [] f.kind = "sum" -> [sum |-> d.sum + v]
       [] f.kind = "first" -> IF d.fresh THEN [fresh |-> FALSE, value |-> <<v>>] ELSE d
       [] f.kind = "last" -> [value |-> <<v>>]
       [] f.kind = "delta" -> [d EXCEPT !.current = v]]

(* Without samples the quotient is 0 by 2^32 - 1.                          *)
VarianceOf(d) == IF d.count = 0 THEN <<0>> ELSE Quotient(<<d.s>>, d.count - 1)

(* Its output function: the values it writes.                              *)
FilterOutput(f) ==
  LET d == f.data IN
  CASE f.kind = "avg" -> <<Quotient(d.sum, d.count), d.min, d.max>>
    [] f.kind = "stddev" -> <<Root(VarianceOf(d)), VarianceOf(d)>>
    [] f.kind = "sum" -> <<<<d.sum>>>>
    [] f.kind \in Copying -> <<d.value>>
    [] f.kind = "delta" -> <<<<d.current - d.previous>>, <<d.current>>>>

(* Mutant of NewWindow: the difference is to the first sample ever.        *)
NewWindowOnly(f) ==
  [f EXCEPT !.data = IF f.kind \in {"avg", "stddev", "sum"} THEN Blank[f.kind]
                     ELSE IF f.kind = "first" THEN [@ EXCEPT !.fresh = TRUE] ELSE @]

(* Its newwindow function.  What first, last and delta hold stays.         *)
NewWindow(f) ==
  [f EXCEPT !.data =
     CASE f.kind \in {"avg", "stddev", "sum"} -> Blank[f.kind]
       [] f.kind = "first" -> [@ EXCEPT !.fresh = TRUE]
       [] f.kind = "last" -> @
       [] f.kind = "delta" -> [@ EXCEPT !.previous = f.data.current]]

----------------------------------------------------------------------------
(* Its meta function: the name and the type of an output.  first names     *)
(* none; the others name the output, whatever the field.  Only first sets  *)
(* the concepts: default_filter_meta assigns to its own parameter.         *)
MetaName(f, j) == IF f.kind = "first" THEN <<>> ELSE <<Outputs[f.kind][j]>>


MetaType(f) == IF f.kind \in Copying THEN f.type ELSE "double"

MetaConcepts(f, before) == IF f.kind = "first" THEN f.concepts ELSE before

----------------------------------------------------------------------------
(* What each filter is for: its outputs for the samples of a window, given *)
(* those that came before.                                                 *)

Total(s) == FoldLeft(LAMBDA n, v : n + v, 0, s)
Least(s) == CHOOSE x \in Range(s) : \A y \in Range(s) : x <= y
Greatest(s) == CHOOSE x \in Range(s) : \A y \in Range(s) : x >= y
Squares(s) == LET mean == Total(s) \div Len(s)
              IN  FoldLeft(LAMBDA n, v : n + (v - mean) * (v - mean), 0, s)
Latest(s) == IF s = <<>> THEN 0 ELSE Last(s)

Variance(s) == IF Len(s) = 0 THEN <<0>>
               ELSE IF Len(s) = 1 THEN NaN ELSE <<Squares(s) \div (Len(s) - 1)>>

Summary(kind, window, before) ==
  CASE kind = "avg" -> IF window = <<>> THEN <<NaN, NaN, NaN>>
                       ELSE <<<<Total(window) \div Len(window)>>, <<Least(window)>>,
                              <<Greatest(window)>>>>
    [] kind = "stddev" -> <<Root(Variance(window)), Variance(window)>>
    [] kind = "sum" -> <<<<Total(window)>>>>
    [] kind = "first" -> <<<<Head(window)>>>>
    [] kind = "last" -> <<IF before \o window = <<>> THEN <<>> ELSE <<Last(before \o window)>>>>
    [] kind = "delta" -> <<<<Latest(before \o window) - Latest(before)>>,
                           <<Latest(before \o window)>>>>
=============================================================================
