---------------------------- MODULE MCWirePath ----------------------------
(***************************************************************************)
(* Instances of WirePath: what is sent.                                    *)
(***************************************************************************)
EXTENDS WirePath

Num(n) == [type |-> "int32", v |-> <<n>>]
Str(s) == [type |-> "string", v |-> s]
Double(v) == [type |-> "double", v |-> v]
Blob(b) == [type |-> "blob", v |-> b]
Bool(b) == [type |-> "bool", v |-> <<b>>]
Of(type, v) == [type |-> type, v |-> v]

(* Strings that hold what the protocols give a meaning to: separators, the *)
(* synchronisation bytes with the start of a message, a string too long    *)
(* for one byte of length, an empty one.                                   *)
Strings ==
  <<<<Num(7), Str(<<Tab, 97, Newline>>)>>,
    <<Num(170), Str(<<SyncByte, SyncByte, DataP, 1, 2>>)>>,
    <<Num(43690), Str(<<>>)>>>>

Numbers ==
  <<<<Double(<<3, 0, 1>>), Blob(<<0, 170, 170, 1>>), Bool(1)>>,
    <<Double(<<>>), Blob(<<65, 10>>), Bool(0)>>>>

(* The first vector is as wide as three digits can make it.                *)
Vectors ==
  <<<<Of("[int32]", <<199, 170>>), Of("long", <<6>>), Of("[bool]", <<1, 0>>)>>,
    <<Of("[int32]", <<>>), Of("long", <<0>>), Of("[bool]", <<0>>)>>>>

(* Only for the binary protocol: signs, exponents that fit a byte and one  *)
(* that does not, eight bytes, dates.                                      *)
Wide ==
  <<<<Of("int64", <<-2>>), Double(<<-5, -128, 1>>), Of("[double]", <<>>)>>,
    <<Of("int64", <<1>>), Double(<<5, 128, 0>>), Of("[double]", <<4>>)>>>>

(* The second row has an empty blob: it fails, and its last column is left *)
(* without a header.                                                       *)
EmptyBlob ==
  <<<<Num(1), Blob(<<1, 2>>), Of("datetime", <<50, 48>>)>>,
    <<Num(2), Blob(<<>>), Of("datetime", <<50, 49>>)>>,
    <<Num(3), Blob(<<3>>), Of("datetime", <<50, 50>>)>>>>

(* Only for the text protocol: the second row is longer than any block.    *)
TooMuch == <<<<Num(1), Str(<<98>>)>>, <<Num(2), Str([k \in 1..70 |-> 97])>>>>

(* Only for the text protocol: the second row leaves a new chunk without   *)
(* room for its newline.                                                   *)
NoNewline ==
  <<<<Str(<<98>>), Num(1)>>, <<Str([k \in 1..62 |-> 97]), Num(2)>>, <<Str(<<99>>), Num(3)>>>>

(* Integers of three digits, and doubles as wide as theirs.                *)
Widths == [type \in VectorTypes |-> IF type = "[bool]" THEN 7 ELSE 5]

Samples == [text |-> {Strings, Numbers, Vectors, EmptyBlob, TooMuch, NoNewline},
            binary |-> {Strings, Numbers, Vectors, Wide, EmptyBlob}]

(* As EmptyBlob, with a last column that ends in a synchronisation byte.   *)
TrailingSync ==
  <<<<Blob(<<1>>), Num(1)>>, <<Blob(<<>>), Num(170)>>, <<Blob(<<3>>), Num(3)>>,
    <<Blob(<<4>>), Num(4)>>>>

OnlyEmptyBlobs == [text |-> {}, binary |-> {TrailingSync}]
=============================================================================
