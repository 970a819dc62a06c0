----------------------------- MODULE TextCodec -----------------------------
(***************************************************************************)
(* How a value is written in, and read from, a line of the text protocol:  *)
(* the cases of owt_row_cols (lib/client/text_writer.c), the parser of     *)
(* oml_value_ut_from_s (lib/shared/oml_value.c), and the encodings they    *)
(* use (string_utils.c, base64.c).                                         *)
(*                                                                         *)
(* A value is [type, v], v a sequence of integers: the number, 0 or 1 for  *)
(* a Boolean, the bytes of a string, of a date or of a blob, the elements  *)
(* of a vector.  A double is <<mantissa, exponent, low>>, where low stands *)
(* for the bits of the mantissa beyond the thirtieth, or <<>> for a NaN.   *)
(* A text is a sequence of ASCII codes.  Numbers are natural, and a double *)
(* in a text has exponent 0: signs and further digits are left out.        *)
(***************************************************************************)
EXTENDS Eager, TLC

Tab == 9
Newline == 10
Return == 13
Space == 32
Dot == 46
Equals == 61
Backslash == 92
Letter == [F |-> 70, T |-> 84, n |-> 110, r |-> 114, t |-> 116]
True == <<84, 114, 117, 101>>
False == <<70, 97, 108, 115, 101>>

IntegerTypes == {"long", "int32", "uint32", "int64", "uint64", "guid"}
StringTypes == {"string", "datetime"}
NumberVectors == {"[int32]", "[uint32]", "[int64]", "[uint64]", "[double]"}
VectorTypes == NumberVectors \cup {"[bool]"}

----------------------------------------------------------------------------
(* Numbers.                                                                *)

Decimal[n \in Nat] == IF n < 10 THEN <<48 + n>> ELSE Append(Decimal[n \div 10], 48 + (n % 10))

IsDigit(c) == c \in 48..57

(* How many of the first elements satisfy a test (strspn).                 *)
Span(text, Test(_)) ==
  LET stops == {k \in DOMAIN text : ~Test(text[k])}
  IN  IF stops = {} THEN Len(text) ELSE (CHOOSE k \in stops : \A j \in stops : k <= j) - 1

Number(digits) == FoldLeft(LAMBDA n, c : 10 * n + c - 48, 0, digits)

(* strtol: the number at the start of a text, 0 if there is none, and the  *)
(* text after it; `some` says whether there was one.                       *)
Strtol(text) ==
  LET blank == Span(text, LAMBDA c : c = Space)
      Read(rest, n) == [some |-> n > 0, n |-> Number(SubSeq(rest, 1, n)),
                        rest |-> IF n > 0 THEN SubSeq(rest, n + 1, Len(rest)) ELSE text]
  IN  Once(LAMBDA rest : Once(LAMBDA n : Read(rest, n), Span(rest, IsDigit)),
           SubSeq(text, blank + 1, Len(text)))

----------------------------------------------------------------------------
(* backslash_encode, backslash_decode.                                     *)

Escapes == Tab :> Letter.t @@ Newline :> Letter.n @@ Return :> Letter.r
           @@ Backslash :> Backslash

BackslashEncode(s) ==
  Fold(LAMBDA out, c : out \o IF c \in DOMAIN Escapes THEN <<Backslash, Escapes[c]>>
                                                         ELSE <<c>>, <<>>, s)

Unescaped(c) ==
  IF \E e \in DOMAIN Escapes : Escapes[e] = c
    THEN CHOOSE e \in DOMAIN Escapes : Escapes[e] = c ELSE c

(* A backslash that ends the text is dropped with the NUL it escapes.      *)
BackslashDecode(text) ==
  Fold(LAMBDA d, c : CASE d.esc -> [out |-> Append(d.out, Unescaped(c)), esc |-> FALSE]
                           [] ~d.esc /\ c = Backslash -> [d EXCEPT !.esc = TRUE]
                           [] OTHER -> [d EXCEPT !.out = Append(@, c)],
           [out |-> <<>>, esc |-> FALSE], text).out

----------------------------------------------------------------------------
(* base64_encode_blob, base64_validate_string, base64_decode_string.       *)

Alphabet(sextet) ==
  CASE sextet < 26 -> 65 + sextet
    [] sextet \in 26..51 -> 71 + sextet
    [] sextet \in 52..61 -> sextet - 4
    [] sextet = 62 -> 43
    [] sextet = 63 -> 47

(* DECODE, -1 for what is not in the alphabet.                             *)
Sextet(c) ==
  CASE c \in 65..90 -> c - 65
    [] c \in 97..122 -> c - 71
    [] c \in 48..57 -> c + 4
    [] c = 43 -> 62
    [] c = 47 -> 63
    [] OTHER -> -1

(* The n-th element, or 0 beyond the end.                                  *)
OrZero(s, n) == IF n \in DOMAIN s THEN s[n] ELSE 0

Base64Encode(blob) ==
  LET Group(g) == 65536 * OrZero(blob, 3 * g + 1) + 256 * OrZero(blob, 3 * g + 2)
                  + OrZero(blob, 3 * g + 3)
      Char(g, j) == IF j >= 2 /\ 3 * g + j > Len(blob)
                      THEN Equals ELSE Alphabet((Group(g) \div 64^(3 - j)) % 64)
  IN  [k \in 1..4 * ((Len(blob) + 2) \div 3) |-> Char((k - 1) \div 4, (k - 1) % 4)]

(* The length without padding, or -1.                                      *)
Base64Validate(text) ==
  LET n == Span(text, LAMBDA c : Sextet(c) # -1)
  IN  IF /\ Len(text) % 4 = 0
         /\ n >= Len(text) - 2
         /\ \A k \in n + 1..Len(text) : text[k] = Equals
        THEN n ELSE -1

Base64Decode(text) ==
  LET sextets == [k \in DOMAIN text |-> Sextet(text[k])]
      Group(g) == 262144 * OrZero(sextets, 4 * g + 1) + 4096 * OrZero(sextets, 4 * g + 2)
                  + 64 * OrZero(sextets, 4 * g + 3) + OrZero(sextets, 4 * g + 4)
  IN  [k \in 1..(3 * Len(text)) \div 4 |->
         (Group((k - 1) \div 3) \div 256^(2 - ((k - 1) % 3))) % 256]

----------------------------------------------------------------------------
(* owt_row_cols: the texts a value is printed as, one mbuf_print each.     *)

ElementText(type, e) ==
  IF type = "[bool]" THEN (IF e = 1 THEN True ELSE False) ELSE Decimal[e]

VectorTexts(value) ==
  <<<<Tab>> \o Decimal[Len(value.v)]>>
  \o [k \in DOMAIN value.v |-> <<Space>> \o ElementText(value.type, value.v[k])]

DoubleText(v) == IF v = <<>> THEN <<110, 97, 110>> ELSE Decimal[v[1]] \o <<Dot, 48>>

(* The writer has no case for a date.                                      *)
Supported(type) == type # "datetime"

Texts(value) ==
  CASE value.type \in IntegerTypes -> <<<<Tab>> \o Decimal[value.v[1]]>>
    [] value.type = "double" -> <<<<Tab>> \o DoubleText(value.v)>>
    [] value.type = "string" -> <<<<Tab>> \o BackslashEncode(value.v)>>
    [] value.type = "blob" -> <<<<Tab>> \o Base64Encode(value.v)>>
    [] value.type = "bool" -> <<<<Tab, IF value.v[1] = 1 THEN Letter.T ELSE Letter.F>>>>
    [] value.type \in VectorTypes -> VectorTexts(value)

----------------------------------------------------------------------------
(* oml_value_ut_from_s: the value in a text, [ok, v].                      *)

(* What C sees of a text.                                                  *)
CString(text) == SubSeq(text, 1, Span(text, LAMBDA c : c # 0))

ReadDouble(text) ==
  Once(LAMBDA got : IF got.some THEN <<got.n, 0, 0>> ELSE <<>>, Strtol(text))

(* A text that is not base64 leaves the blob empty.                        *)
ReadBlob(text) ==
  Once(LAMBDA n : IF n = -1 THEN <<>> ELSE Base64Decode(SubSeq(text, 1, n)),
       Base64Validate(text))

Lower(c) == IF c \in 65..90 THEN c + 32 ELSE c

(* oml_value_string_to_bool: whatever begins "false", in any case, and the *)
(* empty text with it, is false.                                           *)
ReadBool(text) ==
  LET begins == /\ Len(text) <= Len(False)
                /\ \A k \in DOMAIN text : Lower(text[k]) = Lower(False[k])
  IN  IF begins THEN 0 ELSE 1

(* The parts of a text between its c's.                                    *)
Split(text, c) ==
  LET cuts == {0, Len(text) + 1} \cup {k \in DOMAIN text : text[k] = c}
      Cut(n) == CHOOSE x \in cuts : Cardinality({y \in cuts : y < x}) = n
  IN  [k \in 1..Cardinality(cuts) - 1 |-> SubSeq(text, Cut(k - 1) + 1, Cut(k) - 1)]

(* A vector: as many elements as the first word says, or none at all.      *)
ReadVector(type, text) ==
  LET Element(word) == IF type = "[bool]" THEN ReadBool(word) ELSE Strtol(word).n
      Good(word) == IF type = "[bool]" THEN word # <<>> ELSE Strtol(word).some
      Read(words, count) ==
        IF /\ count.some
           /\ count.n < Len(words)
           /\ \A k \in 2..count.n + 1 : Good(words[k])
          THEN [ok |-> TRUE, v |-> [k \in 1..count.n |-> Element(words[k + 1])]]
          ELSE [ok |-> FALSE, v |-> <<>>]
  IN  Once(LAMBDA words : Once(LAMBDA count : Read(words, count), Strtol(words[1])),
           Split(text, Space))

FromText(type, field) ==
  LET Got(v) == [ok |-> TRUE, v |-> v]
      Read(text) ==
        CASE type \in IntegerTypes -> Got(<<Strtol(text).n>>)
          [] type = "double" -> Got(ReadDouble(text))
          [] type \in StringTypes -> Got(BackslashDecode(text))
          [] type = "blob" -> Got(ReadBlob(text))
          [] type = "bool" -> Got(<<ReadBool(text)>>)
          [] type \in VectorTypes -> ReadVector(type, text)
  IN  Once(Read, CString(field))
=============================================================================
