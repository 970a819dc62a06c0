----------------------------- MODULE VectorJson -----------------------------
(***************************************************************************)
(* How the server stores a vector: vector_*_to_json (lib/shared/json.c)    *)
(* prints its elements into a buffer that is allocated for their number,   *)
(* each over the " ]" of the one before, and every backend makes something *)
(* of what comes out.                                                      *)
(***************************************************************************)
EXTENDS TextCodec

CONSTANTS
  ElementRoom, \* ElementRoom[type]: bytes set aside for an element: 13 and 22 for
               \* integers of 32 and 64 bits, DBL_DIG + 3 for a double, 22 for a Boolean
  MaxDigits    \* MAX_DIGITS: the buffer that PostgreSQL's adapter has for any value

ASSUME VectorJsonAssumption ==
  /\ ElementRoom \in [VectorTypes -> Nat]
  /\ MaxDigits \in Nat

Comma == 44
Opening == <<91, Space>>
Separator == <<Comma, Space>>
Closing == <<Space, 93>>

(* %g of a whole number has no point.  A Boolean is true or false.         *)
JsonElement(type, e) ==
  IF type = "[bool]" THEN [k \in DOMAIN ElementText(type, e) |-> Lower(ElementText(type, e)[k])]
                     ELSE Decimal[e]

(* Mutant of Room: the brackets are forgotten.                             *)
RoomWithoutBrackets(given, type, n) == 1 + n * ElementRoom[type]

(* resize_buffer: the size of the buffer, of which one of `given` bytes    *)
(* may already be there.                                                   *)
Room(given, type, n) ==
  LET needed == 4 + n * ElementRoom[type] + 1
  IN  IF given < needed THEN needed ELSE given

(* snprintf of an element with what is around it: all of it, or as much as *)
(* fits before a NUL; the next one is printed over its Closing.            *)
PutElement(room, text, before, element) ==
  LET printed == before \o element \o Closing
      kept == SubSeq(text, 1, Len(text) - (IF text = <<>> THEN 0 ELSE Len(Closing)))
      left == room - Len(kept)
      fits == Len(printed) < left
  IN  [ok |-> fits, text |-> kept \o SubSeq(printed, 1, IF fits THEN Len(printed) ELSE left - 1)]

(* vector_*_to_json: [ok, text].  The first element that does not fit ends *)
(* it.  No element, no text.                                               *)
ToJson(given, value) ==
  LET Put(s, e) ==
        IF ~s.ok THEN s
        ELSE PutElement(Room(given, value.type, Len(value.v)), s.text,
                        IF s.text = <<>> THEN Opening ELSE Separator, JsonElement(value.type, e))
  IN  Fold(Put, [ok |-> TRUE, text |-> <<>>], value.v)

Null == <<0>>

(* What each backend stores of a vector.  SQLite has a null, and the       *)
(* triple store an empty text, where the conversion fails; PostgreSQL is   *)
(* given what is in the buffer.                                            *)
StoredInSqlite(value) == LET json == ToJson(0, value) IN IF json.ok THEN json.text ELSE Null
StoredInPostgresql(value) == ToJson(MaxDigits, value).text
StoredAsTriple(value) == LET json == ToJson(0, value) IN IF json.ok THEN json.text ELSE <<>>

(* What a vector is as JSON; the empty one is no text at all (the test     *)
(* null_valued_vector_double_null_output of check_libshared_json.c).       *)
Json(value) ==
  IF value.v = <<>> THEN <<>>
  ELSE Opening \o JsonElement(value.type, value.v[1])
       \o FlattenSeq([k \in 1..Len(value.v) - 1 |->
                        Separator \o JsonElement(value.type, value.v[k + 1])])
       \o Closing
=============================================================================
