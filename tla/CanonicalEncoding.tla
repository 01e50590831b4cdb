-------------------------- MODULE CanonicalEncoding --------------------------
(***************************************************************************)
(* The bytes a row is hashed over (chain-core: encode.rs, canonical_json.rs*)
(* chain.rs).  HashChain names the hash of a row by the row; that is sound *)
(* if different rows have different bytes, and that is what is checked     *)
(* here, over small tables, fields and JSON values.                        *)
(*                                                                         *)
(* Text is the sequence of its bytes.  A timestamp is the number of its    *)
(* nanoseconds, an i64 a number that TLC can hold.  A JSON object is a     *)
(* function on its keys, so it has no order that could leak.  Floats make  *)
(* the encoder panic and have no bytes.                                    *)
(***************************************************************************)
EXTENDS RowEncoding

\* Text of a number, and of the literals.
RECURSIVE Digits(_)
Digits(n) == IF n < 0 THEN <<45>> \o Digits(-n)
             ELSE IF n < 10 THEN <<48 + n>> ELSE Append(Digits(n \div 10), 48 + (n % 10))
NullText == <<110, 117, 108, 108>>
TrueText == <<116, 114, 117, 101>>
FalseText == <<102, 97, 108, 115, 101>>

-----------------------------------------------------------------------------
(* canonical_json *)

Separated(texts) ==
  FlattenSeq([i \in DOMAIN texts |-> IF i = 1 THEN texts[i] ELSE <<44>> \o texts[i]])

HexDigit(n) == IF n < 10 THEN 48 + n ELSE 87 + n

\* The named escapes \" \\ \n \r \t \b \f, and \u00xx for other control bytes.
Escape(c) ==
  IF c \in {34, 92} THEN <<92, c>>
  ELSE IF c = 10 THEN <<92, 110>> ELSE IF c = 13 THEN <<92, 114>>
  ELSE IF c = 9 THEN <<92, 116>> ELSE IF c = 8 THEN <<92, 98>>
  ELSE IF c = 12 THEN <<92, 102>>
  ELSE IF c < 32 THEN <<92, 117, 48, 48, HexDigit(c \div 16), HexDigit(c % 16)>>
  ELSE <<c>>

WriteString(s) == <<34>> \o FlattenSeq([i \in DOMAIN s |-> Escape(s[i])]) \o <<34>>

RECURSIVE CanonicalText(_)
CanonicalText(v) ==
  CASE v.type = "null" -> NullText
    [] v.type = "bool" -> IF v.bool THEN TrueText ELSE FalseText
    [] v.type = "number" -> Digits(v.number)
    [] v.type = "string" -> WriteString(v.string)
    [] v.type = "array" ->
         <<91>> \o Separated([i \in DOMAIN v.array |-> CanonicalText(v.array[i])]) \o <<93>>
    [] v.type = "object" ->
         LET keys == SetToSortSeq(DOMAIN v.object, TextBefore)
         IN  <<123>> \o Separated([i \in DOMAIN keys |->
                 WriteString(keys[i]) \o <<58>> \o CanonicalText(v.object[keys[i]])]) \o <<125>>

-----------------------------------------------------------------------------
(* The values of a row *)

\* What is written of a value; a timestamp is truncated to microseconds.
Written(v) ==
  CASE v.type = "json" -> [type |-> "json", text |-> CanonicalText(v.json)]
    [] v.type = "timestamp" -> [type |-> "timestamp", text |-> Digits(v.timestamp \div 1000)]
    [] OTHER -> v

CanonicalRow(table, fields) ==
  RowBytes(table, { [name |-> f.name, value |-> Written(f.value)] : f \in fields })

-----------------------------------------------------------------------------
(* Checks over small inputs *)

\* A quote, a backslash, n (the letter of an escape), a comma, and two control
\* bytes, one with an escape of its own.
Strings == UNION { [1 .. n -> {34, 92, 110, 44, 10, 1}] : n \in 0 .. 3 }
FewStrings == UNION { [1 .. n -> {34, 44, 92}] : n \in 0 .. 1 } \cup {NullText}

Leaves == {[type |-> "null"], [type |-> "bool", bool |-> TRUE], [type |-> "number", number |-> 1],
           [type |-> "number", number |-> -11]}
            \cup { [type |-> "string", string |-> s] : s \in FewStrings }
Nested(values) ==
  { [type |-> "array", array |-> xs] : xs \in UNION { [1 .. n -> values] : n \in 0 .. 2 } }
    \cup { [type |-> "object", object |-> o] :
             o \in UNION { [keys -> values] : keys \in SUBSET {<<>>, <<34>>, <<34, 58>>} } }
FewLeaves == {[type |-> "null"], [type |-> "string", string |-> <<44>>]}
Jsons == Leaves \cup Nested(Leaves) \cup Nested(FewLeaves \cup Nested({[type |-> "null"]}))

Values ==
  {[type |-> "absent"], [type |-> "bool", bool |-> FALSE],
   [type |-> "uuid", text |-> [i \in 1 .. 16 |-> 0]], [type |-> "uuid", text |-> [i \in 1 .. 16 |-> 1]],
   [type |-> "i64", number |-> 0], [type |-> "i64", number |-> -1], [type |-> "i64", number |-> 256],
   [type |-> "timestamp", timestamp |-> 1000], [type |-> "timestamp", timestamp |-> 2000]}
    \cup { [type |-> "str", text |-> s] : s \in {<<>>, <<34, 34>>, <<0>>, NullText} }
    \cup { [type |-> "bytes", text |-> s] : s \in {<<>>, <<34, 34>>, <<0>>, NullText} }
    \cup { [type |-> "json", json |-> v] : v \in FewLeaves \cup Nested({[type |-> "null"]}) }
Names == {<<97>>, <<97, 98>>, <<98>>}
FieldSets ==
  UNION { { { [name |-> n, value |-> f[n]] : n \in names } : f \in [names -> Values] } :
          names \in { ns \in SUBSET Names : Cardinality(ns) <= 2 } }

\* "Silently accepting [floats] would ... break verification", and so would two
\* strings, or two JSON values, that are written alike: escapes and separators
\* never make one value look like another, at whatever depth.
ASSUME StringsAreInjective == Cardinality({ WriteString(s) : s \in Strings }) = Cardinality(Strings)
ASSUME JsonIsInjective == Cardinality({ CanonicalText(v) : v \in Jsons }) = Cardinality(Jsons)

\* Rows of different tables, columns, types or values have different bytes: a
\* value cannot run into the next field, an absent one is not an empty one.
ASSUME RowsAreInjective ==
  LET inputs == {<<101>>, <<101, 97>>} \X FieldSets IN
  Cardinality({ CanonicalRow(r[1], r[2]) : r \in inputs }) = Cardinality(inputs)

\* What Postgres drops of a timestamp is not hashed either, so a stored row has
\* the bytes it was hashed over.
ASSUME MicrosecondsOnly ==
  Written([type |-> "timestamp", timestamp |-> 1999]) = Written([type |-> "timestamp", timestamp |-> 1000])

=============================================================================
