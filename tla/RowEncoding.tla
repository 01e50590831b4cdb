---------------------------- MODULE RowEncoding -----------------------------
(***************************************************************************)
(* How the bytes of a row are laid out (chain-core/encode.rs).  What is    *)
(* written of a JSON value or of a timestamp is the text that              *)
(* CanonicalEncoding makes of it.                                          *)
(*                                                                         *)
(* Text is the sequence of its bytes.  The constant prefix of the format   *)
(* is left out.                                                            *)
(***************************************************************************)
EXTENDS Integers, SequencesExt

\* The low 2, 4 and 8 bytes of n, big endian, in two's complement.
U16(n) == <<(n \div 256) % 256, n % 256>>
U32(n) == U16(n \div 65536) \o U16(n)
I64(n) == U32((n \div 65536) \div 65536) \o U32(n)

\* The order of byte strings: at the first place where they differ s has ended
\* or has the smaller byte.
TextBefore(s, t) ==
  \E i \in 1 .. Len(t) : /\ \A j \in 1 .. i - 1 : j <= Len(s) /\ s[j] = t[j]
                         /\ i <= Len(s) => s[i] < t[i]

Tag == [uuid |-> 1, i64 |-> 2, str |-> 3, json |-> 4, timestamp |-> 5, bytes |-> 6,
        absent |-> 7, bool |-> 8]

\* Values of these types are of any length, which is written before them.
SizedTypes == {"str", "json", "timestamp", "bytes"}

\* write_u32_prefixed
Sized(text) == U32(Len(text)) \o text

Payload(v) ==
  CASE v.type \in SizedTypes -> Sized(v.text)
    [] v.type = "uuid" -> v.text
    [] v.type = "i64" -> I64(v.number)
    [] v.type = "bool" -> <<IF v.bool THEN 1 ELSE 0>>
    [] v.type = "absent" -> <<>>

Named(name) == U16(Len(name)) \o name

EncodeField(f) == Named(f.name) \o (<<Tag[f.value.type]>> \o Payload(f.value))

\* Fields may be listed in any order; no two have one name.
SortedFields(fields) ==
  CHOOSE l \in SetToSeqs(fields) : \A i, j \in DOMAIN l : i < j => TextBefore(l[i].name, l[j].name)

RowBytes(table, fields) ==
  LET sorted == SortedFields(fields)
  IN  Named(table) \o (U16(Len(sorted)) \o FlattenSeq([i \in DOMAIN sorted |-> EncodeField(sorted[i])]))

=============================================================================
