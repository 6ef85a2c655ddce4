------------------- MODULE VariableStringDictionaryEncoder -------------------
(***************************************************************************)
(* The encoder that turns a value segment of strings into the three parts  *)
(* of a variable-string dictionary segment: the blob of NUL-terminated     *)
(* strings ("Klotz"), the offset of every distinct string in the blob, and *)
(* for every row the offset of its string.                                 *)
(*                                                                         *)
(* The encoder is not part of the sources; it is written after the design  *)
(* document (spec.md, section 4.3) and is what gives the segment module    *)
(* the segments it starts from.                                            *)
(*                                                                         *)
(* A string is a sequence of bytes, a byte a natural number, NUL is 0.     *)
(***************************************************************************)
EXTENDS FixedWidthIntegerVector

CONSTANT NULL_VALUE     \* the AllTypeVariant that holds no value

NUL == 0

(***************************************************************************)
(* operator< of two strings: byte-wise lexicographic, a proper prefix      *)
(* before the longer string.                                               *)
(***************************************************************************)
StringLess(s, t) ==
    \E i \in 1..Len(t) :
        /\ i - 1 <= Len(s)
        /\ SubSeq(s, 1, i - 1) = SubSeq(t, 1, i - 1)
        /\ i <= Len(s) => s[i] < t[i]

\* The distinct non-null values of the rows, in ascending order.
SortedUnique(rows) ==
    LET values == {rows[r] : r \in DOMAIN rows} \ {NULL_VALUE}
    IN  [i \in 1..Cardinality(values) |->
            CHOOSE v \in values :
                Cardinality({w \in values : StringLess(w, v)}) = i - 1]

\* The blob: every string followed by NUL, back to back.
Klotz(strings) ==
    FoldLeft(LAMBDA blob, s : blob \o s \o <<NUL>>, <<>>, strings)

\* The offset in the blob at which the i-th string starts.
OffsetOf(strings, i) == Len(Klotz(SubSeq(strings, 1, i - 1)))

(***************************************************************************)
(* Encode: sort and deduplicate the non-null values, lay them out in the   *)
(* blob, and store for every row the offset of its value, the length of    *)
(* the blob for NULL.  The attribute vector is compressed with the blob    *)
(* length as its maximum, so that the NULL offset fits.                    *)
(***************************************************************************)
Encode(rows) ==
    LET strings  == SortedUnique(rows)
        klotz    == Klotz(strings)
        IndexOf(v) == CHOOSE i \in DOMAIN strings : strings[i] = v
        offsets  == [r \in DOMAIN rows |->
                        IF rows[r] = NULL_VALUE
                        THEN Len(klotz)
                        ELSE OffsetOf(strings, IndexOf(rows[r]))]
    IN  [dictionary       |-> klotz,
         attribute_vector |-> Compress(offsets, Len(klotz)),
         offset_vector    |-> [i \in DOMAIN strings |-> OffsetOf(strings, i)]]

=============================================================================
