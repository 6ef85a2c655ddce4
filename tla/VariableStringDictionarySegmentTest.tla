---------------- MODULE VariableStringDictionarySegmentTest ----------------
(***************************************************************************)
(* The unit tests of the segment (variable_string_dictionary_segment_      *)
(* test.cpp), each as a predicate on the segment the model builds from the *)
(* test's value segment.  The tests pin the model to the program where the *)
(* model is written after the design document: the layout of the blob,     *)
(* the offsets, the widths and the memory estimate.                        *)
(*                                                                         *)
(* A word is kept as its first letter and its length, which is what the    *)
(* order of the dictionary and the offsets depend on.                      *)
(***************************************************************************)
EXTENDS VariableStringDictionarySegment

\* The first letters of the tests' words, by their place in the alphabet.
Letter ==
    [A |-> 1, B |-> 2, C |-> 3, E |-> 5, F |-> 6, G |-> 7, H |-> 8, I |-> 9,
     K |-> 11, Q |-> 17, S |-> 19, T |-> 20, W |-> 23, Z |-> 26]

Word(letter, length) == [i \in 1..length |-> Letter[letter]]

Bill == Word("B", 4)

Steve == Word("S", 5)

Alexander == Word("A", 9)

Hasso == Word("H", 5)

\* "force different sizes for offsets and ValueIDs": 512 in the code, twice
\* what a byte counts.
DATA_SIZE == 2^(ByteBits + 1)

\* vs_str as each test fills it.
vs_str ==
    [CompressSegmentString |-> <<Bill, Steve, Alexander, Steve, Hasso, Bill>>,
     Decode                |-> <<Bill, Steve, Bill>>,
     LowerUpperBound       |-> <<Word("A", 1), Word("C", 1), Word("E", 1), Word("G", 1),
                                 Word("I", 1), Word("K", 1)>>,
     NullValues            |-> <<Word("A", 1), NULL_VALUE, Word("E", 1)>>,
     MemoryUsageEstimation |-> <<Word("A", 1), Word("B", 1), Word("C", 1)>>,
     TestOffsetVector      |-> <<Word("T", 63), Word("Q", 10), Word("Q", 10), Word("S", 5)>>,
     TestIterable          |-> <<Bill, <<>>, Steve, NULL_VALUE, Bill>>,
     MediumSizeCompression |-> <<Word("A", DATA_SIZE), Word("B", DATA_SIZE)>>]

TestValueSegments == Range(vs_str) \cup {<<>>}

\* The segment is the one the test encodes.
Encoded(test) == value_segment = vs_str[test]

\* attribute_vector() of the segment.
ValueIdsOf(seg) == CreateAttributeVectorWithValueIds(seg)

CompressSegmentString ==
    Encoded("CompressSegmentString") =>
        /\ size(segment) = 6
        /\ Size(ValueIdsOf(segment)) = 6
        /\ unique_values_count(segment) = 4

Decode ==
    Encoded("Decode") =>
        /\ segment.attribute_vector.width = 1
        /\ [offset \in 0..2 |-> OperatorAt(segment, offset)] =
              [offset \in 0..2 |-> vs_str.Decode[offset + 1]]

LowerUpperBound ==
    Encoded("LowerUpperBound") =>
        /\ lower_bound(segment, Word("E", 1)) = 2
        /\ upper_bound(segment, Word("E", 1)) = 3
        /\ lower_bound(segment, Word("F", 1)) = 3
        /\ upper_bound(segment, Word("F", 1)) = 3
        /\ lower_bound(segment, Word("Z", 1)) = INVALID_VALUE_ID
        /\ upper_bound(segment, Word("Z", 1)) = INVALID_VALUE_ID

NullValues ==
    Encoded("NullValues") =>
        /\ null_value_id(segment) = 2
        /\ OperatorAt(segment, 1) = NULL_VALUE

\* The estimate of the segment of three one-letter strings, measured
\* against that of the empty segment: a byte per row and four per offset,
\* six for the blob, and a second byte per row once attribute_vector() has
\* built the value ids.
MemoryUsageEstimation ==
    LET empty_memory_usage == memory_usage(Encode(<<>>), 0)
        without_value_ids  == empty_memory_usage + 3 * (1 + 4) + 6
        with_value_ids     == empty_memory_usage + 3 * (2 * 1 + 4) + 6
    IN  Encoded("MemoryUsageEstimation") =>
            \A t \in Threads :
                /\ pc[t] = "idle" /\ cache = nullptr /\ usage[t] # NotMeasured
                      => usage[t] = without_value_ids
                /\ usage[t] # NotMeasured
                      => usage[t] \in {without_value_ids, with_value_ids}
                /\ memory_usage(segment, DataSize(ValueIdsOf(segment))) = with_value_ids

TestOffsetVector ==
    Encoded("TestOffsetVector") => offset_vector(segment) = <<0, 11, 17>>

TestAttributeVector ==
    Encoded("TestOffsetVector") => Size(ValueIdsOf(segment)) = 4

\* The segment the test puts together by hand: four words and, "just to be
\* annoying", a zero-length string at the end.
TestLookup ==
    LET klotz == Klotz(<<Word("H", 5), Word("W", 5), Word("A", 9), Word("S", 6)>>) \o <<NUL>>
        seg   == [dictionary       |-> klotz,
                  attribute_vector |-> Compress(<<0, 0, 6, 22, 12, 29, 12>>, 4),
                  offset_vector    |-> <<0, 6, 12, 22, 29>>]
        rows  == <<Word("H", 5), Word("H", 5), Word("W", 5), Word("S", 6), Word("A", 9),
                   <<>>, Word("A", 9)>>
    IN  /\ Len(klotz) = 30
        /\ \A offset \in 0..6 :
              /\ get_typed_value(seg, offset) = rows[offset + 1]
              /\ OperatorAt(seg, offset) = rows[offset + 1]

\* for_each of the iterable gives every row of the value segment.
TestIterable ==
    Encoded("TestIterable") =>
        \A offset \in 0..4 :
            get_typed_value(segment, offset) = vs_str.TestIterable[offset + 1]

\* The iterator of the dictionary gives the words in their order, as many
\* as the vector holds.
TestVectorIterator ==
    Encoded("TestIterable") =>
        [i \in 1..variable_string_dictionary(segment).size |->
            typed_value_of_value_id(segment, i - 1)] = <<<<>>, Bill, Steve>>

MediumSizeCompression ==
    Encoded("MediumSizeCompression") =>
        /\ get_typed_value(segment, 0) = Word("A", DATA_SIZE)
        /\ get_typed_value(segment, 1) = Word("B", DATA_SIZE)

-----------------------------------------------------------------------------

\* The tests of the encoder's output pass on the model: the number of
\* distinct values, the offsets of the words in the blob, the NULL value id
\* and the width of the attribute vector are those the program is tested to
\* produce, also where the offsets need a wider type than the value ids.
EncoderTestsPass ==
    /\ CompressSegmentString
    /\ Decode
    /\ NullValues
    /\ TestOffsetVector
    /\ TestAttributeVector
    /\ MediumSizeCompression

\* The tests of the lookups pass on the model: lower_bound and upper_bound
\* of a stored, an absent and a too large value, and the value of every row
\* by get_typed_value, by operator[] and by the iterators, on encoded
\* segments and on the segment put together by hand.
LookupTestsPass ==
    /\ LowerUpperBound
    /\ TestLookup
    /\ TestIterable
    /\ TestVectorIterator

\* The test of memory_usage passes on the model, before and after
\* attribute_vector() has built the value ids, in whatever order a thread
\* calls the two.
MemoryUsageTestPasses == MemoryUsageEstimation

=============================================================================
