---------------------------- MODULE ResolveType ----------------------------
(***************************************************************************)
(* resolve_type.hpp: from a DataType, a segment or a position list that is *)
(* known at run time to the instantiation of a generic functor for its     *)
(* type.  What a resolve function does is the calls of the functor it      *)
(* makes, each with the static types the functor is instantiated for, or   *)
(* Fail.                                                                   *)
(***************************************************************************)
EXTENDS Naturals, Sequences, SequencesExt

CONSTANTS
    data_type_pairs,        \* all_type_variant.hpp: the pairs of a DataType and its type
    EncodedSegments         \* the classes under AbstractEncodedSegment

VARIABLE HYRISE_DEBUG       \* the build: DebugAssert is compiled in

Fail == [failed |-> TRUE, calls |-> <<>>]

Functor(calls) == [failed |-> FALSE, calls |-> calls]

\* The mutation: the functor is called for every pair.
Matches_any(data_type_pair, data_type) == TRUE

\* hana::first(data_type_pair) == data_type
Matches(data_type_pair, data_type) == data_type_pair[1] = data_type

\* The functor is called with the type of every pair of data_type: the
\* return leaves the lambda, not the loop.
resolve_data_type(data_type) ==
    LET matching == SelectSeq(data_type_pairs, LAMBDA pair : Matches(pair, data_type))
    IN  IF HYRISE_DEBUG /\ data_type = "Null"
        THEN Fail
        ELSE Functor([i \in DOMAIN matching |-> matching[i][2]])

\* resolve_encoded_segment_type, "given a segment and its known column
\* type": the segment is cast to its class over ColumnDataType.
resolve_encoded_segment_type(ColumnDataType, segment) ==
    Functor(<<<<segment.class, ColumnDataType>>>>)

\* The chain of dynamic_cast: a value segment of ColumnDataType, a reference
\* segment, an encoded segment, or none of them.
resolve_segment_type(ColumnDataType, segment) ==
    CASE segment.class = "ValueSegment" /\ segment.type = ColumnDataType ->
            Functor(<<<<"ValueSegment", ColumnDataType>>>>)
      [] segment.class = "ReferenceSegment" -> Functor(<<<<"ReferenceSegment">>>>)
      [] segment.class \in EncodedSegments ->
            resolve_encoded_segment_type(ColumnDataType, segment)
      [] OTHER -> Fail

\* The mutation: a null pointer is not taken for a RowIDPosList.
IsRowIDPosList_not_null(untyped_pos_list) == untyped_pos_list = "RowIDPosList"

\* !untyped_pos_list || row_id_pos_list
IsRowIDPosList(untyped_pos_list) == untyped_pos_list \in {"nullptr", "RowIDPosList"}

\* The functor gets the list as it came, or cast to its class; a null
\* pointer is handed on as a null pointer to a RowIDPosList.
resolve_pos_list_type(erase_pos_list_type, untyped_pos_list) ==
    CASE HYRISE_DEBUG \/ erase_pos_list_type = "Always" ->
            Functor(<<<<"AbstractPosList", untyped_pos_list>>>>)
      [] OTHER ->
            CASE IsRowIDPosList(untyped_pos_list) ->
                    Functor(<<<<"RowIDPosList", untyped_pos_list>>>>)
              [] untyped_pos_list = "EntireChunkPosList" ->
                    Functor(<<<<"EntireChunkPosList", untyped_pos_list>>>>)
              [] OTHER -> Fail

\* The functor is called with each type of the segment's data type and the
\* segment as that type resolves it.
resolve_data_and_segment_type(segment) ==
    LET types  == resolve_data_type(segment.data_type)
        typed  == [i \in DOMAIN types.calls |-> resolve_segment_type(types.calls[i], segment)]
    IN  IF types.failed \/ \E i \in DOMAIN typed : typed[i].failed
        THEN Fail
        ELSE Functor(FlattenSeq([i \in DOMAIN typed |->
                        [j \in DOMAIN typed[i].calls |-> <<types.calls[i], typed[i].calls[j]>>]]))

\* The mutation: the fold takes the DataType of every pair.
FoldDataType_every_pair(T, data_type, type_tuple) == type_tuple[1]

FoldDataType(T, data_type, type_tuple) ==
    IF T = type_tuple[2] THEN type_tuple[1] ELSE data_type

\* The fold starts from DataType{}, which is Null.
data_type_from_type(T) ==
    FoldLeft(LAMBDA data_type, type_tuple : FoldDataType(T, data_type, type_tuple),
             "Null", data_type_pairs)

=============================================================================
