------------------- MODULE VariableStringDictionarySegment -------------------
(***************************************************************************)
(* A variable-string dictionary segment (variable_string_dictionary_       *)
(* segment.cpp): an immutable column of strings kept as a blob of          *)
(* NUL-terminated strings (_dictionary), the blob offset of every distinct *)
(* string (_offset_vector) and, per row, the blob offset of the row's      *)
(* string (_attribute_vector).  The only field that changes after          *)
(* construction is _attribute_vector_with_value_ids, the per-row value ids *)
(* that attribute_vector() builds on first use.                            *)
(*                                                                         *)
(* The first part of the module gives the segment's read-only operations   *)
(* as operators on the segment; the second part is the state machine of    *)
(* one segment that several threads use at once.  The segment is shared    *)
(* without a lock, and the lazily built field is a plain shared_ptr, so    *)
(* every read and write of it is a step of its own.                        *)
(***************************************************************************)
EXTENDS VariableStringDictionaryEncoder

CONSTANTS
    Strings,        \* the strings a row can hold
    MaxRows,        \* the longest value segment that is encoded
    Threads         \* the threads that use the segment

ASSUME MaxRows \in Nat /\ Threads # {}

\* INVALID_VALUE_ID: "value not found" of lower_bound and upper_bound.
INVALID_VALUE_ID == MaxOfWidth(4)

nullptr == 0

-----------------------------------------------------------------------------
(***************************************************************************)
(* The read-only operations.  seg is a record of the three constructor     *)
(* arguments.                                                              *)
(***************************************************************************)

\* The constructor's Assert: the NULL value id must stay below
\* INVALID_VALUE_ID.
Constructible(seg) == Len(seg.offset_vector) < INVALID_VALUE_ID

\* The getters: the parts the segment was constructed with.
dictionary(seg) == seg.dictionary

attribute_vector_offsets(seg) == seg.attribute_vector

offset_vector(seg) == seg.offset_vector

\* variable_string_dictionary: the blob as a vector of as many strings as
\* the offset vector has entries.
variable_string_dictionary(seg) ==
    [dictionary |-> dictionary(seg), size |-> Len(seg.offset_vector)]

unique_values_count(seg) == Len(seg.offset_vector)

null_value_id(seg) == Len(seg.offset_vector)

size(seg) == Size(seg.attribute_vector)

\* The mutation: the string is cut one byte short.
CStringAt_short(klotz, offset) ==
    LET terminator == SelectInSubSeq(klotz, offset + 1, Len(klotz),
                                     LAMBDA byte : byte = NUL)
    IN  SubSeq(klotz, offset + 1, terminator - 2)

(***************************************************************************)
(* pmr_string{_dictionary->data() + offset}: the bytes from offset up to   *)
(* the next NUL.                                                           *)
(***************************************************************************)
CStringAt(klotz, offset) ==
    LET terminator == SelectInSubSeq(klotz, offset + 1, Len(klotz),
                                     LAMBDA byte : byte = NUL)
    IN  SubSeq(klotz, offset + 1, terminator - 1)

typed_value_of_value_id(seg, value_id) ==
    CStringAt(seg.dictionary, seg.offset_vector[value_id + 1])

value_of_value_id(seg, value_id) ==
    IF value_id = null_value_id(seg)
    THEN NULL_VALUE
    ELSE typed_value_of_value_id(seg, value_id)

(***************************************************************************)
(* get_typed_value, as operator[] uses it: nothing for a row whose offset  *)
(* is the length of the blob, the string at the row's offset otherwise.    *)
(***************************************************************************)
get_typed_value(seg, chunk_offset) ==
    LET klotz_offset == Get(seg.attribute_vector, chunk_offset)
    IN  IF klotz_offset = Len(seg.dictionary)
        THEN NULL_VALUE
        ELSE CStringAt(seg.dictionary, klotz_offset)

OperatorAt(seg, chunk_offset) == get_typed_value(seg, chunk_offset)

(***************************************************************************)
(* std::lower_bound and std::upper_bound over the value ids first ..       *)
(* first + count - 1: halve the range, going right of the middle id when   *)
(* the comparison go_right holds of it.                                    *)
(***************************************************************************)
RECURSIVE PartitionPoint(_, _, _)
PartitionPoint(first, count, go_right) ==
    LET step   == count \div 2
        middle == first + step
    IN  CASE count = 0        -> first
          [] go_right[middle] -> PartitionPoint(middle + 1, count - (step + 1), go_right)
          [] OTHER            -> PartitionPoint(first, step, go_right)

ValueIds(seg) == 0..unique_values_count(seg) - 1

\* The mutation: the end of the range is returned as a value id.
lower_bound_no_end_check(seg, value) ==
    PartitionPoint(0, unique_values_count(seg),
        [id \in ValueIds(seg) |-> StringLess(typed_value_of_value_id(seg, id), value)])

lower_bound(seg, value) ==
    LET it == PartitionPoint(0, unique_values_count(seg),
                  [id \in ValueIds(seg) |->
                      StringLess(typed_value_of_value_id(seg, id), value)])
    IN  IF it = unique_values_count(seg) THEN INVALID_VALUE_ID ELSE it

\* The mutation: the comparison of lower_bound is used.
upper_bound_as_lower(seg, value) == lower_bound(seg, value)

upper_bound(seg, value) ==
    LET it == PartitionPoint(0, unique_values_count(seg),
                  [id \in ValueIds(seg) |->
                      ~StringLess(value, typed_value_of_value_id(seg, id))])
    IN  IF it = unique_values_count(seg) THEN INVALID_VALUE_ID ELSE it

(***************************************************************************)
(* The map from blob offset to value id that                               *)
(* _create_attribute_vector_with_value_ids fills first: insert() keeps the *)
(* first value id of an offset.                                            *)
(***************************************************************************)
ReverseOffsetVector(seg) ==
    [offset \in Range(seg.offset_vector) |->
        Min({id \in ValueIds(seg) : seg.offset_vector[id + 1] = offset})]

\* The mutation: no case for NULL rows.
ValueIdOfOffset_no_null(seg, klotz_offset) ==
    LET reverse_offset_vector == ReverseOffsetVector(seg)
    IN  IF klotz_offset \in DOMAIN reverse_offset_vector
        THEN reverse_offset_vector[klotz_offset]
        ELSE 0

(***************************************************************************)
(* The body of the loop over the rows: the NULL value id for the offset    *)
(* at the end of the blob, the value id of the offset otherwise.  In a     *)
(* build without DebugAssert, operator[] of the map inserts value id 0     *)
(* for an offset it does not hold.                                         *)
(***************************************************************************)
ValueIdOfOffset(seg, klotz_offset) ==
    LET reverse_offset_vector == ReverseOffsetVector(seg)
    IN  CASE klotz_offset = Len(seg.dictionary) -> null_value_id(seg)
          [] klotz_offset \in DOMAIN reverse_offset_vector
                -> reverse_offset_vector[klotz_offset]
          [] OTHER -> 0

(***************************************************************************)
(* _create_attribute_vector_with_value_ids: a value id for every row,      *)
(* compressed with the number of distinct values as the largest element.   *)
(***************************************************************************)
CreateAttributeVectorWithValueIds(seg) ==
    Compress([row \in 1..size(seg) |->
                 ValueIdOfOffset(seg, Get(seg.attribute_vector, row - 1))],
             unique_values_count(seg))

\* The mutation: the value-id vector is left out.
memory_usage_without_value_ids(seg, value_ids_size) ==
    DataSize(seg.attribute_vector) + Len(seg.dictionary) + Len(seg.offset_vector) * 4

(***************************************************************************)
(* memory_usage: the attribute vector, the blob, four bytes per offset and *)
(* the value-id vector when it has been built.  A vector's capacity is     *)
(* taken to be its size.                                                   *)
(***************************************************************************)
memory_usage(seg, value_ids_size) ==
    DataSize(seg.attribute_vector) + Len(seg.dictionary)
        + Len(seg.offset_vector) * 4 + value_ids_size

-----------------------------------------------------------------------------
(***************************************************************************)
(* One segment, used by several threads.                                   *)
(***************************************************************************)
VARIABLES
    value_segment,  \* the rows the segment was encoded from
    segment,        \* _dictionary, _attribute_vector, _offset_vector
    cache,          \* _attribute_vector_with_value_ids: nullptr or a pointer
    heap,           \* the value-id vectors built so far, by pointer, each
                    \* with the reference count of its control block
    pc,             \* where every thread is in its call
    local,          \* the pointer a thread holds inside a call
    previous,       \* the pointer a thread's assignment took out of the field
    result,         \* the shared_ptr the last attribute_vector() returned
    usage,          \* what the last memory_usage() returned
    faulted         \* the threads that have touched a freed vector

vars ==
    <<value_segment, segment, cache, heap, pc, local, previous, result, usage, faulted>>

ValueSegments == UNION {[1..n -> Strings \cup {NULL_VALUE}] : n \in 0..MaxRows}

Pointers == 1..Cardinality(Threads)

NotMeasured == NoMaxValue

\* A freed vector is one whose reference count has reached 0.
Freed(pointer) == pointer # nullptr /\ heap[pointer].refs = 0

\* The copy of a shared_ptr: one reference more, unless it holds nothing.
Acquire(objects, pointer) ==
    IF pointer = nullptr
    THEN objects
    ELSE [objects EXCEPT ![pointer].refs = @ + 1]

\* ~shared_ptr and the release half of an assignment: one reference less.
Release(objects, pointer) ==
    IF pointer = nullptr \/ objects[pointer].refs = 0
    THEN objects
    ELSE [objects EXCEPT ![pointer].refs = @ - 1]

Init ==
    /\ value_segment \in ValueSegments
    /\ segment = Encode(value_segment)
    /\ Constructible(segment)
    /\ cache = nullptr
    /\ heap = <<>>
    /\ pc = [t \in Threads |-> "idle"]
    /\ local = [t \in Threads |-> nullptr]
    /\ previous = [t \in Threads |-> nullptr]
    /\ result = [t \in Threads |-> nullptr]
    /\ usage = [t \in Threads |-> NotMeasured]
    /\ faulted = {}

\* A thread calls attribute_vector(); it has let go of an earlier result.
CallAttributeVector(t) ==
    /\ pc[t] = "idle"
    /\ result[t] = nullptr
    /\ pc' = [pc EXCEPT ![t] = "check"]
    /\ UNCHANGED <<value_segment, segment, cache, heap, local, previous, result, usage, faulted>>

\* The mutation: the vector is built whether or not one is cached.
CheckCache_always_build(t) ==
    /\ pc[t] = "check"
    /\ pc' = [pc EXCEPT ![t] = "create"]
    /\ UNCHANGED <<value_segment, segment, cache, heap, local, previous, result, usage, faulted>>

\* The mutation: the test of the field is inverted.
CheckCache_inverted(t) ==
    /\ pc[t] = "check"
    /\ pc' = [pc EXCEPT ![t] = IF cache # nullptr THEN "create" ELSE "load"]
    /\ UNCHANGED <<value_segment, segment, cache, heap, local, previous, result, usage, faulted>>

\* if (!_attribute_vector_with_value_ids)
CheckCache(t) ==
    /\ pc[t] = "check"
    /\ pc' = [pc EXCEPT ![t] = IF cache = nullptr THEN "create" ELSE "load"]
    /\ UNCHANGED <<value_segment, segment, cache, heap, local, previous, result, usage, faulted>>

\* The right-hand side of the assignment: a new vector, owned by a temporary.
CreateValueIds(t) ==
    /\ pc[t] = "create"
    /\ heap' = Append(heap, [vector |-> CreateAttributeVectorWithValueIds(segment),
                             refs   |-> 1])
    /\ local' = [local EXCEPT ![t] = Len(heap) + 1]
    /\ pc' = [pc EXCEPT ![t] = "take"]
    /\ UNCHANGED <<value_segment, segment, cache, previous, result, usage, faulted>>

\* The move assignment exchanges the field with the temporary and lets the
\* temporary go, with no lock around the three steps.  First the pointer
\* the field holds is read.
TakeValueIds(t) ==
    /\ pc[t] = "take"
    /\ previous' = [previous EXCEPT ![t] = cache]
    /\ pc' = [pc EXCEPT ![t] = "store"]
    /\ UNCHANGED <<value_segment, segment, cache, heap, local, result, usage, faulted>>

\* Then the field is given the new vector, and with it the one reference
\* the temporary had.
StoreValueIds(t) ==
    /\ pc[t] = "store"
    /\ cache' = local[t]
    /\ pc' = [pc EXCEPT ![t] = "release"]
    /\ UNCHANGED <<value_segment, segment, heap, local, previous, result, usage, faulted>>

ReleaseValueIds(t) ==
    /\ pc[t] = "release"
    /\ heap' = Release(heap, previous[t])
    /\ faulted' = IF Freed(previous[t]) THEN faulted \cup {t} ELSE faulted
    /\ previous' = [previous EXCEPT ![t] = nullptr]
    /\ pc' = [pc EXCEPT ![t] = "load"]
    /\ UNCHANGED <<value_segment, segment, cache, local, result, usage>>

\* return _attribute_vector_with_value_ids, first half: the pointer is read.
LoadCache(t) ==
    /\ pc[t] = "load"
    /\ local' = [local EXCEPT ![t] = cache]
    /\ pc' = [pc EXCEPT ![t] = "acquire"]
    /\ UNCHANGED <<value_segment, segment, cache, heap, previous, result, usage, faulted>>

\* Second half: the copy takes a reference to that vector, freed or not.
AcquireResult(t) ==
    /\ pc[t] = "acquire"
    /\ IF Freed(local[t])
       THEN faulted' = faulted \cup {t} /\ heap' = heap
       ELSE faulted' = faulted /\ heap' = Acquire(heap, local[t])
    /\ result' = [result EXCEPT ![t] = local[t]]
    /\ local' = [local EXCEPT ![t] = nullptr]
    /\ pc' = [pc EXCEPT ![t] = "idle"]
    /\ UNCHANGED <<value_segment, segment, cache, previous, usage>>

\* The caller lets go of the vector it was given.
DropResult(t) ==
    /\ pc[t] = "idle"
    /\ result[t] # nullptr
    /\ heap' = Release(heap, result[t])
    /\ result' = [result EXCEPT ![t] = nullptr]
    /\ UNCHANGED <<value_segment, segment, cache, local, previous, pc, usage, faulted>>

\* memory_usage(), the test of the field: without a cached vector the call
\* returns at once, with one it goes on to ask the vector for its size.
MemoryUsageCheck(t) ==
    /\ pc[t] = "idle"
    /\ \/ /\ cache = nullptr
          /\ usage' = [usage EXCEPT ![t] = memory_usage(segment, 0)]
          /\ pc' = pc
       \/ /\ cache # nullptr
          /\ usage' = usage
          /\ pc' = [pc EXCEPT ![t] = "reload"]
    /\ UNCHANGED <<value_segment, segment, cache, heap, local, previous, result, faulted>>

\* memory_usage(), operator-> of the field: the pointer is read a second
\* time, and is the one of the vector cached by now.
MemoryUsageLoad(t) ==
    /\ pc[t] = "reload"
    /\ local' = [local EXCEPT ![t] = cache]
    /\ pc' = [pc EXCEPT ![t] = "data_size"]
    /\ UNCHANGED <<value_segment, segment, cache, heap, previous, result, usage, faulted>>

\* memory_usage(), data_size() of the vector that pointer names.
MemoryUsageDataSize(t) ==
    /\ pc[t] = "data_size"
    /\ faulted' = IF Freed(local[t]) THEN faulted \cup {t} ELSE faulted
    /\ usage' = [usage EXCEPT
                    ![t] = memory_usage(segment, DataSize(heap[local[t]].vector))]
    /\ local' = [local EXCEPT ![t] = nullptr]
    /\ pc' = [pc EXCEPT ![t] = "idle"]
    /\ UNCHANGED <<value_segment, segment, cache, heap, previous, result>>

Step(t) ==
    \/ CallAttributeVector(t)
    \/ CheckCache(t)
    \/ CreateValueIds(t)
    \/ TakeValueIds(t)
    \/ StoreValueIds(t)
    \/ ReleaseValueIds(t)
    \/ LoadCache(t)
    \/ AcquireResult(t)
    \/ DropResult(t)
    \/ MemoryUsageCheck(t)
    \/ MemoryUsageLoad(t)
    \/ MemoryUsageDataSize(t)

Next == \E t \in Threads : Step(t)

\* A thread inside a call runs on: nothing in either call waits.
InCall(t) ==
    \/ CheckCache(t)
    \/ CreateValueIds(t)
    \/ TakeValueIds(t)
    \/ StoreValueIds(t)
    \/ ReleaseValueIds(t)
    \/ LoadCache(t)
    \/ AcquireResult(t)
    \/ MemoryUsageLoad(t)
    \/ MemoryUsageDataSize(t)

Fairness == \A t \in Threads : WF_vars(InCall(t))

Spec == Init /\ [][Next]_vars

FairSpec == Spec /\ Fairness

-----------------------------------------------------------------------------
(***************************************************************************)
(* What is checked of the read-only operations.  Each property speaks of   *)
(* the segment and of the rows it was encoded from.                        *)
(***************************************************************************)

PCs ==
    {"idle", "check", "create", "take", "store", "release", "load", "acquire",
     "reload", "data_size"}

TypeOK ==
    /\ value_segment \in ValueSegments
    /\ segment.attribute_vector \in CompressedVector
    /\ segment.dictionary \in Seq(Nat)
    /\ segment.offset_vector \in Seq(UInt32)
    /\ \A p \in DOMAIN heap :
          heap[p].vector \in CompressedVector /\ heap[p].refs \in Nat
    /\ cache \in 0..Len(heap)
    /\ pc \in [Threads -> PCs]
    /\ local \in [Threads -> 0..Len(heap)]
    /\ previous \in [Threads -> 0..Len(heap)]
    /\ \A t \in Threads :
          /\ pc[t] \in {"take", "store", "release", "acquire", "data_size"}
                => local[t] # nullptr
          /\ previous[t] # nullptr => pc[t] \in {"store", "release"}
    /\ result \in [Threads -> 0..Len(heap)]
    /\ usage \in [Threads -> Nat]
    /\ faulted \subseteq Threads

DistinctValues == Range(value_segment) \ {NULL_VALUE}

\* operator[] gives back, row by row, the column the segment was encoded
\* from: the string that get_typed_value reads at the row's blob offset is
\* the row's string, and a row at the end of the blob is NULL.
RoundTrip ==
    \A row \in DOMAIN value_segment :
        OperatorAt(segment, row - 1) = value_segment[row]

\* lower_bound(value) is the number of distinct values below value, that is
\* the id of the first dictionary entry not less than it, and
\* INVALID_VALUE_ID when every entry is less: the binary search over the
\* offset vector, which compares strings read from the blob, finds the
\* boundary a scan of the column's values finds.
LowerBoundIsFirstNotLess ==
    \A value \in Strings :
        LET below == Cardinality({v \in DistinctValues : StringLess(v, value)})
        IN  lower_bound(segment, value) =
                IF below = Cardinality(DistinctValues) THEN INVALID_VALUE_ID ELSE below

\* upper_bound(value) is the number of distinct values not above value, that
\* is the id of the first dictionary entry greater than it, and
\* INVALID_VALUE_ID when no entry is greater.
UpperBoundIsFirstGreater ==
    \A value \in Strings :
        LET not_above == Cardinality({v \in DistinctValues : ~StringLess(value, v)})
        IN  upper_bound(segment, value) =
                IF not_above = Cardinality(DistinctValues) THEN INVALID_VALUE_ID ELSE not_above

\* The value ids that _create_attribute_vector_with_value_ids computes from
\* the offsets decode, through value_of_value_id, to the rows of the column:
\* the offset-based and the id-based attribute vector name the same values,
\* the NULL value id included, also after the ids have been narrowed to the
\* width the compressor chose.
ValueIdsDecode ==
    LET value_ids == CreateAttributeVectorWithValueIds(segment)
    IN  /\ Size(value_ids) = size(segment)
        /\ \A row \in DOMAIN value_segment :
              value_of_value_id(segment, Get(value_ids, row - 1)) = value_segment[row]

-----------------------------------------------------------------------------
(***************************************************************************)
(* What is checked of the threads that share the segment.                  *)
(***************************************************************************)

BuildsAreBounded == Len(heap) <= Cardinality(Threads)

\* The value ids a reader can see through the field are those of the
\* abstract specification: absent at first, then the rank of every row's
\* value, and never different afterwards, whichever thread's vector the
\* field points to.
Abstract ==
    INSTANCE LazyValueIds WITH
        ValueSegments <- ValueSegments,
        Less <- StringLess,
        value_ids <- IF cache = nullptr
                     THEN [built |-> FALSE, ids |-> <<>>]
                     ELSE [built |-> TRUE, ids |-> heap[cache].vector.data]

ImplementsLazyValueIds == Abstract!Spec

\* A call of attribute_vector() leads to a cached vector: a thread that has
\* entered the call either finds the field set or sets it itself.
CallLeadsToCachedValueIds ==
    \A t \in Threads : pc[t] = "check" ~> cache # nullptr

\* The field is published without a race: no thread reads or takes a
\* reference to a vector that has been freed (design document, section 5).
NoUseAfterFree == faulted = {}

=============================================================================
