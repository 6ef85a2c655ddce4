---------------------------- MODULE LazyValueIds ----------------------------
(***************************************************************************)
(* What a dictionary segment promises of attribute_vector(): the value ids *)
(* of the column's rows, which are a function of the rows alone, come into *)
(* being once and never change afterwards.  Nothing here speaks of         *)
(* offsets, blobs, pointers or threads.                                    *)
(*                                                                         *)
(* The value id of a row is the rank of its value among the distinct       *)
(* non-null values of the column; NULL has the number of distinct values   *)
(* as its id.                                                              *)
(***************************************************************************)
EXTENDS Naturals, Sequences, FiniteSets

CONSTANTS
    ValueSegments,  \* the columns a segment can be built from
    NULL_VALUE,     \* the value of a row that holds nothing
    Less(_, _)      \* the order of the values

VARIABLES
    value_segment,  \* the rows of the column
    value_ids       \* whether the value ids exist, and what they are

DistinctValues(rows) == {rows[r] : r \in DOMAIN rows} \ {NULL_VALUE}

ValueIdOf(rows, r) ==
    IF rows[r] = NULL_VALUE
    THEN Cardinality(DistinctValues(rows))
    ELSE Cardinality({v \in DistinctValues(rows) : Less(v, rows[r])})

NotMaterialized == [built |-> FALSE, ids |-> <<>>]

Materialized(rows) ==
    [built |-> TRUE, ids |-> [r \in DOMAIN rows |-> ValueIdOf(rows, r)]]

Init ==
    /\ value_segment \in ValueSegments
    /\ value_ids = NotMaterialized

Materialize ==
    /\ ~value_ids.built
    /\ value_ids' = Materialized(value_segment)
    /\ UNCHANGED value_segment

Next == Materialize

Spec == Init /\ [][Next]_<<value_segment, value_ids>>

=============================================================================
