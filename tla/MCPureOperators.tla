-------------------------- MODULE MCPureOperators --------------------------
(***************************************************************************)
(* The operators of the values that have no state of their own, on every   *)
(* operand a small universe holds: row ids, sort column definitions,       *)
(* unique column combinations, export nodes, CASE expressions, and the     *)
(* segments and position lists the resolve functions dispatch on.  A state *)
(* is the operands a client has built, in a debug or a release build; a    *)
(* step builds another operand in place of one of them.                    *)
(***************************************************************************)
EXTENDS Naturals, Sequences, FiniteSets, SequencesExt

CONSTANTS
    Uint32Bits,     \* bits of uint32_t; 32 in the code
    SizeBits        \* bits of size_t; 64 in the code

VARIABLES
    HYRISE_DEBUG,   \* the build
    operands        \* the class of the operands and the operands

vars == <<HYRISE_DEBUG, operands>>

MCExpressionHash == [a |-> 1, b |-> 2, c |-> 3]

MCFileNames == {"f", "g"}

MCValueHash == [f |-> 1, g |-> 2, Csv |-> 0, Tbl |-> 1, Binary |-> 2, Auto |-> 3]

MCHashCombine(seed, value) == (5 * seed + MCValueHash[value] + 1) % 2^(2 * SizeBits)

\* Two expressions of another class: a column of each data type.
MCLeaves == {[type |-> "LQPColumn", data_type |-> data_type] : data_type \in {"Int", "Double"}}

MCLeafDataType == [leaf \in MCLeaves |-> leaf.data_type]

MCCommonType(lhs, rhs) == IF lhs = rhs THEN lhs ELSE "Double"

MCDataTypePairs ==
    <<<<"Int", "int32_t">>, <<"Long", "int64_t">>, <<"Float", "float">>,
      <<"Double", "double">>, <<"String", "pmr_string">>>>

Ids == INSTANCE RowIds

Ucc == INSTANCE UniqueColumnCombination
           WITH Expressions <- DOMAIN MCExpressionHash, ExpressionHash <- MCExpressionHash

Export == INSTANCE ExportNode WITH FileNames <- MCFileNames, hash_combine <- MCHashCombine

Case == INSTANCE CaseExpression
            WITH LeafDataType <- MCLeafDataType, expression_common_type <- MCCommonType

Resolve == INSTANCE ResolveType
               WITH data_type_pairs <- MCDataTypePairs,
                    EncodedSegments <- {"DictionarySegment", "VariableStringDictionarySegment"}

-----------------------------------------------------------------------------

\* The CASE expressions over the expressions, and the expressions.
Nested(expressions) ==
    expressions \cup
        {Case!CaseExpression(when, then, otherwise) : when, then, otherwise \in expressions}

Types == {MCDataTypePairs[i][2] : i \in DOMAIN MCDataTypePairs}

\* A segment has the data type of its type.
Segments ==
    {[class |-> class, type |-> type, data_type |-> Resolve!data_type_from_type(type)] :
        class \in {"ValueSegment", "ReferenceSegment", "DictionarySegment",
                   "VariableStringDictionarySegment"},
        type \in Types}

\* The operands a client holds of each class, each from its own set.
Universe ==
    [RowID                   |-> <<Ids!RowID, Ids!RowID, Ids!RowID>>,
     SortColumnDefinition    |-> LET definitions == [column : Ids!ColumnID, sort_mode : Ids!SortMode]
                                 IN  <<definitions, definitions>>,
     UniqueColumnCombination |-> LET combinations ==
                                         {Ucc!UniqueColumnCombination(init_expressions) :
                                             init_expressions \in Ucc!ExpressionUnorderedSet}
                                 IN  <<combinations, combinations>>,
     ExportNode              |-> LET nodes == {Export!ExportNode(file_name, file_type) :
                                                 file_name \in MCFileNames,
                                                 file_type \in Export!FileType}
                                 IN  <<nodes, nodes>>,
     CaseExpression          |-> <<Nested(Nested(MCLeaves)),
                                   Nested(MCLeaves)>>,
     Segment                 |-> <<Types, Segments>>,
     PosList                 |-> <<{"OnlyInDebugBuild", "Always"},
                                   {"nullptr", "RowIDPosList", "EntireChunkPosList"}>>]

Tuples(sets) ==
    IF Len(sets) = 3 THEN sets[1] \X sets[2] \X sets[3] ELSE sets[1] \X sets[2]

Init ==
    /\ HYRISE_DEBUG \in BOOLEAN
    /\ \E class \in DOMAIN Universe :
          operands \in [class : {class}, values : Tuples(Universe[class])]

Build ==
    /\ \E i \in DOMAIN operands.values :
          \E value \in Universe[operands.class][i] :
              operands' = [operands EXCEPT !.values[i] = value]
    /\ UNCHANGED HYRISE_DEBUG

Next == Build

Spec == Init /\ [][Next]_vars

-----------------------------------------------------------------------------

Holds(class) == operands.class = class

\* The operands, by their place.
lhs == operands.values[1]

rhs == operands.values[2]

third == operands.values[3]

\* operator< of RowID is a strict total order that agrees with operator==,
\* as the maps of the joins need of their keys: of two row ids exactly one
\* is less or they are equal, less carries over a row id between, and no
\* row id is above NULL_ROW_ID, which is_null knows by its chunk offset.
RowIdOrderIsStrictTotal ==
    Holds("RowID") =>
        /\ Cardinality({order \in {"less", "greater", "equal"} :
                \/ order = "less" /\ Ids!RowIdLess(lhs, rhs)
                \/ order = "greater" /\ Ids!RowIdLess(rhs, lhs)
                \/ order = "equal" /\ Ids!RowIdEquals(lhs, rhs)}) = 1
        /\ Ids!RowIdLess(lhs, rhs) /\ Ids!RowIdLess(rhs, third) => Ids!RowIdLess(lhs, third)
        /\ Ids!RowIdEquals(lhs, rhs) <=> lhs = rhs
        /\ ~Ids!RowIdLess(Ids!NULL_ROW_ID, lhs)
        /\ Ids!RowIdEquals(lhs, Ids!NULL_ROW_ID) => Ids!is_null(lhs)
        /\ Ids!is_null(Ids!DefaultRowID)

\* Two sort column definitions and two export nodes are equal exactly when
\* all their members are; an export node equals its copy, and equal nodes
\* have the same hash and the same description, as the plan cache needs of
\* _on_shallow_hash and _on_shallow_equals.
EqualValuesAreAlike ==
    /\ Holds("SortColumnDefinition") =>
          /\ Ids!SortColumnDefinitionEquals(lhs, rhs) <=> lhs = rhs
          /\ Ids!SortColumnDefinition(lhs.column).sort_mode = "Ascending"
    /\ Holds("ExportNode") =>
          /\ Export!_on_shallow_equals(lhs, Export!_on_shallow_copy(lhs))
          /\ Export!_on_shallow_equals(lhs, rhs) =>
                /\ Export!_on_shallow_hash(lhs) = Export!_on_shallow_hash(rhs)
                /\ Export!description(lhs) = Export!description(rhs)
          /\ Export!description(lhs) = Export!description(rhs) => lhs = rhs

Constructed == Ucc!Fail \notin Range(operands.values)

\* operator== of two unique column combinations is the equality of their
\* sets of expressions, whatever the order in which the two sets iterate
\* and whichever of the two is asked, and operator!= is its negation
\* although it asks the other way round; only the empty combination
\* cannot be constructed.
UccEqualityIsSetEquality ==
    Holds("UniqueColumnCombination") =>
        /\ lhs = Ucc!Fail <=> lhs = Ucc!UniqueColumnCombination(<<>>)
        /\ Constructed =>
              /\ Ucc!Equals(lhs, rhs) <=> ToSet(lhs.expressions) = ToSet(rhs.expressions)
              /\ Ucc!NotEquals(lhs, rhs) <=> ~Ucc!Equals(lhs, rhs)

\* Equal unique column combinations have the same hash, as an unordered
\* set of them needs: hash() does not depend on the order in which the
\* expressions iterate, also where the subtraction of the size wraps.
EqualUccsHashEqually ==
    Holds("UniqueColumnCombination") /\ Constructed =>
        (Ucc!Equals(lhs, rhs) => Ucc!std_hash(lhs) = Ucc!std_hash(rhs))

\* The deep copy of a CASE expression, nested or not, has the arguments of
\* the original in their places, and with them its description and data
\* type; the description tells two CASE expressions apart, and
\* _shallow_equals has nothing left to compare.
CaseCopyKeepsTheArguments ==
    Holds("CaseExpression") =>
        /\ Case!deep_copy(lhs) = lhs
        /\ Case!description(Case!deep_copy(lhs)) = Case!description(lhs)
        /\ Case!data_type(Case!deep_copy(lhs)) = Case!data_type(lhs)
        /\ Case!description(lhs) = Case!description(rhs) => lhs = rhs
        /\ Case!IsCase(lhs) => Case!_shallow_equals(lhs)

\* resolve_data_and_segment_type calls the functor once, with the type of
\* the segment and the segment under its own class and type, in both
\* builds; and resolve_segment_type, asked with another type than the
\* segment's, fails on a value segment rather than hand it on under that
\* type.
SegmentsReachTheirOwnType ==
    Holds("Segment") =>
        LET ColumnDataType == lhs
            segment        == rhs
            typed          == IF segment.class = "ReferenceSegment"
                              THEN <<segment.class>>
                              ELSE <<segment.class, segment.type>>
        IN  /\ Resolve!resolve_data_and_segment_type(segment)
                  = Resolve!Functor(<<<<segment.type, typed>>>>)
            /\ segment.class = "ValueSegment" /\ ColumnDataType # segment.type
                  => Resolve!resolve_segment_type(ColumnDataType, segment) = Resolve!Fail

\* data_type_from_type and resolve_data_type undo each other: the DataType
\* of a type resolves to that type and to no other.
DataTypeRoundTrip ==
    Holds("Segment") =>
        Resolve!resolve_data_type(Resolve!data_type_from_type(lhs)) = Resolve!Functor(<<lhs>>)

\* resolve_pos_list_type calls the functor once and never fails on a
\* position list of either class nor on a null pointer: the functor gets
\* the list under its class, a null pointer as a null RowIDPosList, and
\* the list as it came where the type is erased.
PosListsKeepTheirClass ==
    Holds("PosList") =>
        LET erased == HYRISE_DEBUG \/ lhs = "Always"
            class  == IF erased THEN "AbstractPosList"
                      ELSE IF rhs = "nullptr" THEN "RowIDPosList" ELSE rhs
        IN  Resolve!resolve_pos_list_type(lhs, rhs) = Resolve!Functor(<<<<class, rhs>>>>)

=============================================================================
