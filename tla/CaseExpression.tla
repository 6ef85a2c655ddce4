--------------------------- MODULE CaseExpression ---------------------------
(***************************************************************************)
(* CaseExpression (case_expression.cpp): CASE WHEN when THEN then ELSE     *)
(* otherwise END, an expression over three expressions.  The expressions   *)
(* of the other classes are its leaves; a CASE can stand wherever a leaf    *)
(* can.                                                                    *)
(***************************************************************************)
EXTENDS Naturals, Sequences

CONSTANTS
    LeafDataType,                   \* data_type() of the expressions of the other classes
    expression_common_type(_, _)    \* expression_utils.hpp

VARIABLE HYRISE_DEBUG               \* the build: DebugAssert is compiled in

CaseExpression(when, then, otherwise) ==
    [type |-> "Case", arguments |-> <<when, then, otherwise>>]

IsCase(expression) == expression.type = "Case"

when(expression) == expression.arguments[1]

then(expression) == expression.arguments[2]

otherwise(expression) == expression.arguments[3]

RECURSIVE description(_), data_type(_), deep_copy(_), deep_copy_swapped(_)

description(expression) ==
    IF IsCase(expression)
    THEN <<"CASE WHEN">> \o description(when(expression))
            \o <<"THEN">> \o description(then(expression))
            \o <<"ELSE">> \o description(otherwise(expression)) \o <<"END">>
    ELSE <<expression>>

data_type(expression) ==
    IF IsCase(expression)
    THEN expression_common_type(data_type(then(expression)),
                                data_type(otherwise(expression)))
    ELSE LeafDataType[expression]

\* The mutation: then and otherwise change places.
deep_copy_swapped(expression) ==
    IF IsCase(expression)
    THEN CaseExpression(deep_copy_swapped(when(expression)),
                        deep_copy_swapped(otherwise(expression)),
                        deep_copy_swapped(then(expression)))
    ELSE expression

\* _on_deep_copy
deep_copy(expression) ==
    IF IsCase(expression)
    THEN CaseExpression(deep_copy(when(expression)), deep_copy(then(expression)),
                        deep_copy(otherwise(expression)))
    ELSE expression

\* "Different expression type should have been caught by
\* AbstractExpression::operator==": true of a CASE, a failed DebugAssert of
\* another expression, and true again where DebugAssert is compiled out.
_shallow_equals(expression) ==
    IF HYRISE_DEBUG /\ ~IsCase(expression) THEN "Fail" ELSE TRUE

=============================================================================
