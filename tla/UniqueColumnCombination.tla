---------------------- MODULE UniqueColumnCombination ----------------------
(***************************************************************************)
(* UniqueColumnCombination (unique_column_combination.cpp): a set of       *)
(* column expressions with equality and a hash, to be kept in unordered    *)
(* sets.  An ExpressionUnorderedSet is the sequence in which it is         *)
(* iterated: the same expressions can come in any order, which depends on  *)
(* how the set was filled.  size_t has SizeBits bits, 64 in the code.      *)
(***************************************************************************)
EXTENDS Naturals, Sequences, SequencesExt, Bitwise

CONSTANTS
    Expressions,        \* the column expressions
    ExpressionHash,     \* AbstractExpression::hash() of each
    SizeBits

ASSUME ExpressionHash \in [Expressions -> 0..2^SizeBits - 1]

SizeT(n) == n % 2^SizeBits

ExpressionUnorderedSet == UNION {SetToSeqs(set) : set \in SUBSET Expressions}

Fail == [failed |-> TRUE]

\* The constructor: "UniqueColumnCombination cannot be empty."
UniqueColumnCombination(init_expressions) ==
    IF init_expressions # <<>> THEN [expressions |-> init_expressions] ELSE Fail

\* The mutation: the sizes are not compared.
Equals_without_sizes(ucc, rhs) ==
    \A i \in DOMAIN ucc.expressions : Contains(rhs.expressions, ucc.expressions[i])

\* operator==
Equals(ucc, rhs) ==
    /\ Len(ucc.expressions) = Len(rhs.expressions)
    /\ \A i \in DOMAIN ucc.expressions : Contains(rhs.expressions, ucc.expressions[i])

\* operator!=
NotEquals(ucc, rhs) == ~Equals(rhs, ucc)

\* The mutation: the hashes are combined by an operator that does not
\* commute.
Combine_shifted(hash, expression) == SizeT(2 * hash + ExpressionHash[expression])

\* "To make the hash independent of the expressions' order, we have to use
\* a commutative operator like XOR."
Combine(hash, expression) == hash ^^ ExpressionHash[expression]

\* hash(): the subtraction wraps around when the size is the greater;
\* std::hash<size_t> gives its argument in libstdc++ and libc++.
hash(ucc) ==
    SizeT(FoldLeft(Combine, 0, ucc.expressions) + 2^SizeBits - Len(ucc.expressions))

\* std::hash<UniqueColumnCombination>
std_hash(ucc) == hash(ucc)

=============================================================================
