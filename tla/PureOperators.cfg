\* Every operand of a universe of 16 row ids, 4 sort column definitions,
\* the 16 unique column combinations over three expressions, 8 export
\* nodes, the CASE expressions of depth two over two leaves, 20 segments
\* and 3 position lists, in a debug and in a release build.
SPECIFICATION Spec
CONSTANTS
    Uint32Bits = 2
    SizeBits = 2
INVARIANTS
    RowIdOrderIsStrictTotal
    EqualValuesAreAlike
    UccEqualityIsSetEquality
    EqualUccsHashEqually
    CaseCopyKeepsTheArguments
    SegmentsReachTheirOwnType
    DataTypeRoundTrip
    PosListsKeepTheirClass
