\* The read-only operations, on every segment the encoder builds from up to
\* four rows over four strings and NULL.  One thread is enough: the
\* properties are about the segment, which does not change.
SPECIFICATION Spec
CONSTANTS
    ByteBits = 1
    NULL_VALUE = NULL_VALUE
    Strings <- MCStrings
    MaxRows = 4
    Threads = {t1}
INVARIANTS
    TypeOK
    RoundTrip
    LowerBoundIsFirstNotLess
    UpperBoundIsFirstGreater
    ValueIdsDecode
CHECK_DEADLOCK TRUE
