\* The unit tests of the segment, on the value segments they encode, with
\* bytes of seven bits (the widest the 32-bit integers of TLC allow for the
\* four-byte types).
SPECIFICATION Spec
CONSTANTS
    ByteBits = 7
    NULL_VALUE = NULL_VALUE
    Strings = {}
    MaxRows = 0
    Threads = {t1, t2}
    ValueSegments <- TestValueSegments
INVARIANTS
    EncoderTestsPass
    LookupTestsPass
    MemoryUsageTestPasses
