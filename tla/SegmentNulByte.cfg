\* Does operator[] give back a string that holds a NUL byte?
SPECIFICATION Spec
CONSTANTS
    ByteBits = 1
    NULL_VALUE = NULL_VALUE
    Strings <- MCStringsWithNul
    MaxRows = 2
    Threads = {t1}
INVARIANT
    RoundTrip
