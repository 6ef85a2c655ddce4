\* Can a thread reach a value-id vector that another thread's assignment
\* has freed?
SPECIFICATION Spec
CONSTANTS
    ByteBits = 1
    NULL_VALUE = NULL_VALUE
    Strings <- MCStrings
    MaxRows = 1
    Threads = {t1, t2, t3}
INVARIANT
    NoUseAfterFree
