\* Two threads on one segment: every interleaving of the steps of
\* attribute_vector() and memory_usage().
SPECIFICATION FairSpec
CONSTANTS
    ByteBits = 1
    NULL_VALUE = NULL_VALUE
    Strings <- MCStrings
    MaxRows = 2
    Threads = {t1, t2}
INVARIANTS
    
    BuildsAreBounded
PROPERTIES
    ImplementsLazyValueIds
    CallLeadsToCachedValueIds
