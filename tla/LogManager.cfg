\* Three threads that log two messages each under two reporter names,
\* while the clock shows three different times: calls overtake each other
\* between the read of the clock and the append, two calls can read the
\* same time, and two threads can report under one name.
SPECIFICATION Spec
CONSTANTS
    Threads = {t1, t2, t3}
    Reporters = {r1, r2}
    MaxMessages = 2
    MaxTime = 2
INVARIANTS
    TypeOK
    LateEntriesAreBounded
CHECK_DEADLOCK FALSE
