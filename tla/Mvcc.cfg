\* Three transactions on two rows, one of them loaded: every interleaving of
\* their steps, under weak fairness of the steps of a commit or a rollback
\* under way.
SPECIFICATION FairSpec
CONSTANTS
    Transactions = {t1, t2, t3}
    Rows = {r1, r2}
    LoadedRows = {r1}
    CommitIdBits = 4
INVARIANTS
    TypeOK
    ActiveSnapshotsAreExact
    CommitsAreAtomicallyVisible
    FirstWriterWins
    ReadersSeeTheirSnapshot
PROPERTIES
    SnapshotIsStable
    ImplementsSnapshotHistory
    CommitBecomesVisible
CHECK_DEADLOCK FALSE
