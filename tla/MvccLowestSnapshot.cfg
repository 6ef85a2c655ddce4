\* Is every row that a transaction still sees above what
\* get_lowest_active_snapshot_commit_id returns?
SPECIFICATION Spec
CONSTANTS
    Transactions = {t1, t2, t3}
    Rows = {r1, r2}
    LoadedRows = {r1}
    CommitIdBits = 4
INVARIANT
    LowestSnapshotGatesCleanup
CHECK_DEADLOCK FALSE
