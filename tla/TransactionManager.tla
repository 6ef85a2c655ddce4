------------------------- MODULE TransactionManager -------------------------
(***************************************************************************)
(* The transaction manager and the MVCC data of the rows                   *)
(* (transaction_manager.hpp, types.hpp; spec.md, sections 4.4 and 5).      *)
(*                                                                         *)
(* The manager hands out transaction ids and snapshots, keeps the multiset *)
(* of the snapshots in use, grants commit ids and makes commits visible in *)
(* the order of their ids.  Every row carries begin_cid, end_cid and       *)
(* tx_id; a reader sees a row or not by its snapshot and its own id.       *)
(*                                                                         *)
(* The sources hold the declarations and the id constants only.  The       *)
(* constants are taken from types.hpp, the steps of every operation from   *)
(* the design document.  Each transaction runs in a thread of its own, and *)
(* every access to a shared counter, to the multiset or to a row is a step *)
(* of its own.                                                             *)
(***************************************************************************)
EXTENDS Types, FiniteSets, FiniteSetsExt, Bags, BagsExt

CONSTANTS
    Transactions,           \* the clients; each runs one transaction
    Rows,                   \* the row slots of the table
    LoadedRows              \* the rows loaded as initial data

ASSUME
    /\ LoadedRows \subseteq Rows
    /\ INITIAL_COMMIT_ID + Cardinality(Transactions) < MAX_COMMIT_ID

VARIABLES
    next_transaction_id,            \* _next_transaction_id
    last_commit_id,                 \* _last_commit_id
    commit_contexts,                \* the chain of commit contexts: commit id |-> pending
    active_snapshot_commit_ids,     \* _active_snapshot_commit_ids, a bag
    mvcc_data,                      \* begin_cid, end_cid and tx_id of every row that exists
    transaction                     \* the transaction context of every client

vars == <<next_transaction_id, last_commit_id, commit_contexts,
          active_snapshot_commit_ids, mvcc_data, transaction>>

Phases == {"none", "allocated", "unregistered", "active", "rolling_back", "rolled_back",
           "committing", "advancing", "finishing", "committed"}

MvccData == [begin_cid : 0..MAX_COMMIT_ID, end_cid : 0..MAX_COMMIT_ID, tx_id : Nat]

\* The mutation: loaded rows bear the first commit id that is granted.
LoadedRow_initial_commit_id ==
    [begin_cid |-> INITIAL_COMMIT_ID, end_cid |-> MAX_COMMIT_ID, tx_id |-> INVALID_TRANSACTION_ID]

\* A row of the initial data: there "from the beginning of time".
LoadedRow ==
    [begin_cid |-> UNSET_COMMIT_ID, end_cid |-> MAX_COMMIT_ID, tx_id |-> INVALID_TRANSACTION_ID]

NoTransactionContext ==
    [phase |-> "none", transaction_id |-> INVALID_TRANSACTION_ID,
     snapshot_commit_id |-> UNSET_COMMIT_ID, commit_id |-> UNSET_COMMIT_ID,
     inserted |-> {}, deleted |-> {}]

Init ==
    /\ next_transaction_id = INITIAL_TRANSACTION_ID
    /\ last_commit_id = UNSET_COMMIT_ID
    /\ commit_contexts = <<>>
    /\ active_snapshot_commit_ids = EmptyBag
    /\ mvcc_data = [r \in LoadedRows |-> LoadedRow]
    /\ transaction = [t \in Transactions |-> NoTransactionContext]

-----------------------------------------------------------------------------
(***************************************************************************)
(* What a reader sees.                                                     *)
(***************************************************************************)

\* The mutation: a deletion committed at the snapshot is not yet seen.
Visible_deleted_at_snapshot(row, snapshot_commit_id, transaction_id) ==
    /\ row.begin_cid <= snapshot_commit_id \/ row.tx_id = transaction_id
    /\ row.end_cid >= snapshot_commit_id
    /\ ~(row.tx_id = transaction_id /\ row.end_cid # MAX_COMMIT_ID)

\* The visibility predicate of a reader with a snapshot and a transaction id.
Visible(row, snapshot_commit_id, transaction_id) ==
    /\ row.begin_cid <= snapshot_commit_id \/ row.tx_id = transaction_id
    /\ row.end_cid > snapshot_commit_id
    /\ ~(row.tx_id = transaction_id /\ row.end_cid # MAX_COMMIT_ID)

\* The rows the Validate operator lets through for transaction t.
VisibleRows(t) ==
    {r \in DOMAIN mvcc_data :
        Visible(mvcc_data[r], transaction[t].snapshot_commit_id, transaction[t].transaction_id)}

NoCommitId == MAX_COMMIT_ID + 1

\* get_lowest_active_snapshot_commit_id: the minimum of the multiset, or nothing.
GetLowestActiveSnapshotCommitId ==
    IF active_snapshot_commit_ids = EmptyBag
    THEN NoCommitId
    ELSE Min(BagToSet(active_snapshot_commit_ids))

-----------------------------------------------------------------------------
(***************************************************************************)
(* new_transaction_context, in its three steps.                            *)
(***************************************************************************)

AllocateTransactionId(t) ==
    /\ transaction[t].phase = "none"
    /\ next_transaction_id' = next_transaction_id + 1
    /\ transaction' = [transaction EXCEPT ![t].phase = "allocated",
                                          ![t].transaction_id = next_transaction_id + 1]
    /\ UNCHANGED <<last_commit_id, commit_contexts, active_snapshot_commit_ids, mvcc_data>>

\* The mutation: the snapshot is the commit id after the last visible one.
SnapshotCommitId_next == last_commit_id + 1

\* The snapshot is the last commit id at the time it is read.
SnapshotCommitId == last_commit_id

ReadSnapshot(t) ==
    /\ transaction[t].phase = "allocated"
    /\ transaction' = [transaction EXCEPT ![t].phase = "unregistered",
                                          ![t].snapshot_commit_id = SnapshotCommitId]
    /\ UNCHANGED <<next_transaction_id, last_commit_id, commit_contexts,
                   active_snapshot_commit_ids, mvcc_data>>

\* _register_transaction: the snapshot enters the multiset.
RegisterTransaction(t) ==
    /\ transaction[t].phase = "unregistered"
    /\ active_snapshot_commit_ids' =
           BagAdd(active_snapshot_commit_ids, transaction[t].snapshot_commit_id)
    /\ transaction' = [transaction EXCEPT ![t].phase = "active"]
    /\ UNCHANGED <<next_transaction_id, last_commit_id, commit_contexts, mvcc_data>>

\* The mutation: erase by value takes every equal snapshot out of the multiset.
DeregisterTransaction_erases_equal(t, phase) ==
    /\ active_snapshot_commit_ids' =
           BagRemoveAll(active_snapshot_commit_ids, transaction[t].snapshot_commit_id)
    /\ transaction' = [transaction EXCEPT ![t].phase = phase]

\* _deregister_transaction: one occurrence of the snapshot leaves the multiset.
DeregisterTransaction(t, phase) ==
    /\ active_snapshot_commit_ids' =
           BagRemove(active_snapshot_commit_ids, transaction[t].snapshot_commit_id)
    /\ transaction' = [transaction EXCEPT ![t].phase = phase]

-----------------------------------------------------------------------------
(***************************************************************************)
(* The read-write operators on the rows.                                   *)
(***************************************************************************)

\* The mutation: the row is inserted with the commit id of loaded data.
UncommittedBeginCid_unset == UNSET_COMMIT_ID

\* begin_cid of a row whose insertion has not committed: "the last commit id
\* is reserved for uncommitted changes".
UncommittedBeginCid == MAX_COMMIT_ID

\* A row is inserted into a free slot and marked with the transaction's id.
Insert(t, r) ==
    /\ transaction[t].phase = "active"
    /\ r \in Rows \ DOMAIN mvcc_data
    /\ mvcc_data' = [s \in DOMAIN mvcc_data \cup {r} |->
                        IF s = r
                        THEN [begin_cid |-> UncommittedBeginCid,
                              end_cid   |-> MAX_COMMIT_ID,
                              tx_id     |-> transaction[t].transaction_id]
                        ELSE mvcc_data[s]]
    /\ transaction' = [transaction EXCEPT ![t].inserted = @ \cup {r}]
    /\ UNCHANGED <<next_transaction_id, last_commit_id, commit_contexts,
                   active_snapshot_commit_ids>>

\* The mutation: the mark of another transaction is not looked at.
WriteConflict_ignores_mark(row, transaction_id) ==
    row.end_cid # MAX_COMMIT_ID

\* A write-write conflict: the row is marked by another transaction, or a
\* deletion of it has committed.
WriteConflict(row, transaction_id) ==
    \/ row.tx_id \notin {INVALID_TRANSACTION_ID, transaction_id}
    \/ row.end_cid # MAX_COMMIT_ID

\* A visible row is marked for deletion; on a conflict the transaction must
\* be rolled back.  The operator is not part of the sources: the test for a
\* conflict and the mark are taken to be one step, a compare-and-swap on
\* the row's transaction id, so what is examined is the order of the
\* writers, not a gap between a writer's test and its mark.
Delete(t, r) ==
    /\ transaction[t].phase = "active"
    /\ r \in VisibleRows(t)
    /\ IF WriteConflict(mvcc_data[r], transaction[t].transaction_id)
       THEN /\ transaction' = [transaction EXCEPT ![t].phase = "rolling_back"]
            /\ UNCHANGED mvcc_data
       ELSE /\ mvcc_data' = [mvcc_data EXCEPT ![r].tx_id = transaction[t].transaction_id]
            /\ transaction' = [transaction EXCEPT ![t].deleted = @ \cup {r}]
    /\ UNCHANGED <<next_transaction_id, last_commit_id, commit_contexts,
                   active_snapshot_commit_ids>>

\* The caller cancels the transaction before it commits.
Cancel(t) ==
    /\ transaction[t].phase = "active"
    /\ transaction' = [transaction EXCEPT ![t].phase = "rolling_back"]
    /\ UNCHANGED <<next_transaction_id, last_commit_id, commit_contexts,
                   active_snapshot_commit_ids, mvcc_data>>

\* Rollback unwinds the transaction's row marks, one row at a time.
UnwindRow(t, r) ==
    /\ transaction[t].phase = "rolling_back"
    /\ r \in transaction[t].inserted \cup transaction[t].deleted
    /\ mvcc_data' = [mvcc_data EXCEPT ![r].tx_id = INVALID_TRANSACTION_ID]
    /\ transaction' = [transaction EXCEPT ![t].inserted = @ \ {r}, ![t].deleted = @ \ {r}]
    /\ UNCHANGED <<next_transaction_id, last_commit_id, commit_contexts,
                   active_snapshot_commit_ids>>

\* The transaction ends without a commit id.
FinishRollback(t) ==
    /\ transaction[t].phase = "rolling_back"
    /\ transaction[t].inserted \cup transaction[t].deleted = {}
    /\ DeregisterTransaction(t, "rolled_back")
    /\ UNCHANGED <<next_transaction_id, last_commit_id, commit_contexts, mvcc_data>>

-----------------------------------------------------------------------------
(***************************************************************************)
(* The commit pipeline.                                                    *)
(***************************************************************************)

\* The commit id after that of the last context of the chain.
NextCommitId == Max(DOMAIN commit_contexts \cup {last_commit_id}) + 1

\* _new_commit_context: the next commit id in allocation order, pending.
NewCommitContext(t) ==
    /\ transaction[t].phase = "active"
    /\ LET commit_id == NextCommitId
       IN  /\ commit_contexts' =
                  [c \in DOMAIN commit_contexts \cup {commit_id} |->
                      IF c = commit_id THEN TRUE ELSE commit_contexts[c]]
           /\ transaction' = [transaction EXCEPT ![t].phase = "committing",
                                                 ![t].commit_id = commit_id]
    /\ UNCHANGED <<next_transaction_id, last_commit_id, active_snapshot_commit_ids,
                   mvcc_data>>

\* The row bears the commit id wherever the transaction wrote it.
Stamped(t, r) ==
    /\ r \in transaction[t].inserted => mvcc_data[r].begin_cid = transaction[t].commit_id
    /\ r \in transaction[t].deleted => mvcc_data[r].end_cid = transaction[t].commit_id

\* The commit id is written to a row the transaction inserted or deleted.
StampRow(t, r) ==
    /\ transaction[t].phase = "committing"
    /\ r \in transaction[t].inserted \cup transaction[t].deleted
    /\ ~Stamped(t, r)
    /\ LET ctx == transaction[t]
           row == mvcc_data[r]
       IN  mvcc_data' = [mvcc_data EXCEPT ![r] =
               [begin_cid |-> IF r \in ctx.inserted THEN ctx.commit_id ELSE row.begin_cid,
                end_cid   |-> IF r \in ctx.deleted THEN ctx.commit_id ELSE row.end_cid,
                tx_id     |-> IF r \in ctx.inserted THEN INVALID_TRANSACTION_ID
                              ELSE row.tx_id]]
    /\ UNCHANGED <<next_transaction_id, last_commit_id, commit_contexts,
                   active_snapshot_commit_ids, transaction>>

\* The transaction has finished writing: its context is no longer pending.
ClearPending(t) ==
    /\ transaction[t].phase = "committing"
    /\ \A r \in transaction[t].inserted \cup transaction[t].deleted : Stamped(t, r)
    /\ commit_contexts' = [commit_contexts EXCEPT ![transaction[t].commit_id] = FALSE]
    /\ transaction' = [transaction EXCEPT ![t].phase = "advancing"]
    /\ UNCHANGED <<next_transaction_id, last_commit_id, active_snapshot_commit_ids,
                   mvcc_data>>

\* The mutation: a context at the head is passed whether or not it is pending.
HeadFinished_ignores_pending(commit_id) ==
    commit_id \in DOMAIN commit_contexts

\* The head of the chain, the context after last_commit_id, has finished.
HeadFinished(commit_id) ==
    /\ commit_id \in DOMAIN commit_contexts
    /\ ~commit_contexts[commit_id]

\* The mutation: the loop ends once the transaction's own commit is visible.
TryIncrementLastCommitId_own_only(t) ==
    /\ transaction[t].phase = "advancing"
    /\ IF HeadFinished(last_commit_id + 1) /\ last_commit_id < transaction[t].commit_id
       THEN /\ last_commit_id' = last_commit_id + 1
            /\ UNCHANGED transaction
       ELSE /\ transaction' = [transaction EXCEPT ![t].phase = "finishing"]
            /\ UNCHANGED last_commit_id
    /\ UNCHANGED <<next_transaction_id, commit_contexts, active_snapshot_commit_ids,
                   mvcc_data>>

\* _try_increment_last_commit_id, one turn of its loop: while the head has
\* finished, last_commit_id becomes the head's id and the head moves on.
TryIncrementLastCommitId(t) ==
    /\ transaction[t].phase = "advancing"
    /\ IF HeadFinished(last_commit_id + 1)
       THEN /\ last_commit_id' = last_commit_id + 1
            /\ UNCHANGED transaction
       ELSE /\ transaction' = [transaction EXCEPT ![t].phase = "finishing"]
            /\ UNCHANGED last_commit_id
    /\ UNCHANGED <<next_transaction_id, commit_contexts, active_snapshot_commit_ids,
                   mvcc_data>>

\* The committed transaction's context goes away.
FinishCommit(t) ==
    /\ transaction[t].phase = "finishing"
    /\ DeregisterTransaction(t, "committed")
    /\ UNCHANGED <<next_transaction_id, last_commit_id, commit_contexts, mvcc_data>>

-----------------------------------------------------------------------------

\* The steps of a commit or a rollback under way: they wait for nobody.
Finish(t) ==
    \/ \E r \in Rows : StampRow(t, r) \/ UnwindRow(t, r)
    \/ ClearPending(t)
    \/ TryIncrementLastCommitId(t)
    \/ FinishCommit(t)
    \/ FinishRollback(t)

Step(t) ==
    \/ AllocateTransactionId(t)
    \/ ReadSnapshot(t)
    \/ RegisterTransaction(t)
    \/ \E r \in Rows : Insert(t, r) \/ Delete(t, r)
    \/ Cancel(t)
    \/ NewCommitContext(t)
    \/ Finish(t)

Next == \E t \in Transactions : Step(t)

Spec == Init /\ [][Next]_vars

Fairness == \A t \in Transactions : WF_vars(Finish(t))

FairSpec == Spec /\ Fairness

-----------------------------------------------------------------------------

HoldsSnapshot == {"unregistered", "active", "rolling_back", "committing", "advancing",
                  "finishing"}

Registered == HoldsSnapshot \ {"unregistered"}

TypeOK ==
    /\ next_transaction_id \in INITIAL_TRANSACTION_ID..INITIAL_TRANSACTION_ID + Cardinality(Transactions)
    /\ last_commit_id \in UNSET_COMMIT_ID..Cardinality(Transactions)
    /\ DOMAIN commit_contexts \subseteq INITIAL_COMMIT_ID..Cardinality(Transactions)
    /\ \A c \in DOMAIN commit_contexts : commit_contexts[c] \in BOOLEAN
    /\ IsABag(active_snapshot_commit_ids)
    /\ BagToSet(active_snapshot_commit_ids) \subseteq UNSET_COMMIT_ID..last_commit_id
    /\ DOMAIN mvcc_data \subseteq Rows
    /\ \A r \in DOMAIN mvcc_data : mvcc_data[r] \in MvccData
    /\ \A t \in Transactions :
          /\ transaction[t].phase \in Phases
          /\ transaction[t].inserted \cup transaction[t].deleted \subseteq DOMAIN mvcc_data
          /\ transaction[t].phase \in HoldsSnapshot =>
                transaction[t].snapshot_commit_id <= last_commit_id

\* The multiset holds the snapshot of every transaction between its
\* registration and its end, once for each: _register_transaction and
\* _deregister_transaction keep it "up to date" however the transactions
\* begin, commit and roll back around each other.  What
\* get_lowest_active_snapshot_commit_id returns is therefore at most the
\* snapshot of every registered transaction.  (A transaction that has read
\* its snapshot and not yet registered it is not covered.)
ActiveSnapshotsAreExact ==
    /\ \A c \in UNSET_COMMIT_ID..Cardinality(Transactions) :
          CopiesIn(c, active_snapshot_commit_ids) =
              Cardinality({t \in Transactions :
                              /\ transaction[t].phase \in Registered
                              /\ transaction[t].snapshot_commit_id = c})
    /\ \A t \in Transactions :
          transaction[t].phase \in Registered =>
              GetLowestActiveSnapshotCommitId <= transaction[t].snapshot_commit_id

\* get_lowest_active_snapshot_commit_id returns "the lowest snapshot-commit-id
\* currently used by a transaction", and the design document has it gate the
\* cleanup of old versions, so that a snapshot too old for it is "never
\* observed": while the multiset is not empty, no transaction that holds a
\* snapshot sees a row whose deletion was committed at or below the value
\* returned.
LowestSnapshotGatesCleanup ==
    active_snapshot_commit_ids # EmptyBag =>
        \A t \in Transactions :
            transaction[t].phase \in HoldsSnapshot =>
                \A r \in VisibleRows(t) :
                    mvcc_data[r].end_cid > GetLowestActiveSnapshotCommitId

\* The commit of writer is within the snapshot of reader.
Within(writer, reader) ==
    /\ transaction[writer].commit_id # UNSET_COMMIT_ID
    /\ transaction[writer].commit_id <= transaction[reader].snapshot_commit_id

\* Snapshot isolation, seen from a reader: for as long as a transaction is
\* active, the rows it sees change by its own writes only.  Whatever other
\* transactions insert, mark, stamp with their commit id or unwind, and
\* whenever last_commit_id moves, "the snapshot commit ID together with the
\* MVCC data is used to filter out any changes made after the creation" of
\* the transaction context.
SnapshotIsStable ==
    [][\A t \in Transactions :
          (transaction[t].phase = "active" /\ transaction'[t] = transaction[t])
              => VisibleRows(t)' = VisibleRows(t)]_vars

\* A commit becomes visible as a whole: to a transaction that holds a
\* snapshot, the rows another transaction wrote bear a commit id within the
\* snapshot exactly when that transaction's commit id is within it.  The
\* stamping of the rows, one at a time, is never seen half done, because
\* last_commit_id passes a context only after it has finished.
CommitsAreAtomicallyVisible ==
    \A reader, writer \in Transactions :
        (reader # writer /\ transaction[reader].phase \in HoldsSnapshot) =>
            LET snapshot == transaction[reader].snapshot_commit_id
            IN  /\ \A r \in transaction[writer].inserted :
                       (mvcc_data[r].begin_cid <= snapshot) <=> Within(writer, reader)
                /\ \A r \in transaction[writer].deleted :
                       (mvcc_data[r].end_cid <= snapshot) <=> Within(writer, reader)

\* What a reader sees is what had been committed when it took its snapshot:
\* the rows that were loaded or inserted by a transaction whose commit is
\* within the snapshot, without those deleted by such a transaction, and
\* its own insertions.  Neither the marks and commit ids of transactions
\* that commit later, nor what a rollback leaves behind in the MVCC data,
\* changes that; begin_cid, end_cid and tx_id are compared at the very
\* commit id of the snapshot too.  (The rows the reader itself has marked
\* for deletion are left out of the comparison.)
ReadersSeeTheirSnapshot ==
    \A reader \in Transactions :
        transaction[reader].phase \in {"unregistered", "active"} =>
            LET others    == Transactions \ {reader}
                committed == {r \in DOMAIN mvcc_data :
                                /\ \/ r \in LoadedRows
                                   \/ r \in transaction[reader].inserted
                                   \/ \E w \in others :
                                         r \in transaction[w].inserted /\ Within(w, reader)
                                /\ \A w \in others :
                                       ~(r \in transaction[w].deleted /\ Within(w, reader))}
            IN  VisibleRows(reader) \ transaction[reader].deleted
                    = committed \ transaction[reader].deleted

\* The first writer wins: no row is deleted by two transactions, whether they
\* are under way, committing or committed.  The conflict check of the
\* read-write operator sends the second one to its rollback.
FirstWriterWins ==
    \A t, u \in Transactions :
        t # u => transaction[t].deleted \cap transaction[u].deleted = {}

\* The rows of the table as of commit id c, by their commit ids alone.
CommittedRows(c) ==
    {r \in DOMAIN mvcc_data : mvcc_data[r].begin_cid <= c /\ c < mvcc_data[r].end_cid}

\* The MVCC columns and last_commit_id are a history of table states, one
\* for every visible commit id: _try_increment_last_commit_id adds a state
\* and nothing else does, no row that is marked, stamped or unwound changes
\* a state that is already visible, a commit deletes only rows that were
\* still there and inserts only rows that never were, and a new
\* transaction context takes the last state as its snapshot and keeps it
\* until _deregister_transaction.
History ==
    INSTANCE SnapshotHistory WITH
        states <- [i \in 1..last_commit_id + 1 |-> CommittedRows(i - 1)],
        snapshot <- [t \in {u \in Transactions : transaction[u].phase \in HoldsSnapshot} |->
                        transaction[t].snapshot_commit_id]

ImplementsSnapshotHistory == History!Spec

\* Every commit becomes visible: last_commit_id reaches, and then stays at
\* or above, the commit id of every transaction that has been granted a
\* commit context, also when the transaction finishes writing before one
\* with a lower commit id and leaves the loop of
\* _try_increment_last_commit_id without having moved anything.
CommitBecomesVisible ==
    \A t \in Transactions :
        <>[](transaction[t].commit_id # UNSET_COMMIT_ID
                => last_commit_id >= transaction[t].commit_id)

=============================================================================
