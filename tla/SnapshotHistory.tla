--------------------------- MODULE SnapshotHistory ---------------------------
(***************************************************************************)
(* What the transaction manager and the MVCC columns promise a client      *)
(* (transaction_manager.hpp, "MVCC overview"), without transaction ids,    *)
(* row marks, commit contexts or the multiset: the table has one state for *)
(* every commit id, "the last commit id ... represents the current global  *)
(* visibility of records", a commit adds one state and leaves the earlier  *)
(* ones as they are, and a transaction context "retains a copy of the      *)
(* current last commit ID ... which represents a snapshot of the           *)
(* database" until the transaction ends.                                   *)
(***************************************************************************)
EXTENDS Naturals, Sequences, SequencesExt

CONSTANTS
    Transactions,           \* the clients
    Rows,                   \* the row slots of the table
    LoadedRows              \* the rows loaded as initial data

VARIABLES
    states,                 \* states[c + 1]: the rows of the table as of commit id c
    snapshot                \* the commit id every transaction under way reads at

Init ==
    /\ states = <<LoadedRows>>
    /\ snapshot = <<>>

\* A transaction begins on the state of the last commit.
Begin(t) ==
    /\ t \notin DOMAIN snapshot
    /\ snapshot' = [u \in DOMAIN snapshot \cup {t} |->
                       IF u = t THEN Len(states) - 1 ELSE snapshot[u]]
    /\ UNCHANGED states

\* A transaction ends, committed or rolled back.
End(t) ==
    /\ t \in DOMAIN snapshot
    /\ snapshot' = [u \in DOMAIN snapshot \ {t} |-> snapshot[u]]
    /\ UNCHANGED states

\* A commit becomes visible: the next state is the last one without the
\* rows the commit deletes, which were there, and with the rows it inserts,
\* which no state held before.
Commit ==
    LET last == Last(states)
        new  == Rows \ UNION ToSet(states)
    IN  /\ \E deleted \in SUBSET last, inserted \in SUBSET new :
               states' = Append(states, (last \ deleted) \cup inserted)
        /\ UNCHANGED snapshot

Next ==
    \/ \E t \in Transactions : Begin(t) \/ End(t)
    \/ Commit

Spec == Init /\ [][Next]_<<states, snapshot>>

=============================================================================
