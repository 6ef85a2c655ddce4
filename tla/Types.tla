------------------------------- MODULE Types -------------------------------
(***************************************************************************)
(* The commit and transaction ids of types.hpp.  CommitID is an unsigned   *)
(* integer of CommitIdBits bits, 32 in the code; a smaller width brings    *)
(* MAX_COMMIT_ID within reach of a model.                                  *)
(***************************************************************************)
EXTENDS Naturals

CONSTANT CommitIdBits

ASSUME CommitIdBits \in 2..30

\* "The commit id 0 is used for loading data into a table."
UNSET_COMMIT_ID == 0

\* "The first commit id that is used for a transaction is 1."
INITIAL_COMMIT_ID == 1

\* "The last commit id is reserved for uncommitted changes."
MAX_COMMIT_ID == 2^CommitIdBits - 2

\* "TransactionID = 0 means not set in the MVCC data."
INVALID_TRANSACTION_ID == 0

INITIAL_TRANSACTION_ID == 1

=============================================================================
