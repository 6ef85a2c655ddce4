------------------------- MODULE MCSQLiteTestRunner -------------------------
(***************************************************************************)
(* The SQLite test runner for model checking: two tables, three encodings  *)
(* and three queries, one that only reads, one that modifies one table     *)
(* and one that modifies both.  The result cache holds two results, so     *)
(* that the third query evicts one.                                        *)
(***************************************************************************)
EXTENDS SQLiteTestRunner

MCQueries == {"select", "insert", "update"}

MCModifies ==
    [q \in MCQueries |->
        CASE q = "select" -> {}
          [] q = "insert" -> {"a"}
          [] q = "update" -> {"a", "b"}]

\* Any test can fail.
MCAnyTest == MCQueries \X Encodings

=============================================================================
