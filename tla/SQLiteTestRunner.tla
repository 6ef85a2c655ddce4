-------------------------- MODULE SQLiteTestRunner --------------------------
(***************************************************************************)
(* The SQLite test runner (sqlite_testrunner.cpp): every query is run in   *)
(* Hyrise, once per encoding, and its result is compared with SQLite's.    *)
(* Tables are loaded once and kept in a cache per encoding; a query that   *)
(* modifies a table marks the cache entry dirty, and SetUp reloads dirty   *)
(* tables and resets the SQLite tables before the next query.              *)
(*                                                                         *)
(* A table is abstracted to whether it still holds what its file holds     *)
(* ("mint"), a query to the tables it modifies.  The tests run one after   *)
(* another; what is hard is the order of tests over encodings and the      *)
(* tests that fail half-way.                                               *)
(***************************************************************************)
EXTENDS Naturals, FiniteSets, Functions

CONSTANTS
    Encodings,              \* the encodings the suite is instantiated for
    Unencoded,              \* EncodingType::Unencoded
    Tables,                 \* the names in sqlite_testrunner.tables
    Queries,                \* the queries of sqlite_testrunner_queries.sql
    Modifies,               \* the tables a query modifies
    CanFail,                \* the tests (query, encoding) that can fail
    ResultCacheCapacity     \* capacity of _sqlite_result_cache; 10 in the code

ASSUME
    /\ Unencoded \in Encodings
    /\ Modifies \in [Queries -> SUBSET Tables]
    /\ CanFail \subseteq Queries \X Encodings
    /\ ResultCacheCapacity \in Nat \ {0}

VARIABLES
    suite_set_up,               \* between SetUpTestSuite and TearDownTestSuite
    table_cache_per_encoding,   \* _table_cache_per_encoding
    sqlite_modified,            \* the SQLite tables that differ from their master copy
    storage_manager,            \* the encoding whose cached tables the storage manager holds
    sqlite_result_cache,        \* the queries _sqlite_result_cache holds a result for
    last_run_successful,        \* _last_run_successful
    param,                      \* GetParam() of the test that has been set up
    has_failure                 \* a test of this suite has failed (what gtest reports)

vars == <<suite_set_up, table_cache_per_encoding, sqlite_modified, storage_manager,
          sqlite_result_cache, last_run_successful, param, has_failure>>

NoTest == [query |-> "none", encoding |-> "none"]

NoEncoding == "none"

\* TableCacheEntry: the table (mint or modified) and the dirty flag.
TableCacheEntry == [mint : BOOLEAN, dirty : BOOLEAN]

\* A cache of tables as load_table returns them.
LoadedTableCache == [t \in Tables |-> [mint |-> TRUE, dirty |-> FALSE]]

NoCaches == [e \in {} |-> LoadedTableCache]

Init ==
    /\ suite_set_up = FALSE
    /\ table_cache_per_encoding = NoCaches
    /\ sqlite_modified = {}
    /\ storage_manager = NoEncoding
    /\ sqlite_result_cache = {}
    /\ last_run_successful = TRUE
    /\ param = NoTest
    /\ has_failure = FALSE

\* SetUpTestSuite: the tables are loaded into the unencoded cache and into
\* SQLite, each with its master copy.
SetUpTestSuite ==
    /\ ~suite_set_up
    /\ suite_set_up' = TRUE
    /\ table_cache_per_encoding' = [e \in {Unencoded} |-> LoadedTableCache]
    /\ sqlite_modified' = {}
    /\ has_failure' = FALSE
    /\ UNCHANGED <<storage_manager, sqlite_result_cache, last_run_successful, param>>

TearDownTestSuite ==
    /\ suite_set_up
    /\ param = NoTest
    /\ suite_set_up' = FALSE
    /\ table_cache_per_encoding' = NoCaches
    /\ sqlite_modified' = {}
    /\ sqlite_result_cache' = {}
    /\ storage_manager' = NoEncoding
    /\ UNCHANGED <<last_run_successful, param, has_failure>>

-----------------------------------------------------------------------------
(***************************************************************************)
(* SetUp, in the order of its four parts.                                  *)
(***************************************************************************)

\* The encoded variant of every table is loaded when the encoding is new.
WithEncodedCache(caches, encoding_type) ==
    IF encoding_type \in DOMAIN caches
    THEN caches
    ELSE [e \in DOMAIN caches \cup {encoding_type} |->
            IF e = encoding_type THEN LoadedTableCache ELSE caches[e]]

\* After a test that did not succeed, the tables of this test's encoding are
\* marked dirty.
MarkDirtyAfterFailure(caches, encoding_type) ==
    IF last_run_successful
    THEN caches
    ELSE [caches EXCEPT ![encoding_type] =
            [t \in Tables |-> [@[t] EXCEPT !.dirty = TRUE]]]

\* The mutation: only this test's encoding is asked.
SqliteTableDirty_this_encoding(caches, encoding_type, table_name) ==
    caches[encoding_type][table_name].dirty

\* The SQLite table is dirty if any of its encoded versions is.
SqliteTableDirty(caches, encoding_type, table_name) ==
    \E e \in DOMAIN caches : caches[e][table_name].dirty

\* Dirty tables of this test's encoding are loaded anew; the flag stays.
ReloadDirtyTables(caches, encoding_type) ==
    [caches EXCEPT ![encoding_type] =
        [t \in Tables |-> [@[t] EXCEPT !.mint = @ \/ caches[encoding_type][t].dirty]]]

SetUp(query, encoding_type) ==
    /\ suite_set_up
    /\ param = NoTest
    /\ LET marked == MarkDirtyAfterFailure(
                         WithEncodedCache(table_cache_per_encoding, encoding_type),
                         encoding_type)
       IN  /\ sqlite_modified' =
                  {t \in sqlite_modified : ~SqliteTableDirty(marked, encoding_type, t)}
           /\ table_cache_per_encoding' = ReloadDirtyTables(marked, encoding_type)
    /\ storage_manager' = encoding_type
    /\ param' = [query |-> query, encoding |-> encoding_type]
    /\ UNCHANGED <<suite_set_up, sqlite_result_cache, last_run_successful, has_failure>>

-----------------------------------------------------------------------------
(***************************************************************************)
(* CompareToSQLite.  The test sets _last_run_successful to false, then     *)
(* runs the query in Hyrise and in SQLite, compares, marks the modified    *)
(* tables dirty and sets the flag to true.  Each ASSERT and FAIL is a way  *)
(* out that leaves the flag false.                                         *)
(***************************************************************************)

\* The query has run in Hyrise: the tables in modified are no longer mint.
\* The storage manager holds the cached tables themselves, not copies.
HyriseExecuted(modified) ==
    [table_cache_per_encoding EXCEPT ![param.encoding] =
        [t \in Tables |-> [@[t] EXCEPT !.mint = @ /\ t \notin modified]]]

\* The mutation: nothing is evicted.
ResultCacheSet_no_eviction(cached, query) == {cached \cup {query}}

\* The caches a set() can leave behind: the result is added, and when the
\* cache is full one entry makes room for it.
ResultCacheSet(cached, query) ==
    IF Cardinality(cached) < ResultCacheCapacity
    THEN {cached \cup {query}}
    ELSE {(cached \ {evicted}) \cup {query} : evicted \in cached}

\* The SQLite result is taken from the cache, or the query runs in SQLite
\* and its result is cached.
ObtainSqliteResult ==
    \/ /\ param.query \in sqlite_result_cache
       /\ UNCHANGED <<sqlite_modified, sqlite_result_cache>>
    \/ /\ param.query \notin sqlite_result_cache
       /\ sqlite_modified' = sqlite_modified \cup Modifies[param.query]
       /\ sqlite_result_cache' \in ResultCacheSet(sqlite_result_cache, param.query)

TestCanFail == <<param.query, param.encoding>> \in CanFail

\* ASSERT_EQ(pipeline_status, Success) fails: some of the query's
\* statements have run in Hyrise, SQLite has not been asked.
PipelineFails ==
    /\ param # NoTest
    /\ TestCanFail
    /\ last_run_successful' = FALSE
    /\ has_failure' = TRUE
    /\ \E modified \in SUBSET Modifies[param.query] :
          table_cache_per_encoding' = HyriseExecuted(modified)
    /\ param' = NoTest
    /\ UNCHANGED <<suite_set_up, sqlite_modified, storage_manager, sqlite_result_cache>>

\* The results are empty or differ: the query has run in both systems.
ComparisonFails ==
    /\ param # NoTest
    /\ TestCanFail
    /\ last_run_successful' = FALSE
    /\ has_failure' = TRUE
    /\ table_cache_per_encoding' = HyriseExecuted(Modifies[param.query])
    /\ ObtainSqliteResult
    /\ param' = NoTest
    /\ UNCHANGED <<suite_set_up, storage_manager>>

\* The mutation: no table is marked dirty.
MarkModifiedTablesDirty_none(caches) == caches

\* The tables the query's plans modify are marked dirty.
MarkModifiedTablesDirty(caches) ==
    [caches EXCEPT ![param.encoding] =
        [t \in Tables |-> [@[t] EXCEPT !.dirty = @ \/ t \in Modifies[param.query]]]]

TestSucceeds ==
    /\ param # NoTest
    /\ ObtainSqliteResult
    /\ table_cache_per_encoding' =
          MarkModifiedTablesDirty(HyriseExecuted(Modifies[param.query]))
    /\ last_run_successful' = TRUE
    /\ param' = NoTest
    /\ UNCHANGED <<suite_set_up, storage_manager, has_failure>>

CompareToSQLite == PipelineFails \/ ComparisonFails \/ TestSucceeds

Next ==
    \/ SetUpTestSuite
    \/ TearDownTestSuite
    \/ \E query \in Queries, encoding_type \in Encodings : SetUp(query, encoding_type)
    \/ CompareToSQLite

Spec == Init /\ [][Next]_vars

-----------------------------------------------------------------------------

TypeOK ==
    /\ suite_set_up \in BOOLEAN
    /\ DOMAIN table_cache_per_encoding \subseteq Encodings
    /\ \A e \in DOMAIN table_cache_per_encoding :
          table_cache_per_encoding[e] \in [Tables -> TableCacheEntry]
    /\ suite_set_up <=> Unencoded \in DOMAIN table_cache_per_encoding
    /\ sqlite_modified \subseteq Tables
    /\ storage_manager \in Encodings \cup {NoEncoding}
    /\ sqlite_result_cache \subseteq Queries
    /\ Cardinality(sqlite_result_cache) <= ResultCacheCapacity
    /\ last_run_successful \in BOOLEAN
    /\ param \in [query : Queries, encoding : Encodings] \cup {NoTest}
    /\ param # NoTest => storage_manager = param.encoding
    /\ has_failure \in BOOLEAN

\* When a test starts, every SQLite table equals its master copy: whatever
\* the earlier tests did under whatever encoding, whether they passed or
\* failed, and whether SQLite ran their query or its result came from the
\* cache, SetUp has reset every SQLite table a query has modified.
SqliteTablesMintAfterSetUp ==
    param # NoTest => sqlite_modified = {}

\* When a test starts, the storage manager holds mint tables ("Populate the
\* StorageManager with mint Tables", "we always reset all tables"): every
\* table an earlier test modified under this encoding has been reloaded by
\* SetUp.
HyriseTablesMintAfterSetUp ==
    param # NoTest =>
        \A t \in Tables : table_cache_per_encoding[storage_manager][t].mint

\* As long as no test of the suite has failed, every test starts on mint
\* tables: a table a passed test has modified is marked dirty by
\* CompareToSQLite and reloaded by the next SetUp of its encoding, however
\* the tests of other encodings come between.
HyriseTablesMintWhileTestsPass ==
    ~has_failure => HyriseTablesMintAfterSetUp

=============================================================================
