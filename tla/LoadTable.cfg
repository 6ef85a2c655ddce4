\* load_table on every file of MCFiles, with chunks of one and of two rows,
\* in a debug and in a release build.
SPECIFICATION Spec
CONSTANTS
    CommitIdBits = 4
    NULL_VALUE = NULL_VALUE
    bad_lexical_cast = bad_lexical_cast
    ChunkSizes = {1, 2}
    Files <- MCFiles
    data_type_to_string <- MCDataTypeToString
    data_type_pairs <- MCDataTypePairs
    lexical_cast <- MCLexicalCast
INVARIANTS
    TypeOK
    LoadedRowsBearUnsetCommitId
    ChunksHoldTheLines
    CellsFitTheColumnDefinitions
    ChunksAreImmutable
CHECK_DEADLOCK FALSE
