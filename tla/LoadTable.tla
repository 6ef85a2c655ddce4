----------------------------- MODULE LoadTable -----------------------------
(***************************************************************************)
(* load_table (load_table.cpp): a table is built from a text file.  The    *)
(* first line names the columns, the second gives their types, every       *)
(* further line is a row.  Rows are appended to chunks of chunk_size rows, *)
(* and every loaded row gets the commit id of loaded data.                 *)
(*                                                                         *)
(* A file is what its lines split into: the number of column names, each   *)
(* type as its parts around '_', each row as its cells.  A cell is a text *)
(* that is cast to the C++ type resolve_data_type (ResolveType) finds for  *)
(* the column's DataType.  An AllTypeVariant is NULL_VALUE or a value      *)
(* under its type.                                                         *)
(*                                                                         *)
(* Every row of a file has a cell for each column of the header.           *)
(* load_table does not compare the two numbers: with a row of another      *)
(* width it asks the table for a column it may not have and appends a row  *)
(* of that width, and what then happens is decided by Table, whose member  *)
(* functions are not part of the sources.                                  *)
(***************************************************************************)
EXTENDS Types, Sequences, SequencesExt

CONSTANTS
    Files,                  \* the files load_table is called with
    ChunkSizes,             \* the values of chunk_size
    NULL_VALUE,             \* the AllTypeVariant that holds no value
    data_type_to_string,    \* all_type_variant.hpp, right view: name |-> DataType
    data_type_pairs,        \* all_type_variant.hpp: the pairs of a DataType and its type
    lexical_cast(_, _),     \* boost::lexical_cast<T>(text): the value, or
    bad_lexical_cast        \* the exception it throws

VARIABLES
    HYRISE_DEBUG,               \* the build: DebugAssert is compiled in
    file,                       \* the file behind file_name
    chunk_size,
    mark_last_chunk_immutable,  \* SetLastChunkImmutable::Yes
    pc,                         \* "header", "rows", "done" or "failed"
    table,                      \* the table under construction
    line                        \* the rows read so far

vars == <<HYRISE_DEBUG, file, chunk_size, mark_last_chunk_immutable, pc, table, line>>

Resolve == INSTANCE ResolveType WITH EncodedSegments <- {}

NoTable == [column_definitions |-> <<>>, chunks |-> <<>>]

Init ==
    /\ HYRISE_DEBUG \in BOOLEAN
    /\ file \in Files
    /\ chunk_size \in ChunkSizes
    /\ mark_last_chunk_immutable \in BOOLEAN
    /\ pc = "header"
    /\ table = NoTable
    /\ line = 0

\* The checks of the header: the file is there, has no carriage return, and
\* every named column has a type that is known.  A name without a type is a
\* read past the end of column_types, which is taken to fail like an unknown
\* type.
HeaderAccepted ==
    /\ file.exists
    /\ ~file.carriage_return
    /\ file.column_names <= Len(file.column_types)
    /\ \A c \in 1..file.column_names :
          file.column_types[c][1] \in DOMAIN data_type_to_string

\* The mutation: every column with a second part is nullable.
ColumnNullable_any_suffix(type_nullable) == Len(type_nullable) > 1

\* A column is nullable when its type is followed by "_null".
ColumnNullable(type_nullable) ==
    Len(type_nullable) > 1 /\ type_nullable[2] = "null"

\* create_table_from_header: the column definitions, no chunk yet.
CreateTableFromHeader ==
    /\ pc = "header"
    /\ IF HeaderAccepted
       THEN /\ table' = [column_definitions |->
                            [c \in 1..file.column_names |->
                                [data_type |-> data_type_to_string[file.column_types[c][1]],
                                 nullable  |-> ColumnNullable(file.column_types[c])]],
                         chunks |-> <<>>]
            /\ pc' = "rows"
       ELSE /\ pc' = "failed"
            /\ UNCHANGED table
    /\ UNCHANGED <<HYRISE_DEBUG, file, chunk_size, mark_last_chunk_immutable, line>>

IsNull(column, text) == column.nullable /\ text = "null"

\* The cell of a column that is not NULL: the lambda casts the text to every
\* type resolve_data_type calls it with and assigns the cell, which ends
\* with the value of the last call.  A cast that throws, and a failed
\* DebugAssert, end load_table; without a call the cell stays as it was
\* constructed, holding no value.
Cast(column, text) ==
    LET resolved == Resolve!resolve_data_type(column.data_type)
        values   == [i \in DOMAIN resolved.calls |->
                        lexical_cast(resolved.calls[i], text)]
    IN  CASE resolved.failed \/ bad_lexical_cast \in Range(values) -> bad_lexical_cast
          [] values = <<>> -> NULL_VALUE
          [] OTHER -> [type |-> Last(resolved.calls), value |-> Last(values)]

VariantValues(string_values) ==
    [c \in DOMAIN string_values |->
        IF IsNull(table.column_definitions[c], string_values[c])
        THEN NULL_VALUE
        ELSE Cast(table.column_definitions[c], string_values[c])]

\* The mutation: a cast that throws is not noticed.
RowAccepted_any_cell(string_values) == TRUE

\* A line can be loaded: no cast of a cell has thrown.
RowAccepted(string_values) ==
    bad_lexical_cast \notin Range(VariantValues(string_values))

EmptyChunk == [rows |-> <<>>, begin_cids |-> <<>>, immutable |-> FALSE]

\* The mutation: a new chunk is opened one row late.
ChunkFull_late(chunk) == Len(chunk.rows) > chunk_size

ChunkFull(chunk) == Len(chunk.rows) = chunk_size

\* Table::append, which load_table.cpp calls and describes ("All other chunks
\* have been marked as immutable by Table::append() when they reached their
\* capacity"): the row goes to the last chunk; when that is full it is marked
\* immutable and a new chunk is opened.  The MVCC data of the new row says
\* "uncommitted".
TableAppend(chunks, values) ==
    LET opened == IF chunks = <<>>
                  THEN <<EmptyChunk>>
                  ELSE IF ChunkFull(Last(chunks))
                       THEN Append(Front(chunks), [Last(chunks) EXCEPT !.immutable = TRUE])
                                \o <<EmptyChunk>>
                       ELSE chunks
    IN  [opened EXCEPT ![Len(opened)] =
            [@ EXCEPT !.rows = Append(@, values),
                      !.begin_cids = Append(@, MAX_COMMIT_ID)]]

\* The mutation: the offset is the size of the last chunk.
LastChunkOffset_size(chunks) == Len(Last(chunks).rows)

\* The offset of the row just appended: last_chunk()->size() - 1.
LastChunkOffset(chunks) == Len(Last(chunks).rows) - 1

\* set_begin_cid on the last chunk; offsets count from 0.
SetBeginCid(chunks, offset, commit_id) ==
    [chunks EXCEPT ![Len(chunks)].begin_cids =
        [o \in DOMAIN @ |-> IF o = offset + 1 THEN commit_id ELSE @[o]]]

\* One turn of the loop: the line is split and cast, the row appended, and
\* its begin_cid set.  A line that cannot be loaded ends load_table with an
\* exception, and the table with it.
LoadRow ==
    /\ pc = "rows"
    /\ line < Len(file.lines)
    /\ LET string_values == file.lines[line + 1]
           appended      == TableAppend(table.chunks, VariantValues(string_values))
       IN  IF RowAccepted(string_values)
           THEN /\ table' = [table EXCEPT !.chunks =
                                SetBeginCid(appended, LastChunkOffset(appended),
                                            UNSET_COMMIT_ID)]
                /\ line' = line + 1
                /\ UNCHANGED pc
           ELSE /\ pc' = "failed"
                /\ table' = NoTable
                /\ UNCHANGED line
    /\ UNCHANGED <<HYRISE_DEBUG, file, chunk_size, mark_last_chunk_immutable>>

\* The mutation: the caller is not asked.
MarkLastChunk_always == table.chunks # <<>>

MarkLastChunk == table.chunks # <<>> /\ mark_last_chunk_immutable

\* After the last line, the last chunk is marked immutable if the caller
\* asked for it and the table has a row.
Return ==
    /\ pc = "rows"
    /\ line = Len(file.lines)
    /\ table' = IF MarkLastChunk
                THEN [table EXCEPT !.chunks[Len(table.chunks)].immutable = TRUE]
                ELSE table
    /\ pc' = "done"
    /\ UNCHANGED <<HYRISE_DEBUG, file, chunk_size, mark_last_chunk_immutable, line>>

Next == CreateTableFromHeader \/ LoadRow \/ Return

Spec == Init /\ [][Next]_vars

-----------------------------------------------------------------------------

TypeOK ==
    /\ HYRISE_DEBUG \in BOOLEAN
    /\ pc \in {"header", "rows", "done", "failed"}
    /\ line \in 0..Len(file.lines)
    /\ \A c \in DOMAIN table.column_definitions :
          table.column_definitions[c] \in
              [data_type : Range(data_type_to_string), nullable : BOOLEAN]
    /\ \A k \in DOMAIN table.chunks :
          /\ DOMAIN table.chunks[k] = {"rows", "begin_cids", "immutable"}
          /\ table.chunks[k].begin_cids \in Seq(0..MAX_COMMIT_ID)
          /\ table.chunks[k].immutable \in BOOLEAN
          /\ \A r \in DOMAIN table.chunks[k].rows :
                bad_lexical_cast \notin Range(table.chunks[k].rows[r])
    /\ pc = "failed" => table = NoTable

\* Every row load_table has appended bears the commit id of loaded data
\* and is thereby visible to every transaction: set_begin_cid addresses the
\* row just appended, also when append has opened a new chunk for it and
\* when a chunk holds a single row.
LoadedRowsBearUnsetCommitId ==
    \A k \in DOMAIN table.chunks :
        table.chunks[k].begin_cids =
            [o \in DOMAIN table.chunks[k].rows |-> UNSET_COMMIT_ID]

\* The type all_type_variant.hpp pairs with the DataType of a name.
TypeOfName(name) ==
    LET pair == CHOOSE pair \in Range(data_type_pairs) :
                    pair[1] = data_type_to_string[name]
    IN  pair[2]

\* What a cell holds, whatever type it holds it as.
ValueOf(variant) == IF variant = NULL_VALUE THEN NULL_VALUE ELSE variant.value

\* The chunks hold the lines read so far, in the order of the file, cut
\* into pieces of chunk_size rows; a cell is NULL exactly when its text is
\* "null" and its column is declared nullable, and holds what its text
\* means under the type the header names otherwise.
ChunksHoldTheLines ==
    pc \in {"rows", "done"} =>
        /\ FlattenSeq([k \in DOMAIN table.chunks |->
                          [r \in DOMAIN table.chunks[k].rows |->
                              [c \in DOMAIN table.chunks[k].rows[r] |->
                                  ValueOf(table.chunks[k].rows[r][c])]]])
              = [l \in 1..line |->
                    [c \in DOMAIN file.lines[l] |->
                        IF /\ file.lines[l][c] = "null"
                           /\ Len(file.column_types[c]) = 2
                           /\ file.column_types[c][2] = "null"
                        THEN NULL_VALUE
                        ELSE lexical_cast(TypeOfName(file.column_types[c][1]),
                                          file.lines[l][c])]]
        /\ \A k \in DOMAIN table.chunks :
              Len(table.chunks[k].rows) =
                  IF k < Len(table.chunks) THEN chunk_size
                  ELSE line - chunk_size * (k - 1)

\* The rows of the table fit its column definitions: a cell without a value
\* is in a nullable column, and every other cell holds a value of the one
\* type that is paired with the DataType of its column.  The lambda that
\* load_table hands to resolve_data_type assigns the cell at every call, so
\* this rests on resolve_data_type calling it for the column's type and for
\* no other.
CellsFitTheColumnDefinitions ==
    \A k \in DOMAIN table.chunks :
        \A r \in DOMAIN table.chunks[k].rows :
            LET row == table.chunks[k].rows[r]
            IN  \A c \in DOMAIN row :
                    IF row[c] = NULL_VALUE
                    THEN table.column_definitions[c].nullable
                    ELSE <<table.column_definitions[c].data_type, row[c].type>>
                             \in Range(data_type_pairs)

\* "All other chunks have been marked as immutable by Table::append() when
\* they reached their capacity": every chunk but the last is immutable while
\* rows are loaded, and the table that is returned has its last chunk
\* immutable exactly when the caller asked for it.
ChunksAreImmutable ==
    \A k \in DOMAIN table.chunks :
        table.chunks[k].immutable <=>
            \/ k < Len(table.chunks)
            \/ pc = "done" /\ mark_last_chunk_immutable

=============================================================================
