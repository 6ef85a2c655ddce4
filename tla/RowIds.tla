------------------------------ MODULE RowIds ------------------------------
(***************************************************************************)
(* The identifiers of types.hpp: the strong typedefs with their widths,    *)
(* the values that mean "no such thing", RowID with its order, and         *)
(* SortColumnDefinition.  uint32_t has Uint32Bits bits and uint16_t half   *)
(* as many; 32 and 16 in the code.                                         *)
(***************************************************************************)
EXTENDS Naturals

CONSTANT Uint32Bits

ASSUME Uint32Bits \in 2..30 /\ Uint32Bits % 2 = 0

\* The strong typedefs over uint16_t; the others are over uint32_t.
Uint16Typedefs == {"ColumnID", "ColumnCount", "ParameterID"}

BaseTypeBits(id) == IF id \in Uint16Typedefs THEN Uint32Bits \div 2 ELSE Uint32Bits

\* std::numeric_limits<base_type>::max()
NumericLimitsMax(id) == 2^BaseTypeBits(id) - 1

ChunkID == 0..NumericLimitsMax("ChunkID")

ChunkOffset == 0..NumericLimitsMax("ChunkOffset")

ColumnID == 0..NumericLimitsMax("ColumnID")

INVALID_CHUNK_OFFSET == NumericLimitsMax("ChunkOffset")

INVALID_CHUNK_ID == NumericLimitsMax("ChunkID")

\* INVALID_NODE_ID, INVALID_TASK_ID, INVALID_CPU_ID, INVALID_WORKER_ID and
\* INVALID_COLUMN_ID.
INVALID_ID ==
    [id \in {"NodeID", "TaskID", "CpuID", "WorkerID", "ColumnID"} |-> NumericLimitsMax(id)]

CURRENT_NODE_ID == NumericLimitsMax("NodeID") - 1

-----------------------------------------------------------------------------

RowID == [chunk_id : ChunkID, chunk_offset : ChunkOffset]

\* RowID(), with the default member initialisers.
DefaultRowID == [chunk_id |-> INVALID_CHUNK_ID, chunk_offset |-> INVALID_CHUNK_OFFSET]

NULL_ROW_ID == [chunk_id |-> INVALID_CHUNK_ID, chunk_offset |-> INVALID_CHUNK_OFFSET]

\* "Faster than row_id == NULL_ROW_ID, since we only compare the ChunkOffset."
is_null(row_id) == row_id.chunk_offset = INVALID_CHUNK_OFFSET

\* The mutation: either member is less.
RowIdLess_either(row_id, other) ==
    row_id.chunk_id < other.chunk_id \/ row_id.chunk_offset < other.chunk_offset

\* operator< of two std::tie: by the chunk id, then by the chunk offset.
RowIdLess(row_id, other) ==
    \/ row_id.chunk_id < other.chunk_id
    \/ row_id.chunk_id = other.chunk_id /\ row_id.chunk_offset < other.chunk_offset

RowIdEquals(row_id, other) ==
    <<row_id.chunk_id, row_id.chunk_offset>> = <<other.chunk_id, other.chunk_offset>>

-----------------------------------------------------------------------------

SortMode == {"Ascending", "Descending"}

\* SortColumnDefinition(column), with the default argument.
SortColumnDefinition(column) == [column |-> column, sort_mode |-> "Ascending"]

SortColumnDefinitionEquals(lhs, rhs) ==
    lhs.column = rhs.column /\ lhs.sort_mode = rhs.sort_mode

=============================================================================
