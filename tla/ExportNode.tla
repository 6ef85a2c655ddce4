----------------------------- MODULE ExportNode -----------------------------
(***************************************************************************)
(* ExportNode (export_node.cpp): the node of the logical query plan that   *)
(* writes a table to a file.  It has no state but its two members; what    *)
(* the plan asks of it is a description, a hash, a copy and an equality.   *)
(***************************************************************************)
EXTENDS Naturals

CONSTANTS
    FileNames,              \* the values of file_name
    hash_combine(_, _)      \* boost::hash_combine, as the seed it leaves

\* FileType (file_type.hpp)
FileType == {"Csv", "Tbl", "Binary", "Auto"}

ExportNode(init_file_name, init_file_type) ==
    [type |-> "Export", file_name |-> init_file_name, file_type |-> init_file_type]

\* magic_enum::enum_name and boost::algorithm::to_lower
file_type_str == [Csv |-> "csv", Tbl |-> "tbl", Binary |-> "binary", Auto |-> "auto"]

description(node) ==
    <<"[Export] to '", node.file_name, "' (", file_type_str[node.file_type], ")">>

_on_shallow_hash(node) == hash_combine(hash_combine(0, node.file_name), node.file_type)

_on_shallow_copy(node) == ExportNode(node.file_name, node.file_type)

\* The mutation: the file type is not compared.
_on_shallow_equals_file_name(node, rhs) == node.file_name = rhs.file_name

_on_shallow_equals(node, rhs) ==
    node.file_name = rhs.file_name /\ node.file_type = rhs.file_type

=============================================================================
