---------------------------- MODULE MCLoadTable ----------------------------
(***************************************************************************)
(* Files for model checking LoadTable: up to two columns of the kinds a    *)
(* header can declare, up to three rows of the cells that matter, each as  *)
(* wide as the header, and the data types and casts of the libraries       *)
(* load_table builds on.                                                   *)
(***************************************************************************)
EXTENDS LoadTable

MCDataTypeToString ==
    [int |-> "Int", long |-> "Long", float |-> "Float", double |-> "Double",
     string |-> "String"]

MCDataTypePairs ==
    <<<<"Int", "int32_t">>, <<"Long", "int64_t">>, <<"Float", "float">>,
      <<"Double", "double">>, <<"String", "pmr_string">>>>

\* The texts of a number, each with the number it is read as: "07" is 7.
\* "3000000000" is above the largest int32_t.
MCNumerals == "7" :> "7" @@ "07" :> "7" @@ "3000000000" :> "3000000000"

MCWide == {"3000000000"}

\* A string is taken as it is; a number must be a numeral throughout and
\* within the range of its type.
MCLexicalCast(T, text) ==
    CASE T = "pmr_string" -> text
      [] text \notin DOMAIN MCNumerals -> bad_lexical_cast
      [] T = "int32_t" /\ text \in MCWide -> bad_lexical_cast
      [] OTHER -> MCNumerals[text]

\* A type as it splits around '_': plain, nullable, with another suffix,
\* and a type that is not known.
MCTypes == {<<"int">>, <<"int", "null">>, <<"long">>, <<"string">>, <<"string", "null">>,
            <<"string", "nullable">>, <<"float8">>}

MCCells == {"7", "07", "3000000000", "x", "null"}

\* One column, any type, up to two rows of any cell.
MCOneColumn ==
    [exists : {TRUE}, carriage_return : {FALSE}, column_names : {1},
     column_types : [1..1 -> MCTypes],
     lines : UNION {[1..n -> [1..1 -> MCCells]] : n \in 0..2}]

\* Two columns, three rows that fit them: chunks fill up and follow.
MCThreeRows ==
    [exists : {TRUE}, carriage_return : {FALSE}, column_names : {2},
     column_types : [1..2 -> {<<"int", "null">>, <<"string">>}],
     lines : [1..3 -> [1..2 -> {"7", "null"}]]]

\* What the header checks refuse.
MCRefused ==
    {[exists |-> FALSE, carriage_return |-> FALSE, column_names |-> 0,
      column_types |-> <<>>, lines |-> <<>>],
     [exists |-> TRUE, carriage_return |-> TRUE, column_names |-> 1,
      column_types |-> <<<<"int">>>>, lines |-> <<>>],
     [exists |-> TRUE, carriage_return |-> FALSE, column_names |-> 2,
      column_types |-> <<<<"int">>>>, lines |-> <<>>]}

MCFiles == MCOneColumn \cup MCThreeRows \cup MCRefused

=============================================================================
