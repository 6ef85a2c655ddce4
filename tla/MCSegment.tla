----------------------------- MODULE MCSegment -----------------------------
(***************************************************************************)
(* The variable-string dictionary segment for model checking: the strings  *)
(* rows are drawn from.  The empty string, a string and a proper prefix of *)
(* it, and a string that differs in its first byte are the cases the       *)
(* order and the NUL-terminated layout tell apart.                         *)
(***************************************************************************)
EXTENDS VariableStringDictionarySegment

MCStrings == {<<>>, <<1>>, <<1, 1>>, <<2>>}

\* A pmr_string is a sequence of any bytes: a string with a NUL byte in it,
\* next to the string that is its part before that byte.
MCStringsWithNul == {<<1>>, <<1, NUL, 1>>}

=============================================================================
