------------------------------ MODULE ImageCells ------------------------------
(***************************************************************************)
(* What a cell of full_image_url may hold, what the public routes make of  *)
(* it (StringArray in src/internal/render/render.go) and what the script   *)
(* makes of it (the block of src/schema.sql that converts the column).     *)
(*                                                                         *)
(* The column was TEXT once or missing, then JSONB, and is JSONB with a    *)
(* check that it is an array since the script; those are "text",           *)
(* "missing", "jsonb" and "checked".  What is missing holds "null".        *)
(***************************************************************************)
Columns == {"missing", "text", "jsonb", "checked"}

\* JSON: [], an array of addresses, one with a number among them, and what comes
\* of wrapping in an array what was none; a string that is an address, one that is
\* the text of an array; and any other value: JSON's null, a number, a Boolean or
\* an object.
Arrays    == {"empty", "array", "mixed", "wrapped"}
NonArrays == {"string", "encoded", "other"}

\* A cell may be NULL.  One of TEXT may be no JSON: blank, a bare address, or what
\* only begins like an array.
Cells == {"null", "blank", "bare", "broken"} \cup Arrays \cup NonArrays

Holds(column, cell) ==
    CASE column = "missing" -> cell = "null"
      [] column = "text"    -> TRUE
      [] column = "jsonb"   -> cell \in {"null"} \cup Arrays \cup NonArrays
      [] column = "checked" -> cell \in Arrays

\* StringArray: the addresses of an array of strings, also of one that was
\* encoded twice; nothing of anything else, of JSON's null in particular.
StringArray(cell) ==
    CASE cell \in {"array", "encoded"} -> {"address"}
      [] cell = "wrapped"              -> {"rubbish"}
      [] OTHER                         -> {}

\* Whether the block succeeds: a text that begins with a bracket must be JSON, and
\* a JSON value must be an array already, or the check that is added fails.
Convertible(column, cell) ==
    /\ column = "text"  => cell # "broken"
    /\ column = "jsonb" => cell \notin NonArrays

\* Mutant: a text that is no array is dropped.
ConvertDropping(cell) == IF cell \in Arrays THEN cell ELSE "empty"

\* What it makes of a cell: nothing is [], what begins with a bracket is taken as
\* it is, and any other text, JSON or not, is wrapped as one string.
Convert(cell) ==
    CASE cell \in {"null", "blank"} -> "empty"
      [] cell \in Arrays            -> cell
      [] cell = "bare"              -> "array"
      [] OTHER                      -> "wrapped"
=============================================================================
