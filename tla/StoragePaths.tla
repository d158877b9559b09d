----------------------------- MODULE StoragePaths -----------------------------
(***************************************************************************)
(* The functions of src/internal/storage/supabase.go that turn what a      *)
(* caller sends into the name of an object.                                *)
(*                                                                         *)
(* A text is a sequence of symbols.  A path is the sequence of the texts   *)
(* between its separators, "/" and "\" alike, so "" is << <<>> >> and      *)
(* "/a b" is << <<>>, <<"a", " ", "b">> >>.                                *)
(***************************************************************************)
EXTENDS Naturals, Sequences

Space == " "
Dot   == "."

Least(S)    == CHOOSE i \in S : \A j \in S : i <= j
Greatest(S) == CHOOSE i \in S : \A j \in S : i >= j

\* strings.Trim and strings.TrimSpace: without the symbol c at either end.
Trim(text, c) ==
    LET kept == {i \in DOMAIN text : text[i] # c}
    IN  IF kept = {} THEN <<>> ELSE SubSeq(text, Least(kept), Greatest(kept))

TrimSpace(text) == Trim(text, Space)

\* A value that is blank as a whole; one with a separator is not.
Blank(path) == Len(path) = 1 /\ TrimSpace(path[1]) = <<>>

\* Mutant: the parts are not trimmed one by one.
PartsUntrimmed(path) ==
    LET NonEmpty(text) == text # <<>>
    IN  SelectSeq(path, NonEmpty)

\* The parts CleanPath keeps, gathered one by one.
Parts(path) ==
    LET result[n \in 0..Len(path)] ==
            IF n = 0 THEN <<>>
            ELSE IF TrimSpace(path[n]) = <<>> THEN result[n - 1]
            ELSE Append(result[n - 1], TrimSpace(path[n]))
    IN  result[Len(path)]

Traversal == {<<Dot>>, <<Dot, Dot>>}

\* CleanPath: the error, and the result where there is none.
CleanPathFails(path) ==
    Parts(path) = <<>> \/ \E i \in DOMAIN Parts(path) : Parts(path)[i] \in Traversal
CleanPath(path) == Parts(path)

\* CleanOptionalPath: a blank value is the empty path.
CleanOptionalPathFails(path) == ~Blank(path) /\ CleanPathFails(path)
CleanOptionalPath(path)      == IF Blank(path) THEN <<>> ELSE CleanPath(path)

\* Mutant: the dots around the name stay.
SanitizeFilenameDotted(path) == TrimSpace(path[Len(path)])

\* SanitizeFilename: the last part, without spaces and then without dots around
\* it; empty if nothing is left.
SanitizeFilename(path) == Trim(TrimSpace(path[Len(path)]), Dot)
=============================================================================
