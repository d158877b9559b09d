----------------------------- MODULE MCAdminCRUD -----------------------------
(* A small instance of AdminCRUD: one row to start with, a required and an    *)
(* optional column, and the requests that take the handlers down each of      *)
(* their paths.  The requests are interchangeable and no liveness is checked, *)
(* so symmetry is sound.                                                      *)
EXTENDS AdminCRUD, TLC

CONSTANTS r1, r2, r3

MCRequests == {r1, r2, r3}
Symmetry   == Permutations(MCRequests)

MCColumns  == {"title", "text"}
MCTexts    == {"a", "b"}
MCRequired == {"title"}
MCDefault  == [c \in MCColumns |-> "null"]
MCSeeds    == <<[c \in MCColumns |-> "a"]>>

Op(kind, id, payload) == [kind |-> kind, id |-> id, payload |-> payload]
NoPayload == [c \in {} |-> "null"]
Title(v)  == [c \in {"title"} |-> v]
Text(v)   == [c \in {"text"} |-> v]

MCOperations == {
    Op("create", NoId, Title("a")),
    Op("create", NoId, Title("blank")),     \* refused: a required text is blank
    Op("create", NoId, Text("a")),          \* refused: a required one is missing
    Op("update", 1, Title("b")),
    Op("update", 1, Text("b")),
    Op("update", 1, Title("blank")),        \* accepted: only creates require
    Op("update", 2, Title("null")),         \* a row not there yet; NOT NULL
    Op("update", 1, NoPayload),
    Op("delete", 1, NoPayload),
    Op("fetch", 1, NoPayload),
    Op("fetch", BadId, NoPayload) }
=============================================================================
