--------------------------- MODULE MCTuningColumns ---------------------------
(* A small instance of TuningColumns: two updates, with payloads for each     *)
(* branch of the handler, on any of the three shapes of the table and of its  *)
(* column of images.                                                          *)
EXTENDS TuningColumns

Says(title, description, images) ==
    [title |-> title, description |-> description, images |-> images]

MCOperations == {
    Says(Absent, "a", "array"),
    Says(Absent, "null", Absent),
    Says("b", Absent, "encoded"),
    Says("b", "blank", "other"),
    Says("b", "a", "string"),
    Says("blank", Absent, Absent),
    Says("blank", "null", "mixed"),
    Says(Absent, Absent, "empty"),
    Says(Absent, Absent, Absent) }
=============================================================================
