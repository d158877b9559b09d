-------------------------- MODULE MCConsultations --------------------------
(* A small instance of Consultations: two submissions, and the bodies that   *)
(* take the handler down each of its paths.                                  *)
EXTENDS Consultations

CONSTANTS s1, s2

MCSubmissions == {s1, s2}

Fill(required, phone, optional) ==
    [decodes |-> TRUE,
     text |-> [f \in Fields |-> CASE f = "required" -> required
                                  [] f = "phone"    -> phone
                                  [] OTHER          -> optional]]

MCPayloads == {
    Fill("padded", "good", "blank"),    \* accepted, and trimmed
    Fill("blank", "good", "good"),      \* empty once trimmed
    Fill("good", "good", "bad"),        \* an optional text too long
    [decodes |-> FALSE, text |-> [f \in Fields |-> "good"]] }
=============================================================================
