------------------------------- MODULE Inbox -------------------------------
(***************************************************************************)
(* What the consultation endpoint promises a visitor and the administrator *)
(* (src/internal/handlers/consultations.go), whatever happens to the       *)
(* process, the database connection and the webhook: each submission is    *)
(* recorded at most once; it is confirmed only once recorded, and refused  *)
(* only if it never will be; the administrator is alerted at most once,    *)
(* and only of what is recorded.  A submission that is neither confirmed   *)
(* nor refused is in doubt and may be recorded at any time.                *)
(***************************************************************************)
CONSTANT Submissions

VARIABLES
    recorded,   \* the submissions with a row
    word,       \* what each visitor was told: "none", "confirmed", "refused"
    alerted     \* the submissions the administrator has heard of

inboxVars == <<recorded, word, alerted>>

Init ==
    /\ recorded = {}
    /\ word = [s \in Submissions |-> "none"]
    /\ alerted = {}

Record(s) ==
    /\ s \notin recorded
    /\ word[s] = "none"
    /\ recorded' = recorded \cup {s}
    /\ UNCHANGED <<word, alerted>>

Confirm(s) ==
    /\ s \in recorded
    /\ word[s] = "none"
    /\ word' = [word EXCEPT ![s] = "confirmed"]
    /\ UNCHANGED <<recorded, alerted>>

Refuse(s) ==
    /\ s \notin recorded
    /\ word[s] = "none"
    /\ word' = [word EXCEPT ![s] = "refused"]
    /\ UNCHANGED <<recorded, alerted>>

Alert(s) ==
    /\ s \in recorded
    /\ s \notin alerted
    /\ alerted' = alerted \cup {s}
    /\ UNCHANGED <<recorded, word>>

Next == \E s \in Submissions : Record(s) \/ Confirm(s) \/ Refuse(s) \/ Alert(s)

Spec == Init /\ [][Next]_inboxVars
=============================================================================
