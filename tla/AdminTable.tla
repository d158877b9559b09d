----------------------------- MODULE AdminTable -----------------------------
(***************************************************************************)
(* What the admin routes of one table promise an administrator             *)
(* (src/internal/handlers/admin_crud.go), whatever happens to the process, *)
(* the connection and the other requests: each request takes effect at     *)
(* most once, in one step, after it was made; it is answered with the row  *)
(* that step found or left, or told that there was none; it is refused     *)
(* only if it never takes effect.  A request left waiting is in doubt.     *)
(***************************************************************************)
CONSTANTS
    Requests,   \* the requests made
    Columns,    \* the columns of the table, id and updated_at aside
    Default     \* the row an INSERT that names no column makes

VARIABLES
    asked,      \* what each request asks for
    table,      \* the rows, by id
    effect,     \* what each request did: nothing yet, find no row, or a row
    word        \* what each was told

tableVars == <<asked, table, effect, word>>

\* An effect or an answer carries a row; where it has none, the default one.
Told(tag, row) == [tag |-> tag, row |-> row]
Bare(tag)      == Told(tag, Default)

TableInit ==
    /\ effect = [r \in Requests |-> Bare("none")]
    /\ word = [r \in Requests |-> Bare("unsent")]

Ask(r) ==
    /\ word[r] = Bare("unsent")
    /\ word' = [word EXCEPT ![r] = Bare("waiting")]
    /\ UNCHANGED <<asked, table, effect>>

\* r, still waiting, takes effect e.
Takes(r, e) ==
    /\ word[r] = Bare("waiting")
    /\ effect[r] = Bare("none")
    /\ effect' = [effect EXCEPT ![r] = e]
    /\ UNCHANGED <<asked, word>>

\* The row with the columns a payload names, and no others, overwritten.
Edited(row, payload) ==
    [c \in Columns |-> IF c \in DOMAIN payload THEN payload[c] ELSE row[c]]

Create(r) ==
    /\ asked[r].kind = "create"
    /\ \E i \in DOMAIN table' \ DOMAIN table :
         LET row == Edited(Default, asked[r].payload) IN
         /\ table' = [j \in DOMAIN table \cup {i} |-> IF j = i THEN row ELSE table[j]]
         /\ Takes(r, Told("row", row))

Update(r) ==
    /\ asked[r].kind = "update"
    /\ asked[r].id \in DOMAIN table
    /\ LET row == Edited(table[asked[r].id], asked[r].payload) IN
       /\ table' = [table EXCEPT ![asked[r].id] = row]
       /\ Takes(r, Told("row", row))

Delete(r) ==
    /\ asked[r].kind = "delete"
    /\ asked[r].id \in DOMAIN table
    /\ table' = [j \in DOMAIN table \ {asked[r].id} |-> table[j]]
    /\ Takes(r, Told("row", table[asked[r].id]))

Fetch(r) ==
    /\ asked[r].kind = "fetch"
    /\ asked[r].id \in DOMAIN table
    /\ table' = table
    /\ Takes(r, Told("row", table[asked[r].id]))

Miss(r) ==
    /\ asked[r].kind # "create"
    /\ asked[r].id \notin DOMAIN table
    /\ table' = table
    /\ Takes(r, Bare("absent"))

Answer(r) ==
    /\ word[r] = Bare("waiting")
    /\ effect[r] # Bare("none")
    /\ word' = [word EXCEPT ![r] = effect[r]]
    /\ UNCHANGED <<asked, table, effect>>

Refuse(r) ==
    /\ word[r] = Bare("waiting")
    /\ effect[r] = Bare("none")
    /\ word' = [word EXCEPT ![r] = Bare("refused")]
    /\ UNCHANGED <<asked, table, effect>>

TableNext ==
    \E r \in Requests :
        \/ Ask(r) \/ Answer(r) \/ Refuse(r)
        \/ Create(r) \/ Update(r) \/ Delete(r) \/ Fetch(r) \/ Miss(r)

TableSpec == TableInit /\ [][TableNext]_tableVars
=============================================================================
