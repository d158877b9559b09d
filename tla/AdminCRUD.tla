------------------------------ MODULE AdminCRUD ------------------------------
(***************************************************************************)
(* The generic CRUD handlers of one table                                  *)
(* (src/internal/handlers/admin_crud.go): create, update, delete and fetch *)
(* one.                                                                    *)
(*                                                                         *)
(* A handler checks the request, sends one statement and answers from the  *)
(* row the statement returns.  Any number of handlers run together, the    *)
(* database orders their statements as it likes and may execute one whose  *)
(* handler has given up or died with the process.                          *)
(*                                                                         *)
(* The table is one that only these routes write and whose id is not       *)
(* editable, and not tuning.  The contact table has two sets of routes,    *)
(* /admin/contact and /api/contacts, with one configuration; requests to   *)
(* either are requests here.  The listing is left out.                     *)
(***************************************************************************)
EXTENDS Integers, Sequences

CONSTANTS
    Requests,           \* the requests administrators make; a retry is another
    Operations,         \* what they may ask for
    Columns,            \* the columns of the table, id and updated_at aside
    Texts,              \* values that are neither NULL nor blank
    NotNull,            \* the columns declared NOT NULL
    Default,            \* the row an INSERT that names no column makes
    MutableColumns,     \* tableCRUDConfig of the table
    RequiredOnCreate,
    TouchUpdatedAt,
    Seeds               \* the rows there are at the start, by id

\* What isEmptyJSONValue is true of.
Empty  == {"null", "blank"}
Values == Texts \cup Empty
Row    == [Columns -> Values]

\* What parseResourceID finds: no id, something that is no number, or a number.
NoId  == -1
BadId == -2

Kinds == {"create", "update", "delete", "fetch"}

Satisfies(row) == \A c \in NotNull : row[c] # "null"
Filled(row)    == \A c \in RequiredOnCreate : row[c] \notin Empty

ASSUME TableAssumption ==
    /\ Texts \cap Empty = {}
    /\ RequiredOnCreate \subseteq MutableColumns /\ MutableColumns \subseteq Columns
    /\ NotNull \subseteq Columns
    /\ Default \in Row
    /\ TouchUpdatedAt \in BOOLEAN
    /\ Seeds \in Seq(Row)
    /\ \A i \in 1..Len(Seeds) : Satisfies(Seeds[i]) /\ Filled(Seeds[i])

\* A payload may name anything; it is empty where the kind carries none.  GET
\* without an id is the listing.
ASSUME OperationsAssumption ==
    \A o \in Operations :
        /\ o.kind \in Kinds
        /\ o.id \in Int
        /\ o.payload \in [DOMAIN o.payload -> Values]
        /\ o.kind = "fetch" => o.id # NoId

VARIABLES
    op,         \* what each request asks for
    pc,         \* where its handler is
    reply,      \* its reply: a status, 0 before there is one, and a row
    statement,  \* its statement at the database, and what it returned
    rows,       \* the table, by id
    next        \* the sequence the ids are drawn from

vars == <<op, pc, reply, statement, rows, next>>

\* A statement or a reply carries a row; where it has none, the default one.
Result(tag, row) == [tag |-> tag, row |-> row]
None             == Result("none", Default)

Init ==
    /\ op \in [Requests -> Operations]
    /\ pc = [r \in Requests |-> "unsent"]
    /\ reply = [r \in Requests |-> [status |-> 0, row |-> Default]]
    /\ statement = [r \in Requests |-> None]
    /\ rows = Seeds
    /\ next = Len(Seeds) + 1

-----------------------------------------------------------------------------
\* What the handler checks before it sends anything.

\* Mutant: a required column must be named, with whatever value.
ValidationErrorsNamed(o) ==
    {c \in DOMAIN o.payload : c \notin MutableColumns}
    \cup {c \in RequiredOnCreate : o.kind = "create" /\ c \notin DOMAIN o.payload}

\* validateCRUDPayload: every key must be editable; a create must fill the
\* required columns.  An update need not.
ValidationErrors(o) ==
    {c \in DOMAIN o.payload : c \notin MutableColumns}
    \cup {c \in RequiredOnCreate :
            o.kind = "create" /\ (c \in DOMAIN o.payload => o.payload[c] \in Empty)}

\* The status the request is refused with, 0 if it is not.
Complaint(o) ==
    IF o.id = BadId \/ (o.id = NoId /\ o.kind \in {"update", "delete"}) THEN 400
    ELSE IF o.kind \in {"create", "update"} /\ ValidationErrors(o) # {} THEN 422
    ELSE IF o.kind = "update" /\ DOMAIN o.payload = {} /\ ~TouchUpdatedAt THEN 400
    ELSE 0

-----------------------------------------------------------------------------
\* The handler.

\* The handler of r replies, and is done.
Respond(r, status, row) ==
    /\ pc' = [pc EXCEPT ![r] = "done"]
    /\ reply' = [reply EXCEPT ![r] = [status |-> status, row |-> row]]
    /\ UNCHANGED <<op, statement, rows, next>>

Receive(r) ==
    /\ pc[r] = "unsent"
    /\ pc' = [pc EXCEPT ![r] = "received"]
    /\ UNCHANGED <<op, reply, statement, rows, next>>

\* The gate refuses the token (GET /api/contacts has no gate).
Unauthorized(r) == pc[r] = "received" /\ Respond(r, 401, Default)

\* No body of one JSON object arrives.
Malformed(r) ==
    /\ pc[r] = "received"
    /\ op[r].kind \in {"create", "update"}
    /\ Respond(r, 400, Default)

Reject(r) ==
    /\ pc[r] = "received"
    /\ Complaint(op[r]) # 0
    /\ Respond(r, Complaint(op[r]), Default)

\* QueryRowContext gets a connection and sends the statement.
Send(r) ==
    /\ pc[r] = "received"
    /\ Complaint(op[r]) = 0
    /\ pc' = [pc EXCEPT ![r] = "waiting"]
    /\ statement' = [statement EXCEPT ![r] = Result("running", Default)]
    /\ UNCHANGED <<op, reply, rows, next>>

\* It gets none before its deadline.
NotSent(r) ==
    /\ pc[r] = "received"
    /\ Complaint(op[r]) = 0
    /\ Respond(r, 500, Default)

\* Mutant: a create is reported like an update.
ScanRowAsOK(r) ==
    /\ pc[r] = "waiting"
    /\ statement[r].tag = "row"
    /\ Respond(r, 200, statement[r].row)

\* Scan returns the row.
ScanRow(r) ==
    /\ pc[r] = "waiting"
    /\ statement[r].tag = "row"
    /\ Respond(r, IF op[r].kind = "create" THEN 201 ELSE 200, statement[r].row)

\* Scan returns sql.ErrNoRows.
ScanNothing(r) ==
    /\ pc[r] = "waiting"
    /\ statement[r].tag = "absent"
    /\ Respond(r, 404, Default)

\* Mutant: every error of Scan is taken for sql.ErrNoRows.
GiveUpAsAbsent(r) ==
    /\ pc[r] = "waiting"
    /\ Respond(r, IF op[r].kind = "create" THEN 500 ELSE 404, Default)

\* Scan returns another error: the statement failed, or the deadline passed, the
\* client left or the connection broke, whatever became of the statement.
GiveUp(r) == pc[r] = "waiting" /\ Respond(r, 500, Default)

Handler(r) ==
    \/ Unauthorized(r) \/ Malformed(r) \/ Reject(r) \/ Send(r) \/ NotSent(r)
    \/ ScanRow(r) \/ ScanNothing(r) \/ GiveUp(r)

-----------------------------------------------------------------------------
\* The database executes a statement in one step: each is a single statement
\* that commits by itself, and an UPDATE or a DELETE locks its row.

Executes(r, kind) ==
    /\ statement[r].tag = "running"
    /\ op[r].kind = kind
    /\ UNCHANGED <<op, pc, reply>>

Returns(r, row) == statement' = [statement EXCEPT ![r] = Result("row", row)]

\* The columns a payload names, and no others, overwritten.
Overwrite(row, payload) ==
    [c \in Columns |-> IF c \in DOMAIN payload THEN payload[c] ELSE row[c]]

Insert(r) ==
    LET row == Overwrite(Default, op[r].payload) IN
    /\ Executes(r, "create")
    /\ Satisfies(row)
    /\ rows' = [i \in DOMAIN rows \cup {next} |-> IF i = next THEN row ELSE rows[i]]
    /\ next' = next + 1
    /\ Returns(r, row)

\* Mutant: the columns the payload leaves out are written too, as empty texts.
UpdateWholeRow(r) ==
    LET row == Overwrite([c \in Columns |-> "blank"], op[r].payload) IN
    /\ Executes(r, "update")
    /\ op[r].id \in DOMAIN rows
    /\ Satisfies(row)
    /\ rows' = [rows EXCEPT ![op[r].id] = row]
    /\ next' = next
    /\ Returns(r, row)

\* Mutant: an update of a row that is not there makes it.
UpdateOrInsert(r) ==
    LET old == IF op[r].id \in DOMAIN rows THEN rows[op[r].id] ELSE Default
        row == Overwrite(old, op[r].payload) IN
    /\ Executes(r, "update")
    /\ Satisfies(row)
    /\ rows' = [i \in DOMAIN rows \cup {op[r].id} |-> IF i = op[r].id THEN row ELSE rows[i]]
    /\ next' = next
    /\ Returns(r, row)

Update(r) ==
    /\ Executes(r, "update")
    /\ op[r].id \in DOMAIN rows
    /\ LET row == Overwrite(rows[op[r].id], op[r].payload) IN
       /\ Satisfies(row)
       /\ rows' = [rows EXCEPT ![op[r].id] = row]
       /\ Returns(r, row)
    /\ next' = next

Delete(r) ==
    /\ Executes(r, "delete")
    /\ op[r].id \in DOMAIN rows
    /\ rows' = [i \in DOMAIN rows \ {op[r].id} |-> rows[i]]
    /\ Returns(r, rows[op[r].id])
    /\ next' = next

Select(r) ==
    /\ Executes(r, "fetch")
    /\ op[r].id \in DOMAIN rows
    /\ Returns(r, rows[op[r].id])
    /\ UNCHANGED <<rows, next>>

NoRows(r) ==
    /\ \E kind \in Kinds \ {"create"} : Executes(r, kind)
    /\ op[r].id \notin DOMAIN rows
    /\ statement' = [statement EXCEPT ![r] = Result("absent", Default)]
    /\ UNCHANGED <<rows, next>>

\* The statement fails, on a constraint or otherwise; an INSERT may have drawn
\* its id by then.
Abort(r) ==
    /\ \E kind \in Kinds : Executes(r, kind)
    /\ statement' = [statement EXCEPT ![r] = Result("aborted", Default)]
    /\ next' \in {next} \cup {i \in {next + 1} : op[r].kind = "create"}
    /\ rows' = rows

Database(r) == Insert(r) \/ Update(r) \/ Delete(r) \/ Select(r) \/ NoRows(r) \/ Abort(r)

\* The process dies, with its handlers, and is started again.
Crash ==
    /\ pc' = [r \in Requests |-> IF pc[r] \in {"received", "waiting"} THEN "cut" ELSE pc[r]]
    /\ UNCHANGED <<op, reply, statement, rows, next>>

Next ==
    \/ \E r \in Requests : Receive(r) \/ Handler(r) \/ Database(r)
    \/ Crash

Spec == Init /\ [][Next]_vars

-----------------------------------------------------------------------------
\* Properties.

Statuses(kind) ==
    CASE kind = "create" -> {0, 201, 400, 401, 422, 500}
      [] kind = "update" -> {0, 200, 400, 401, 404, 422, 500}
      [] kind = "delete" -> {0, 200, 400, 401, 404, 500}
      [] OTHER           -> {0, 200, 400, 401, 404, 500}

\* The shape of the state; each method has its own statuses.
TypeOK ==
    /\ op \in [Requests -> Operations]
    /\ pc \in [Requests -> {"unsent", "received", "waiting", "done", "cut"}]
    /\ reply \in [Requests -> [status : Nat, row : Row]]
    /\ \A r \in Requests : reply[r].status \in Statuses(op[r].kind)
    /\ statement \in [Requests ->
         [tag : {"none", "running", "row", "absent", "aborted"}, row : Row]]
    /\ next \in Nat \ {0}
    /\ DOMAIN rows \subseteq 1..(next - 1)
    /\ rows \in [DOMAIN rows -> Row]

\* What a reply tells the administrator; 500 leaves the request in doubt.
Word(r) ==
    CASE pc[r] = "unsent"                     -> Result("unsent", Default)
      [] reply[r].status \in {200, 201}       -> Result("row", reply[r].row)
      [] reply[r].status = 404                -> Result("absent", Default)
      [] reply[r].status \in {400, 401, 422}  -> Result("refused", Default)
      [] OTHER                                -> Result("waiting", Default)

Effect(r) == IF statement[r].tag \in {"row", "absent"} THEN statement[r] ELSE None

Promise == INSTANCE AdminTable WITH
    asked  <- op,
    table  <- rows,
    effect <- [r \in Requests |-> Effect(r)],
    word   <- [r \in Requests |-> Word(r)]

\* The routes keep the promises of AdminTable: each request acts at once or not
\* at all, and its answer is true, through concurrent requests, late commits and
\* crashes.
ImplementsTable == Promise!TableSpec

\* r has been executed, and was to write v into column c of row i.
Wrote(r, i, c) ==
    /\ statement[r].tag = "row"
    /\ op[r].kind = "update"
    /\ op[r].id = i
    /\ c \in DOMAIN op[r].payload

\* Concurrent edits of a row never undo each other's columns: a column that
\* somebody has edited holds what an edit of that very column put there.
EditsSurvive ==
    \A r \in Requests, c \in MutableColumns :
        LET i == op[r].id IN
        Wrote(r, i, c) /\ i \in DOMAIN rows =>
            \E s \in Requests : Wrote(s, i, c) /\ rows[i][c] = op[s].payload[c]

\* A row that was deleted never comes back, neither through an update that was
\* under way nor through a later create.
DeletedIsGone ==
    \A r \in Requests :
        op[r].kind = "delete" /\ statement[r].tag = "row" => op[r].id \notin DOMAIN rows

\* A required column is empty only where an edit emptied it: no create, however
\* it races, leaves one empty.
EmptiedByEdit ==
    \A i \in DOMAIN rows, c \in RequiredOnCreate :
        rows[i][c] \in Empty =>
            \E s \in Requests : Wrote(s, i, c) /\ op[s].payload[c] \in Empty
=============================================================================
