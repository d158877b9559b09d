--------------------------- MODULE AdminCRUDProofs ---------------------------
(***************************************************************************)
(* Proofs about the admin tables.  About AdminCRUD: the shape of the       *)
(* state, what concurrent edits and deletes leave of each other, and the   *)
(* refinement of AdminTable.  About AdminList: which lists are heard, and  *)
(* in which order.                                                         *)
(***************************************************************************)
EXTENDS AdminCRUD, AdminList, TLAPS

-----------------------------------------------------------------------------
\* Facts about the data.

LEMMA OverwriteType ==
    ASSUME NEW row \in Row, NEW o \in Operations
    PROVE  Overwrite(row, o.payload) \in Row
  <1>1. o.payload \in [DOMAIN o.payload -> Values]
    BY OperationsAssumption
  <1> QED
    BY <1>1 DEF Overwrite, Row

LEMMA DefaultType == Default \in Row /\ None.row = Default /\ None.tag = "none"
  BY TableAssumption DEF None, Result

\* What a handler may refuse a request with.
LEMMA ComplaintStatus ==
    ASSUME NEW o \in Operations
    PROVE  /\ Complaint(o) \in {0, 400, 422}
           /\ Complaint(o) \in Statuses(o.kind)
           /\ o.kind \in Kinds
  BY OperationsAssumption DEF Complaint, Statuses, Kinds

\* The rows with row i set, or with row i dropped, are still rows.
LEMMA RowsSet ==
    ASSUME NEW R, R \in [DOMAIN R -> Row], NEW i, NEW row \in Row
    PROVE  LET S == [j \in DOMAIN R \cup {i} |-> IF j = i THEN row ELSE R[j]]
           IN  S \in [DOMAIN S -> Row] /\ DOMAIN S = DOMAIN R \cup {i}
  OBVIOUS

-----------------------------------------------------------------------------
\* The inductive invariant: where each handler is, what became of its statement
\* and what it replied belong together.

Placed(r) ==
    /\ pc[r] \in {"unsent", "received"} => statement[r] = None
    /\ pc[r] # "done" => reply[r].status = 0

Answered(r) ==
    /\ reply[r].status \in {200, 201} => statement[r] = Result("row", reply[r].row)
    /\ reply[r].status = 404 => statement[r] = Result("absent", Default)
    /\ reply[r].status \in {400, 401, 422} => statement[r] = None

Executed(r) ==
    /\ statement[r].tag # "none" => Complaint(op[r]) = 0
    /\ statement[r].tag = "absent" =>
         op[r].kind # "create" /\ statement[r] = Result("absent", Default)
    /\ statement[r].tag = "row" /\ op[r].kind # "create" => op[r].id \in 1..(next - 1)

Books == \A r \in Requests : Placed(r) /\ Answered(r) /\ Executed(r)

-----------------------------------------------------------------------------
\* Type correctness.

LEMMA ReplyType ==
    ASSUME TypeOK, NEW r \in Requests, NEW status \in Nat, NEW row \in Row,
           status \in Statuses(op[r].kind), Respond(r, status, row)
    PROVE  TypeOK'
  BY DEF TypeOK, Respond

LEMMA TypeInit == Init => TypeOK
  <1> SUFFICES ASSUME Init PROVE TypeOK
    OBVIOUS
  <1>1. rows \in [DOMAIN rows -> Row] /\ DOMAIN rows = 1..(next - 1) /\ next \in Nat \ {0}
    BY TableAssumption DEF Init
  <1>2. \A o \in Operations : 0 \in Statuses(o.kind)
    BY DEF Statuses
  <1>3. None \in [tag : {"none", "running", "row", "absent", "aborted"}, row : Row]
    BY DefaultType DEF None, Result
  <1> QED
    BY <1>1, <1>2, <1>3, DefaultType DEF Init, TypeOK

\* A step of the database that sets one statement and leaves next no smaller.
LEMMA ExecutionType ==
    ASSUME TypeOK, NEW r \in Requests, UNCHANGED <<op, pc, reply>>,
           NEW tag \in {"row", "absent", "aborted"}, NEW row \in Row,
           statement' = [statement EXCEPT ![r] = Result(tag, row)],
           next' \in Nat \ {0}, DOMAIN rows' \subseteq 1..(next' - 1),
           rows' \in [DOMAIN rows' -> Row]
    PROVE  TypeOK'
  BY DEF TypeOK, Result

LEMMA HandlerType ==
    ASSUME TypeOK, Books, NEW r \in Requests, Handler(r)
    PROVE  TypeOK'
  <1> USE DefaultType
  <1>0. op[r] \in Operations /\ op[r].kind \in Kinds
    BY ComplaintStatus DEF TypeOK
  <1>1. CASE Unauthorized(r)
    <2>1. 401 \in Statuses(op[r].kind)
      BY <1>0 DEF Statuses, Kinds
    <2> QED
      BY <1>1, <2>1, ReplyType DEF Unauthorized
  <1>2. CASE Malformed(r)
    <2>1. 400 \in Statuses(op[r].kind)
      BY <1>0 DEF Statuses, Kinds
    <2> QED
      BY <1>2, <2>1, ReplyType DEF Malformed
  <1>3. CASE Reject(r)
    <2>1. Complaint(op[r]) \in Nat /\ Complaint(op[r]) \in Statuses(op[r].kind)
      BY <1>0, ComplaintStatus
    <2> QED
      BY <1>3, <2>1, ReplyType DEF Reject
  <1>4. CASE Send(r)
    BY <1>4 DEF Send, TypeOK, Result
  <1>5. 500 \in Statuses(op[r].kind)
    BY <1>0 DEF Statuses, Kinds
  <1>6. CASE NotSent(r)
    BY <1>5, <1>6, ReplyType DEF NotSent
  <1>7. CASE ScanRow(r)
    <2>1. statement[r].row \in Row
      BY DEF TypeOK
    <2>2. (IF op[r].kind = "create" THEN 201 ELSE 200) \in Statuses(op[r].kind)
      BY <1>0 DEF Statuses, Kinds
    <2> DEFINE status == IF op[r].kind = "create" THEN 201 ELSE 200
    <2>3. status \in Nat /\ status \in Statuses(op[r].kind)
      BY <2>2
    <2>4. Respond(r, status, statement[r].row)
      BY <1>7 DEF ScanRow
    <2> HIDE DEF status
    <2> QED
      BY <2>1, <2>3, <2>4, ReplyType
  <1>8. CASE ScanNothing(r)
    <2>1. op[r].kind # "create"
      BY <1>8 DEF ScanNothing, Books, Executed
    <2>2. 404 \in Statuses(op[r].kind)
      BY <1>0, <2>1 DEF Statuses, Kinds
    <2> QED
      BY <1>8, <2>2, ReplyType DEF ScanNothing
  <1>9. CASE GiveUp(r)
    BY <1>5, <1>9, ReplyType DEF GiveUp
  <1> QED
    BY <1>1, <1>2, <1>3, <1>4, <1>6, <1>7, <1>8, <1>9 DEF Handler

LEMMA DatabaseType ==
    ASSUME TypeOK, NEW r \in Requests, Database(r)
    PROVE  TypeOK' /\ next' \in {next, next + 1}
  <1>0. op[r] \in Operations /\ next \in Nat \ {0} /\ rows \in [DOMAIN rows -> Row]
        /\ DOMAIN rows \subseteq 1..(next - 1) /\ Default \in Row
    BY DefaultType DEF TypeOK
  <1> USE DEF Executes
  <1>1. CASE Insert(r)
    <2> DEFINE row == Overwrite(Default, op[r].payload)
    <2>1. row \in Row
      BY <1>0, OverwriteType
    <2>2. /\ rows' = [i \in DOMAIN rows \cup {next} |-> IF i = next THEN row ELSE rows[i]]
          /\ next' = next + 1
          /\ statement' = [statement EXCEPT ![r] = Result("row", row)]
          /\ UNCHANGED <<op, pc, reply>>
      BY <1>1 DEF Insert, Returns
    <2> HIDE DEF row
    <2>3. rows' \in [DOMAIN rows' -> Row] /\ DOMAIN rows' = DOMAIN rows \cup {next}
      BY <1>0, <2>1, <2>2, RowsSet
    <2>4. next' \in Nat \ {0} /\ DOMAIN rows' \subseteq 1..(next' - 1)
      <3>1. 1..(next' - 1) = 1..next
        BY <1>0, <2>2
      <3>2. next # 0
        BY DEF TypeOK
      <3> QED
        BY <1>0, <2>2, <2>3, <3>1, <3>2
    <2> QED
      BY <2>1, <2>2, <2>3, <2>4, ExecutionType
  <1>2. CASE Update(r)
    <2> DEFINE row == Overwrite(rows[op[r].id], op[r].payload)
    <2>1. row \in Row
      BY <1>0, <1>2, OverwriteType DEF Update
    <2>2. /\ rows' = [rows EXCEPT ![op[r].id] = row]
          /\ next' = next
          /\ statement' = [statement EXCEPT ![r] = Result("row", row)]
          /\ UNCHANGED <<op, pc, reply>>
      BY <1>2 DEF Update, Returns
    <2> HIDE DEF row
    <2>3. rows' \in [DOMAIN rows' -> Row] /\ DOMAIN rows' = DOMAIN rows
      BY <1>0, <2>1, <2>2
    <2> QED
      BY <1>0, <2>1, <2>2, <2>3, ExecutionType
  <1>3. CASE Delete(r)
    <2>1. rows[op[r].id] \in Row
      BY <1>0, <1>3 DEF Delete
    <2>2. rows' \in [DOMAIN rows' -> Row] /\ DOMAIN rows' = DOMAIN rows \ {op[r].id}
      BY <1>0, <1>3 DEF Delete
    <2> QED
      BY <1>0, <1>3, <2>1, <2>2, ExecutionType DEF Delete, Returns
  <1>4. CASE Select(r)
    <2>1. rows[op[r].id] \in Row
      BY <1>0, <1>4 DEF Select
    <2> QED
      BY <1>0, <1>4, <2>1, ExecutionType DEF Select, Returns
  <1>5. CASE NoRows(r)
    BY <1>0, <1>5, ExecutionType DEF NoRows
  <1>6. CASE Abort(r)
    <2>1. next' \in {next, next + 1} /\ next' \in Nat \ {0} /\ rows' = rows
      BY <1>0, <1>6 DEF Abort
    <2>2. DOMAIN rows' \subseteq 1..(next' - 1)
      BY <1>0, <2>1
    <2> QED
      BY <1>0, <1>6, <2>1, <2>2, ExecutionType DEF Abort
  <1> QED
    BY <1>1, <1>2, <1>3, <1>4, <1>5, <1>6 DEF Database

-----------------------------------------------------------------------------
\* The books are kept.

LEMMA BooksInit == Init => Books
  <1> SUFFICES ASSUME Init, NEW r \in Requests
               PROVE  Placed(r) /\ Answered(r) /\ Executed(r)
    BY DEF Books
  <1>1. statement[r] = None /\ reply[r].status = 0
    BY DEF Init
  <1>2. statement[r].tag = "none"
    BY <1>1, DefaultType
  <1>3. Placed(r) /\ Answered(r)
    BY <1>1 DEF Placed, Answered
  <1>4. Executed(r)
    BY <1>2 DEF Executed
  <1> QED
    BY <1>3, <1>4

\* A reply that agrees with the statement keeps the books.
LEMMA ReplyBooks ==
    ASSUME TypeOK, Books, NEW r \in Requests, NEW status, NEW row,
           Respond(r, status, row),
           status \in {200, 201} => statement[r] = Result("row", row),
           status = 404 => statement[r] = Result("absent", Default),
           status \in {400, 401, 422} => statement[r] = None
    PROVE  Books'
  BY DEF TypeOK, Books, Placed, Answered, Executed, Respond

LEMMA HandlerBooks ==
    ASSUME TypeOK, Books, NEW r \in Requests, Handler(r)
    PROVE  Books'
  <1>1. pc[r] = "received" => statement[r] = None
    BY DEF Books, Placed
  <1>2. CASE Unauthorized(r)
    BY <1>1, <1>2, ReplyBooks DEF Unauthorized
  <1>3. CASE Malformed(r)
    BY <1>1, <1>3, ReplyBooks DEF Malformed
  <1>4. CASE Reject(r)
    <2>1. Complaint(op[r]) \in {0, 400, 422}
      BY ComplaintStatus DEF TypeOK
    <2> QED
      BY <1>1, <1>4, <2>1, ReplyBooks DEF Reject
  <1>5. CASE Send(r)
    BY <1>5, <1>1 DEF Send, TypeOK, Books, Placed, Answered, Executed, None, Result
  <1>6. CASE NotSent(r)
    BY <1>6, ReplyBooks DEF NotSent
  <1>7. CASE ScanRow(r)
    <2>1. statement[r] = Result("row", statement[r].row)
      BY <1>7 DEF ScanRow, TypeOK, Result
    <2> DEFINE status == IF op[r].kind = "create" THEN 201 ELSE 200
    <2>2. status \in {200, 201} /\ Respond(r, status, statement[r].row)
      BY <1>7 DEF ScanRow
    <2> HIDE DEF status
    <2> QED
      BY <2>1, <2>2, ReplyBooks
  <1>8. CASE ScanNothing(r)
    <2>1. statement[r] = Result("absent", Default)
      BY <1>8 DEF ScanNothing, Books, Executed
    <2> QED
      BY <1>8, <2>1, ReplyBooks DEF ScanNothing
  <1>9. CASE GiveUp(r)
    BY <1>9, ReplyBooks DEF GiveUp
  <1> QED
    BY <1>2, <1>3, <1>4, <1>5, <1>6, <1>7, <1>8, <1>9 DEF Handler

\* A running statement belongs to a handler that has sent it and has not been
\* told of its outcome.
LEMMA RunningUntold ==
    ASSUME TypeOK, Books, NEW r \in Requests, statement[r].tag = "running"
    PROVE  /\ pc[r] \notin {"unsent", "received"}
           /\ reply[r].status \in {0, 500}
           /\ Complaint(op[r]) = 0
  <1>0. Placed(r) /\ Answered(r) /\ Executed(r)
    BY DEF Books
  <1>1. reply[r].status \notin {200, 201, 404, 400, 401, 422}
    <2>1. None.tag # "running" /\ Result("absent", Default).tag # "running"
          /\ Result("row", reply[r].row).tag # "running"
      BY DEF None, Result
    <2> QED
      BY <1>0, <2>1 DEF Answered
  <1>2. reply[r].status \in Statuses(op[r].kind)
    BY DEF TypeOK
  <1>3. reply[r].status \in {0, 500}
    BY <1>1, <1>2 DEF Statuses
  <1>4. pc[r] \notin {"unsent", "received"} /\ Complaint(op[r]) = 0
    <2>1. None.tag # "running"
      BY DEF None, Result
    <2> QED
      BY <1>0, <2>1 DEF Placed, Executed
  <1> QED
    BY <1>3, <1>4

\* No id that was drawn is forgotten.
LEMMA IdsGrow ==
    ASSUME NEW m \in Nat, NEW n \in {m, m + 1}
    PROVE  1..(m - 1) \subseteq 1..(n - 1)
  OBVIOUS

LEMMA DatabaseBooks ==
    ASSUME TypeOK, Books, NEW r \in Requests, Database(r)
    PROVE  Books'
  <1> DEFINE Outcome(tag, row) == statement' = [statement EXCEPT ![r] = Result(tag, row)]
  <1>1. /\ statement[r].tag = "running"
        /\ UNCHANGED <<op, pc, reply>>
        /\ \E tag \in {"row", "absent", "aborted"}, row \in Row \cup {Default} :
             /\ Outcome(tag, row)
             /\ tag = "absent" => op[r].kind # "create" /\ row = Default
             /\ tag = "row" /\ op[r].kind # "create" => op[r].id \in 1..(next - 1)
    <2> USE DEF Executes, Returns
    <2>0. op[r] \in Operations /\ rows \in [DOMAIN rows -> Row]
          /\ DOMAIN rows \subseteq 1..(next - 1) /\ Default \in Row
      BY DefaultType DEF TypeOK
    <2>1. CASE Insert(r)
      BY <2>0, <2>1, OverwriteType DEF Insert
    <2>2. CASE Update(r)
      <3>1. Overwrite(rows[op[r].id], op[r].payload) \in Row
        BY <2>0, <2>2, OverwriteType DEF Update
      <3> QED
        BY <2>0, <2>2, <3>1 DEF Update
    <2>3. CASE Delete(r)
      BY <2>0, <2>3 DEF Delete
    <2>4. CASE Select(r)
      BY <2>0, <2>4 DEF Select
    <2>5. CASE NoRows(r)
      BY <2>0, <2>5 DEF NoRows
    <2>6. CASE Abort(r)
      BY <2>0, <2>6 DEF Abort
    <2> QED
      BY <2>1, <2>2, <2>3, <2>4, <2>5, <2>6 DEF Database
  <1>2. PICK tag \in {"row", "absent", "aborted"}, row \in Row \cup {Default} :
             /\ Outcome(tag, row)
             /\ tag = "absent" => op[r].kind # "create" /\ row = Default
             /\ tag = "row" /\ op[r].kind # "create" => op[r].id \in 1..(next - 1)
    BY <1>1
  <1>3. next \in Nat /\ next' \in {next, next + 1}
    BY DatabaseType DEF TypeOK
  <1>4. 1..(next - 1) \subseteq 1..(next' - 1)
    BY <1>3, IdsGrow
  <1>5. /\ pc[r] \notin {"unsent", "received"}
        /\ reply[r].status \in {0, 500}
        /\ Complaint(op[r]) = 0
    BY <1>1, RunningUntold
  <1>6. statement \in [Requests -> [tag : {"none", "running", "row", "absent", "aborted"}, row : Row]]
    BY DEF TypeOK
  <1> SUFFICES ASSUME NEW s \in Requests
               PROVE  (Placed(s) /\ Answered(s) /\ Executed(s))'
    BY DEF Books
  <1>7. Placed(s) /\ Answered(s) /\ Executed(s)
    BY DEF Books
  <1>8. CASE s = r
    <2>1. statement'[r] = Result(tag, row)
      BY <1>2, <1>6
    <2>2. Placed(r)'
      BY <1>1, <1>5, <1>7, <1>8 DEF Placed
    <2>3. Answered(r)'
      BY <1>1, <1>5 DEF Answered
    <2>4. Executed(r)'
      BY <1>1, <1>2, <1>4, <1>5, <2>1 DEF Executed, Result
    <2> QED
      BY <1>8, <2>2, <2>3, <2>4
  <1>9. CASE s # r
    <2>1. statement'[s] = statement[s]
      BY <1>2, <1>6, <1>9
    <2> QED
      BY <1>1, <1>4, <1>7, <2>1 DEF Placed, Answered, Executed
  <1> QED
    BY <1>8, <1>9

LEMMA KeepsBooks == TypeOK /\ Books /\ [Next]_vars => TypeOK' /\ Books'
  <1> SUFFICES ASSUME TypeOK, Books, [Next]_vars
               PROVE  TypeOK' /\ Books'
    OBVIOUS
  <1>1. ASSUME NEW r \in Requests, Receive(r)
        PROVE  TypeOK' /\ Books'
    BY <1>1 DEF Receive, TypeOK, Books, Placed, Answered, Executed
  <1>2. ASSUME NEW r \in Requests, Handler(r)
        PROVE  TypeOK' /\ Books'
    BY <1>2, HandlerType, HandlerBooks
  <1>3. ASSUME NEW r \in Requests, Database(r)
        PROVE  TypeOK' /\ Books'
    BY <1>3, DatabaseType, DatabaseBooks
  <1>4. CASE Crash
    <2>1. TypeOK'
      BY <1>4 DEF Crash, TypeOK
    <2>2. Books'
      BY <1>4 DEF Crash, TypeOK, Books, Placed, Answered, Executed
    <2> QED
      BY <2>1, <2>2
  <1>5. CASE UNCHANGED vars
    BY <1>5 DEF vars, TypeOK, Books, Placed, Answered, Executed
  <1> QED
    BY <1>1, <1>2, <1>3, <1>4, <1>5 DEF Next

\* The state keeps its shape, and each method its statuses: in particular no
\* create is ever answered "not found".
THEOREM TypeCorrect == Spec => []TypeOK
  <1>1. Init => TypeOK /\ Books
    BY TypeInit, BooksInit
  <1> QED
    BY <1>1, KeepsBooks, PTL DEF Spec

LEMMA AlwaysBooks == Spec => [](TypeOK /\ Books)
  <1>1. Init => TypeOK /\ Books
    BY TypeInit, BooksInit
  <1> QED
    BY <1>1, KeepsBooks, PTL DEF Spec

-----------------------------------------------------------------------------
\* What the rows keep.

\* Only the database touches the rows or executes a statement.
LEMMA HandlerQuiet ==
    ASSUME TypeOK, Books, NEW r \in Requests, Receive(r) \/ Handler(r)
    PROVE  /\ UNCHANGED <<op, rows, next>>
           /\ \A s \in Requests :
                \/ statement'[s] = statement[s]
                \/ statement[s] = None /\ statement'[s] = Result("running", Default)
  <1>1. pc[r] = "received" => statement[r] = None
    BY DEF Books, Placed
  <1>2. CASE Send(r)
    BY <1>1, <1>2 DEF Send, TypeOK
  <1>3. CASE Receive(r)
    BY <1>3 DEF Receive
  <1>4. CASE ~Send(r) /\ ~Receive(r)
    BY <1>4 DEF Handler, Unauthorized, Malformed, Reject, NotSent, ScanRow,
                ScanNothing, GiveUp, Respond
  <1> QED
    BY <1>2, <1>3, <1>4

Quiet ==
    /\ UNCHANGED <<op, rows>>
    /\ \A s \in Requests : (statement'[s].tag = "row") <=> (statement[s].tag = "row")

LEMMA OthersQuiet ==
    ASSUME TypeOK, Books, [Next]_vars
    PROVE  Quiet \/ \E r \in Requests : Insert(r) \/ Update(r) \/ Delete(r) \/ Select(r)
  <1>1. None.tag # "row" /\ Result("running", Default).tag # "row"
    BY DEF None, Result
  <1>2. ASSUME NEW r \in Requests, Receive(r) \/ Handler(r)
        PROVE  Quiet
    BY <1>1, <1>2, HandlerQuiet DEF Quiet
  <1>3. ASSUME NEW r \in Requests, NoRows(r) \/ Abort(r)
        PROVE  Quiet
    <2>1. statement[r].tag = "running" /\ UNCHANGED <<op, rows>>
      BY <1>3 DEF NoRows, Abort, Executes
    <2>2. PICK tag \in {"absent", "aborted"} :
            statement' = [statement EXCEPT ![r] = Result(tag, Default)]
      BY <1>3 DEF NoRows, Abort
    <2>3. statement'[r].tag # "row"
      BY <2>2 DEF TypeOK, Result
    <2>4. \A s \in Requests : s # r => statement'[s] = statement[s]
      BY <2>2 DEF TypeOK
    <2> QED
      BY <2>1, <2>3, <2>4 DEF Quiet
  <1>4. CASE Crash \/ UNCHANGED vars
    BY <1>4 DEF Crash, vars, Quiet
  <1> QED
    BY <1>2, <1>3, <1>4 DEF Next, Database

\* A statement that returns a row is executed now, and no other is.
LEMMA OneExecuted ==
    ASSUME TypeOK, NEW r \in Requests, Insert(r) \/ Update(r) \/ Delete(r) \/ Select(r)
    PROVE  /\ op' = op
           /\ statement[r].tag = "running" /\ statement'[r].tag = "row"
           /\ \A s \in Requests : s # r => statement'[s] = statement[s]
  <1>1. op' = op /\ statement[r].tag = "running"
    BY DEF Insert, Update, Delete, Select, Executes
  <1>2. \E row : statement' = [statement EXCEPT ![r] = Result("row", row)]
    BY DEF Insert, Update, Delete, Select, Returns
  <1> QED
    BY <1>1, <1>2 DEF TypeOK, Result

\* What those four leave of the rows: one of them is new, is edited in the
\* columns named, or goes.
LEMMA RowsAfter ==
    ASSUME TypeOK, Books, NEW r \in Requests
    PROVE  /\ Insert(r) =>
                /\ op[r].kind = "create"
                /\ DOMAIN rows' = DOMAIN rows \cup {next} /\ next \notin DOMAIN rows
                /\ \A i \in DOMAIN rows : rows'[i] = rows[i]
                /\ \A c \in Columns : rows'[next][c] =
                     IF c \in DOMAIN op[r].payload THEN op[r].payload[c] ELSE Default[c]
           /\ Update(r) =>
                /\ op[r].kind = "update" /\ DOMAIN rows' = DOMAIN rows
                /\ op[r].id \in DOMAIN rows
                /\ \A i \in DOMAIN rows : i # op[r].id => rows'[i] = rows[i]
                /\ \A c \in Columns : rows'[op[r].id][c] =
                     IF c \in DOMAIN op[r].payload THEN op[r].payload[c]
                     ELSE rows[op[r].id][c]
           /\ Delete(r) =>
                /\ op[r].kind = "delete" /\ DOMAIN rows' = DOMAIN rows \ {op[r].id}
                /\ \A i \in DOMAIN rows' : rows'[i] = rows[i]
           /\ Select(r) => op[r].kind = "fetch" /\ rows' = rows
  <1>0. next \in Nat /\ DOMAIN rows \subseteq 1..(next - 1) /\ rows \in [DOMAIN rows -> Row]
    BY DEF TypeOK
  <1>1. next \notin DOMAIN rows
    BY <1>0
  <1>2. ASSUME Insert(r)
        PROVE  /\ op[r].kind = "create"
               /\ DOMAIN rows' = DOMAIN rows \cup {next}
               /\ \A i \in DOMAIN rows : rows'[i] = rows[i]
               /\ \A c \in Columns : rows'[next][c] =
                    IF c \in DOMAIN op[r].payload THEN op[r].payload[c] ELSE Default[c]
    BY <1>1, <1>2 DEF Insert, Executes, Overwrite
  <1>3. ASSUME Update(r)
        PROVE  /\ op[r].kind = "update" /\ DOMAIN rows' = DOMAIN rows
               /\ op[r].id \in DOMAIN rows
               /\ \A i \in DOMAIN rows : i # op[r].id => rows'[i] = rows[i]
               /\ \A c \in Columns : rows'[op[r].id][c] =
                    IF c \in DOMAIN op[r].payload THEN op[r].payload[c]
                    ELSE rows[op[r].id][c]
    BY <1>0, <1>3 DEF Update, Executes, Overwrite
  <1>4. ASSUME Delete(r)
        PROVE  /\ op[r].kind = "delete" /\ DOMAIN rows' = DOMAIN rows \ {op[r].id}
               /\ \A i \in DOMAIN rows' : rows'[i] = rows[i]
    BY <1>4 DEF Delete, Executes
  <1>5. ASSUME Select(r)
        PROVE  op[r].kind = "fetch" /\ rows' = rows
    BY <1>5 DEF Select, Executes
  <1> QED
    BY <1>1, <1>2, <1>3, <1>4, <1>5

\* A row that was written to or deleted had its id drawn before.
LEMMA OldId ==
    ASSUME TypeOK, Books, NEW r \in Requests, statement[r].tag = "row",
           op[r].kind # "create"
    PROVE  op[r].id # next
  <1>1. op[r].id \in 1..(next - 1) /\ next \in Nat
    BY DEF TypeOK, Books, Executed
  <1> QED
    BY <1>1

LEMMA KeepsDeleted ==
    TypeOK /\ Books /\ DeletedIsGone /\ [Next]_vars => DeletedIsGone'
  <1> SUFFICES ASSUME TypeOK, Books, DeletedIsGone, [Next]_vars, NEW s \in Requests,
                      op'[s].kind = "delete", statement'[s].tag = "row"
               PROVE  op'[s].id \notin DOMAIN rows'
    BY DEF DeletedIsGone
  <1>1. CASE Quiet
    BY <1>1 DEF Quiet, DeletedIsGone
  <1>2. ASSUME NEW r \in Requests, Insert(r) \/ Update(r) \/ Delete(r) \/ Select(r)
        PROVE  op'[s].id \notin DOMAIN rows'
    <2>1. CASE s = r
      BY <1>2, <2>1, OneExecuted, RowsAfter
    <2>2. CASE s # r
      <3>1. op[s].kind = "delete" /\ statement[s].tag = "row" /\ op' = op
        BY <1>2, <2>2, OneExecuted
      <3>2. op[s].id \notin DOMAIN rows /\ op[s].id # next
        BY <3>1, OldId DEF DeletedIsGone
      <3>3. DOMAIN rows' \subseteq DOMAIN rows \cup {next}
        BY <1>2, RowsAfter
      <3> QED
        BY <3>1, <3>2, <3>3
    <2> QED
      BY <2>1, <2>2
  <1> QED
    BY <1>1, <1>2, OthersQuiet

\* A deleted row stays away, whatever update was under way and whatever is
\* created afterwards: an id is never drawn twice.
THEOREM DeletedStaysGone == Spec => []DeletedIsGone
  <1>1. Init => DeletedIsGone
    <2>1. None.tag # "row"
      BY DefaultType
    <2> QED
      BY <2>1 DEF Init, DeletedIsGone
  <1> QED
    BY <1>1, KeepsDeleted, AlwaysBooks, PTL DEF Spec

\* Who wrote a column stays known, and an edit is new only where the row now
\* holds its value.
LEMMA WroteAfter ==
    ASSUME TypeOK, Books, NEW r \in Requests,
           Insert(r) \/ Update(r) \/ Delete(r) \/ Select(r),
           NEW s \in Requests, NEW i, NEW c
    PROVE  /\ op' = op
           /\ Wrote(s, i, c) => Wrote(s, i, c)' /\ i # next
           /\ s # r /\ Wrote(s, i, c)' => Wrote(s, i, c)
           /\ Wrote(r, i, c)' <=> Update(r) /\ i = op[r].id /\ c \in DOMAIN op[r].payload
  <1>1. /\ op' = op
        /\ statement[r].tag = "running" /\ statement'[r].tag = "row"
        /\ s # r => statement'[s] = statement[s]
    BY OneExecuted
  <1>2. Wrote(s, i, c) => i # next
    BY OldId DEF Wrote
  <1>3. Update(r) <=> op[r].kind = "update"
    BY RowsAfter
  <1>4. Wrote(s, i, c) => s # r
    BY <1>1 DEF Wrote
  <1> QED
    BY <1>1, <1>2, <1>3, <1>4 DEF Wrote

LEMMA QuietWrote ==
    ASSUME Quiet, NEW s \in Requests, NEW i, NEW c
    PROVE  op' = op /\ rows' = rows /\ (Wrote(s, i, c)' <=> Wrote(s, i, c))
  BY DEF Quiet, Wrote

LEMMA KeepsEdits ==
    TypeOK /\ Books /\ EditsSurvive /\ [Next]_vars => EditsSurvive'
  <1> SUFFICES ASSUME TypeOK, Books, EditsSurvive, [Next]_vars,
                      NEW q \in Requests, NEW c \in MutableColumns, NEW i,
                      i = op'[q].id, Wrote(q, i, c)', i \in DOMAIN rows'
               PROVE  \E s \in Requests :
                        Wrote(s, i, c)' /\ rows'[i][c] = op'[s].payload[c]
    BY DEF EditsSurvive, Wrote
  <1>0. c \in Columns
    BY TableAssumption
  <1>1. CASE Quiet
    BY <1>1, QuietWrote DEF EditsSurvive
  <1>2. ASSUME NEW r \in Requests, Insert(r) \/ Update(r) \/ Delete(r) \/ Select(r)
        PROVE  \E s \in Requests : Wrote(s, i, c)' /\ rows'[i][c] = op'[s].payload[c]
    <2>1. op' = op
      BY <1>2, WroteAfter
    <2>2. CASE Wrote(r, i, c)'
      <3>1. Update(r) /\ i = op[r].id /\ c \in DOMAIN op[r].payload
        BY <1>2, <2>2, WroteAfter
      <3>2. rows'[i][c] = op[r].payload[c]
        <4>1. \A d \in Columns : rows'[op[r].id][d] =
                IF d \in DOMAIN op[r].payload THEN op[r].payload[d]
                ELSE rows[op[r].id][d]
          BY <3>1, RowsAfter
        <4> QED
          BY <1>0, <3>1, <4>1
      <3> QED
        BY <2>1, <2>2, <3>2
    <2>3. CASE ~Wrote(r, i, c)'
      <3>1. Wrote(q, i, c) /\ i # next
        BY <1>2, <2>3, WroteAfter
      <3>2. i \in DOMAIN rows
        BY <1>2, <3>1, RowsAfter
      <3>3. PICK s \in Requests : Wrote(s, i, c) /\ rows[i][c] = op[s].payload[c]
        BY <2>1, <3>1, <3>2 DEF EditsSurvive
      <3>4. rows'[i][c] = rows[i][c]
        <4>1. CASE Update(r) /\ i = op[r].id
          <5>1. c \notin DOMAIN op[r].payload
            BY <1>2, <2>3, <4>1, WroteAfter
          <5>2. \A d \in Columns : rows'[op[r].id][d] =
                  IF d \in DOMAIN op[r].payload THEN op[r].payload[d]
                  ELSE rows[op[r].id][d]
            BY <4>1, RowsAfter
          <5> QED
            BY <1>0, <4>1, <5>1, <5>2
        <4>2. CASE ~(Update(r) /\ i = op[r].id)
          BY <1>2, <3>2, <4>2, RowsAfter
        <4> QED
          BY <4>1, <4>2
      <3>5. Wrote(s, i, c)'
        BY <1>2, <3>3, WroteAfter
      <3> QED
        BY <2>1, <3>3, <3>4, <3>5
    <2> QED
      BY <2>2, <2>3
  <1> QED
    BY <1>1, <1>2, OthersQuiet

\* Concurrent edits of one row merge: each column holds what an edit of that
\* column put there, and no edit takes another's column back.
THEOREM EditsMerge == Spec => []EditsSurvive
  <1>1. Init => EditsSurvive
    <2>1. None.tag # "row"
      BY DefaultType
    <2> QED
      BY <2>1 DEF Init, EditsSurvive, Wrote
  <1> QED
    BY <1>1, KeepsEdits, AlwaysBooks, PTL DEF Spec

\* A create that was executed had its required columns filled.
LEMMA CreateFills ==
    ASSUME TypeOK, Books, NEW r \in Requests, Insert(r), NEW c \in RequiredOnCreate
    PROVE  c \in DOMAIN op[r].payload /\ op[r].payload[c] \notin Empty
  <1>1. op[r].kind = "create" /\ statement[r].tag = "running"
    BY DEF Insert, Executes
  <1>2. Complaint(op[r]) = 0
    BY <1>1, RunningUntold
  <1>3. ValidationErrors(op[r]) = {}
    BY <1>1, <1>2 DEF Complaint
  <1> QED
    BY <1>1, <1>3 DEF ValidationErrors

LEMMA KeepsFilled ==
    TypeOK /\ Books /\ EmptiedByEdit /\ [Next]_vars => EmptiedByEdit'
  <1> SUFFICES ASSUME TypeOK, Books, EmptiedByEdit, [Next]_vars,
                      NEW c \in RequiredOnCreate, NEW i \in DOMAIN rows',
                      rows'[i][c] \in Empty
               PROVE  \E s \in Requests : Wrote(s, i, c)' /\ op'[s].payload[c] \in Empty
    BY DEF EmptiedByEdit
  <1>0. c \in Columns
    BY TableAssumption
  <1>1. CASE Quiet
    <2>1. op' = op /\ rows' = rows
      BY <1>1 DEF Quiet
    <2>2. PICK s \in Requests : Wrote(s, i, c) /\ op[s].payload[c] \in Empty
      BY <2>1 DEF EmptiedByEdit
    <2>3. Wrote(s, i, c)'
      BY <1>1, <2>2, QuietWrote
    <2> QED
      BY <2>1, <2>2, <2>3
  <1>2. ASSUME NEW r \in Requests, Insert(r) \/ Update(r) \/ Delete(r) \/ Select(r)
        PROVE  \E s \in Requests : Wrote(s, i, c)' /\ op'[s].payload[c] \in Empty
    <2>1. op' = op
      BY <1>2, WroteAfter
    <2>2. CASE Insert(r) /\ i = next
      <3>1. \A d \in Columns : rows'[next][d] =
              IF d \in DOMAIN op[r].payload THEN op[r].payload[d] ELSE Default[d]
        BY <2>2, RowsAfter
      <3>2. c \in DOMAIN op[r].payload /\ op[r].payload[c] \notin Empty
        BY <2>2, CreateFills
      <3> QED
        BY <1>0, <2>2, <3>1, <3>2
    <2>3. CASE Update(r) /\ i = op[r].id /\ c \in DOMAIN op[r].payload
      <3>1. \A d \in Columns : rows'[op[r].id][d] =
              IF d \in DOMAIN op[r].payload THEN op[r].payload[d]
              ELSE rows[op[r].id][d]
        BY <2>3, RowsAfter
      <3>2. op[r].payload[c] \in Empty
        BY <1>0, <2>3, <3>1
      <3>3. Wrote(r, i, c)'
        BY <1>2, <2>3, WroteAfter
      <3> QED
        BY <2>1, <3>2, <3>3
    <2>4. CASE /\ ~(Insert(r) /\ i = next)
               /\ ~(Update(r) /\ i = op[r].id /\ c \in DOMAIN op[r].payload)
      <3>1. i \in DOMAIN rows
        BY <1>2, <2>4, RowsAfter
      <3>2. rows'[i][c] = rows[i][c]
        <4>1. CASE Update(r) /\ i = op[r].id
          <5>1. \A d \in Columns : rows'[op[r].id][d] =
                  IF d \in DOMAIN op[r].payload THEN op[r].payload[d]
                  ELSE rows[op[r].id][d]
            BY <4>1, RowsAfter
          <5> QED
            BY <1>0, <2>4, <4>1, <5>1
        <4>2. CASE ~(Update(r) /\ i = op[r].id)
          BY <1>2, <3>1, <4>2, RowsAfter
        <4> QED
          BY <4>1, <4>2
      <3>3. PICK s \in Requests : Wrote(s, i, c) /\ op[s].payload[c] \in Empty
        BY <3>1, <3>2 DEF EmptiedByEdit
      <3>4. Wrote(s, i, c)'
        BY <1>2, <3>3, WroteAfter
      <3> QED
        BY <2>1, <3>3, <3>4
    <2> QED
      BY <2>2, <2>3, <2>4
  <1> QED
    BY <1>1, <1>2, OthersQuiet

\* No create leaves a required column empty, and nothing but an edit that was
\* accepted with an empty value for that very column ever does.
THEOREM CreatesStayFilled == Spec => []EmptiedByEdit
  <1>1. Init => EmptiedByEdit
    <2> SUFFICES ASSUME Init, NEW i \in DOMAIN rows, NEW c \in RequiredOnCreate
                 PROVE  rows[i][c] \notin Empty
      BY DEF EmptiedByEdit
    <2>1. i \in 1..Len(Seeds) /\ rows = Seeds
      BY TableAssumption DEF Init
    <2> QED
      BY <2>1, TableAssumption DEF Filled
  <1> QED
    BY <1>1, KeepsFilled, AlwaysBooks, PTL DEF Spec

-----------------------------------------------------------------------------
\* The refinement: each step is one of AdminTable, or changes nothing there.

words   == [r \in Requests |-> Word(r)]
effects == [r \in Requests |-> Effect(r)]

\* A word and an effect depend on the request's own part of the state.
LEMMA SameWord ==
    ASSUME NEW r \in Requests, pc'[r] = pc[r], reply'[r] = reply[r]
    PROVE  Word(r)' = Word(r)
  BY DEF Word

LEMMA SameEffect ==
    ASSUME NEW r \in Requests, statement'[r] = statement[r]
    PROVE  Effect(r)' = Effect(r)
  BY DEF Effect

\* A handler that has not replied has told nothing.
LEMMA Untold ==
    ASSUME TypeOK, Books, NEW r \in Requests,
           pc[r] \in {"received", "waiting", "cut"}
    PROVE  Word(r) = Result("waiting", Default)
  <1>1. reply[r].status = 0
    BY DEF Books, Placed
  <1> QED
    BY <1>1 DEF Word

\* A reply says a word; the rest of the state is left alone.
LEMMA ReplySays ==
    ASSUME TypeOK, NEW r \in Requests, NEW status \in Nat, NEW row,
           Respond(r, status, row)
    PROVE  /\ Word(r)' = CASE status \in {200, 201}      -> Result("row", row)
                           [] status = 404               -> Result("absent", Default)
                           [] status \in {400, 401, 422} -> Result("refused", Default)
                           [] OTHER                      -> Result("waiting", Default)
           /\ words' = [words EXCEPT ![r] = Word(r)']
           /\ effects' = effects
           /\ op' = op /\ rows' = rows
  <1>1. pc'[r] = "done" /\ reply'[r] = [status |-> status, row |-> row]
    BY DEF TypeOK, Respond
  <1>2. reply'[r].status = status /\ reply'[r].row = row
    BY <1>1
  <1>3. \A s \in Requests : s # r => Word(s)' = Word(s)
    <2> SUFFICES ASSUME NEW s \in Requests, s # r PROVE Word(s)' = Word(s)
      OBVIOUS
    <2>1. pc'[s] = pc[s] /\ reply'[s] = reply[s]
      BY DEF TypeOK, Respond
    <2> QED
      BY <2>1, SameWord
  <1>4. words' = [words EXCEPT ![r] = Word(r)']
    BY <1>3 DEF words
  <1>5. effects' = effects /\ op' = op /\ rows' = rows
    BY SameEffect DEF effects, Respond
  <1>6. pc'[r] # "unsent"
    BY <1>1
  <1>7. Word(r)' = CASE status \in {200, 201}      -> Result("row", row)
                     [] status = 404               -> Result("absent", Default)
                     [] status \in {400, 401, 422} -> Result("refused", Default)
                     [] OTHER                      -> Result("waiting", Default)
    BY <1>2, <1>6 DEF Word
  <1> QED
    BY <1>4, <1>5, <1>7

Stutter == UNCHANGED Promise!tableVars

\* A true answer, a refusal, or nothing that the administrator can rely on.
LEMMA AnswerStep ==
    ASSUME TypeOK, Books, NEW r \in Requests, pc[r] = "waiting",
           statement[r].tag \in {"row", "absent"}, Word(r)' = statement[r],
           words' = [words EXCEPT ![r] = Word(r)'], effects' = effects,
           op' = op, rows' = rows
    PROVE  Promise!Answer(r)
  <1>1. words[r] = Result("waiting", Default)
    BY Untold DEF words
  <1>2. effects[r] = statement[r] /\ effects[r] # Result("none", Default)
    BY DEF effects, Effect, Result
  <1> QED
    BY <1>1, <1>2 DEF Promise!Answer, Promise!Bare, Promise!Told, Result, words, effects

LEMMA RefuseStep ==
    ASSUME TypeOK, Books, NEW r \in Requests, pc[r] = "received",
           Word(r)' = Result("refused", Default),
           words' = [words EXCEPT ![r] = Word(r)'], effects' = effects,
           op' = op, rows' = rows
    PROVE  Promise!Refuse(r)
  <1>1. words[r] = Result("waiting", Default)
    BY Untold DEF words
  <1>2. effects[r] = Result("none", Default)
    <2>1. statement[r] = None
      BY DEF Books, Placed
    <2> QED
      BY <2>1, DefaultType DEF effects, Effect, None
  <1> QED
    BY <1>1, <1>2 DEF Promise!Refuse, Promise!Bare, Promise!Told, Result, words, effects

LEMMA DoubtStep ==
    ASSUME TypeOK, Books, NEW r \in Requests, pc[r] \in {"received", "waiting"},
           Respond(r, 500, Default)
    PROVE  Stutter
  <1>1. words[r] = Result("waiting", Default)
    BY Untold DEF words
  <1>2. Word(r)' = Result("waiting", Default) /\ words' = [words EXCEPT ![r] = Word(r)']
        /\ effects' = effects /\ op' = op /\ rows' = rows
    BY ReplySays
  <1>3. words' = words
    BY <1>1, <1>2 DEF words
  <1> QED
    BY <1>2, <1>3 DEF Stutter, Promise!tableVars, words, effects

LEMMA HandlerRefines ==
    ASSUME TypeOK, Books, NEW r \in Requests, Handler(r)
    PROVE  Promise!Answer(r) \/ Promise!Refuse(r) \/ Stutter
  <1>1. CASE Unauthorized(r)
    <2>1. Respond(r, 401, Default) /\ pc[r] = "received"
      BY <1>1 DEF Unauthorized
    <2>2. Word(r)' = Result("refused", Default)
      BY <2>1, ReplySays
    <2> QED
      BY <2>1, <2>2, ReplySays, RefuseStep
  <1>2. CASE Malformed(r)
    <2>1. Respond(r, 400, Default) /\ pc[r] = "received"
      BY <1>2 DEF Malformed
    <2>2. Word(r)' = Result("refused", Default)
      BY <2>1, ReplySays
    <2> QED
      BY <2>1, <2>2, ReplySays, RefuseStep
  <1>3. CASE Reject(r)
    <2>1. PICK status \in {400, 422} : Respond(r, status, Default)
      BY <1>3, ComplaintStatus DEF Reject, TypeOK
    <2>2. Word(r)' = Result("refused", Default) /\ pc[r] = "received"
      BY <1>3, <2>1, ReplySays DEF Reject
    <2> QED
      BY <2>1, <2>2, ReplySays, RefuseStep
  <1>4. CASE Send(r)
    <2>1. op' = op /\ rows' = rows /\ pc[r] = "received"
          /\ pc' = [pc EXCEPT ![r] = "waiting"] /\ reply' = reply
          /\ statement' = [statement EXCEPT ![r] = Result("running", Default)]
      BY <1>4 DEF Send
    <2>2. Word(r)' = Word(r)
      <3>1. reply[r].status = 0 /\ pc'[r] = "waiting"
        BY <2>1 DEF Books, Placed, TypeOK
      <3> QED
        BY <2>1, <3>1 DEF Word
    <2>3. Effect(r)' = Effect(r)
      <3>1. statement[r].tag = "none"
        BY <2>1, DefaultType DEF Books, Placed
      <3>2. statement'[r].tag = "running"
        BY <2>1 DEF TypeOK, Result
      <3> QED
        BY <3>1, <3>2 DEF Effect
    <2>4. \A s \in Requests : Word(s)' = Word(s) /\ Effect(s)' = Effect(s)
      <3> SUFFICES ASSUME NEW s \in Requests, s # r
                   PROVE  Word(s)' = Word(s) /\ Effect(s)' = Effect(s)
        BY <2>2, <2>3
      <3>1. pc'[s] = pc[s] /\ reply'[s] = reply[s] /\ statement'[s] = statement[s]
        BY <2>1 DEF TypeOK
      <3> QED
        BY <3>1, SameWord, SameEffect
    <2> QED
      BY <2>1, <2>4 DEF Stutter, Promise!tableVars
  <1>5. CASE NotSent(r) \/ GiveUp(r)
    BY <1>5, DoubtStep DEF NotSent, GiveUp
  <1>6. CASE ScanRow(r)
    <2> DEFINE status == IF op[r].kind = "create" THEN 201 ELSE 200
    <2>1. status \in {200, 201} /\ Respond(r, status, statement[r].row)
          /\ pc[r] = "waiting" /\ statement[r].tag = "row"
      BY <1>6 DEF ScanRow
    <2> HIDE DEF status
    <2>2. Word(r)' = Result("row", statement[r].row)
      BY <2>1, ReplySays
    <2>3. statement[r] = Result("row", statement[r].row)
      BY <2>1 DEF TypeOK, Result
    <2>4. words' = [words EXCEPT ![r] = Word(r)'] /\ effects' = effects
          /\ op' = op /\ rows' = rows
      BY <2>1, ReplySays
    <2>5. Word(r)' = statement[r]
      BY <2>2, <2>3
    <2> QED
      BY <2>1, <2>4, <2>5, AnswerStep
  <1>7. CASE ScanNothing(r)
    <2>1. Respond(r, 404, Default) /\ pc[r] = "waiting" /\ statement[r].tag = "absent"
      BY <1>7 DEF ScanNothing
    <2>2. Word(r)' = Result("absent", Default)
      BY <2>1, ReplySays
    <2>3. statement[r] = Result("absent", Default)
      BY <2>1 DEF Books, Executed
    <2> QED
      BY <2>1, <2>2, <2>3, ReplySays, AnswerStep
  <1> QED
    BY <1>1, <1>2, <1>3, <1>4, <1>5, <1>6, <1>7 DEF Handler

\* A statement that is executed gives its request its effect: the request was
\* waiting, and had none.
LEMMA TakesStep ==
    ASSUME TypeOK, Books, NEW r \in Requests, statement[r].tag = "running",
           UNCHANGED <<op, pc, reply>>, NEW tag \in {"row", "absent"}, NEW row \in Row,
           statement' = [statement EXCEPT ![r] = Result(tag, row)]
    PROVE  Promise!Takes(r, Result(tag, row))
  <1>1. Word(r) = Result("waiting", Default)
    <2>1. pc[r] # "unsent" /\ reply[r].status \in {0, 500}
      BY RunningUntold
    <2> QED
      BY <2>1 DEF Word
  <1>2. Effect(r) = Result("none", Default)
    BY DEF Effect, None
  <1>3. statement'[r] = Result(tag, row)
        /\ \A s \in Requests : s # r => statement'[s] = statement[s]
    BY DEF TypeOK
  <1>4. Effect(r)' = Result(tag, row)
    BY <1>3 DEF Effect, Result
  <1>5. effects' = [effects EXCEPT ![r] = Result(tag, row)]
    BY <1>3, <1>4, SameEffect DEF effects
  <1>6. words' = words
    BY SameWord DEF words
  <1> QED
    BY <1>1, <1>2, <1>5, <1>6
    DEF Promise!Takes, Promise!Bare, Promise!Told, Result, words, effects

LEMMA DatabaseRefines ==
    ASSUME TypeOK, Books, NEW r \in Requests, Database(r)
    PROVE  \/ Promise!Create(r) \/ Promise!Update(r) \/ Promise!Delete(r)
           \/ Promise!Fetch(r) \/ Promise!Miss(r) \/ Stutter
  <1>0. op[r] \in Operations /\ rows \in [DOMAIN rows -> Row] /\ Default \in Row
        /\ next \in Nat /\ DOMAIN rows \subseteq 1..(next - 1)
    BY DefaultType DEF TypeOK
  <1>1. statement[r].tag = "running" /\ UNCHANGED <<op, pc, reply>>
    BY DEF Database, Insert, Update, Delete, Select, NoRows, Abort, Executes
  <1> USE DEF Promise!Told, Promise!Bare, Promise!Edited, Result, Executes, Returns
  <1>2. CASE Insert(r)
    <2> DEFINE row == Overwrite(Default, op[r].payload)
    <2>1. row \in Row
      BY <1>0, OverwriteType
    <2>2. next \notin DOMAIN rows
      BY <1>0
    <2>3. /\ op[r].kind = "create"
          /\ rows' = [j \in DOMAIN rows \cup {next} |-> IF j = next THEN row ELSE rows[j]]
          /\ statement' = [statement EXCEPT ![r] = Result("row", row)]
      BY <1>2 DEF Insert
    <2>4. row = Promise!Edited(Default, op[r].payload)
      BY DEF Overwrite
    <2> HIDE DEF row
    <2>5. Promise!Takes(r, Result("row", row))
      BY <1>1, <2>1, <2>3, TakesStep
    <2>6. next \in DOMAIN rows' \ DOMAIN rows
      BY <2>2, <2>3
    <2> QED
      BY <2>3, <2>4, <2>5, <2>6 DEF Promise!Create
  <1>3. CASE Update(r)
    <2> DEFINE row == Overwrite(rows[op[r].id], op[r].payload)
    <2>1. row \in Row
      BY <1>0, <1>3, OverwriteType DEF Update
    <2>2. /\ op[r].kind = "update" /\ op[r].id \in DOMAIN rows
          /\ rows' = [rows EXCEPT ![op[r].id] = row]
          /\ statement' = [statement EXCEPT ![r] = Result("row", row)]
      BY <1>3 DEF Update
    <2>3. row = Promise!Edited(rows[op[r].id], op[r].payload)
      BY DEF Overwrite
    <2> HIDE DEF row
    <2>4. Promise!Takes(r, Result("row", row))
      BY <1>1, <2>1, <2>2, TakesStep
    <2> QED
      BY <2>2, <2>3, <2>4 DEF Promise!Update
  <1>4. CASE Delete(r)
    <2>1. rows[op[r].id] \in Row
      BY <1>0, <1>4 DEF Delete
    <2>2. Promise!Takes(r, Result("row", rows[op[r].id]))
      BY <1>1, <1>4, <2>1, TakesStep DEF Delete
    <2> QED
      BY <1>4, <2>2 DEF Delete, Promise!Delete
  <1>5. CASE Select(r)
    <2>1. rows[op[r].id] \in Row
      BY <1>0, <1>5 DEF Select
    <2>2. Promise!Takes(r, Result("row", rows[op[r].id]))
      BY <1>1, <1>5, <2>1, TakesStep DEF Select
    <2> QED
      BY <1>5, <2>2 DEF Select, Promise!Fetch
  <1>6. CASE NoRows(r)
    <2>1. Promise!Takes(r, Result("absent", Default))
      BY <1>0, <1>1, <1>6, TakesStep DEF NoRows
    <2> QED
      BY <1>6, <2>1 DEF NoRows, Promise!Miss
  <1>7. CASE Abort(r)
    <2>1. \A s \in Requests : Effect(s)' = Effect(s)
      <3>1. statement' = [statement EXCEPT ![r] = Result("aborted", Default)]
        BY <1>7 DEF Abort
      <3>2. statement'[r].tag = "aborted"
        BY <3>1 DEF TypeOK
      <3>3. Effect(r)' = Effect(r)
        BY <1>1, <3>2 DEF Effect
      <3>4. \A s \in Requests : s # r => statement'[s] = statement[s]
        BY <3>1 DEF TypeOK
      <3> QED
        BY <3>3, <3>4, SameEffect
    <2>2. \A s \in Requests : Word(s)' = Word(s)
      BY <1>1, SameWord
    <2>3. op' = op /\ rows' = rows
      BY <1>1, <1>7 DEF Abort
    <2> QED
      BY <2>1, <2>2, <2>3 DEF Stutter, Promise!tableVars
  <1> QED
    BY <1>2, <1>3, <1>4, <1>5, <1>6, <1>7 DEF Database

LEMMA ReceiveRefines ==
    ASSUME TypeOK, Books, NEW r \in Requests, Receive(r)
    PROVE  Promise!Ask(r)
  <1>1. pc[r] = "unsent" /\ pc' = [pc EXCEPT ![r] = "received"]
        /\ UNCHANGED <<op, reply, statement, rows>>
    BY DEF Receive
  <1>2. Word(r) = Result("unsent", Default)
    <2>1. reply[r].status = 0
      BY <1>1 DEF Books, Placed
    <2> QED
      BY <1>1, <2>1 DEF Word
  <1>3. Word(r)' = Result("waiting", Default)
    <2>1. pc'[r] = "received" /\ reply'[r].status = 0
      BY <1>1 DEF TypeOK, Books, Placed
    <2> QED
      BY <2>1 DEF Word
  <1>4. \A s \in Requests : s # r => Word(s)' = Word(s)
    <2> SUFFICES ASSUME NEW s \in Requests, s # r PROVE Word(s)' = Word(s)
      OBVIOUS
    <2>1. pc'[s] = pc[s] /\ reply'[s] = reply[s]
      BY <1>1 DEF TypeOK
    <2> QED
      BY <2>1, SameWord
  <1>5. words' = [words EXCEPT ![r] = Result("waiting", Default)]
    BY <1>3, <1>4 DEF words
  <1>6. effects' = effects
    BY <1>1, SameEffect DEF effects
  <1> QED
    BY <1>1, <1>2, <1>5, <1>6
    DEF Promise!Ask, Promise!Bare, Promise!Told, Result, words, effects

LEMMA CrashRefines ==
    ASSUME TypeOK, Books, Crash \/ UNCHANGED vars
    PROVE  Stutter
  <1>1. UNCHANGED <<op, reply, statement, rows>>
    BY DEF Crash, vars
  <1>2. \A r \in Requests : Word(r)' = Word(r)
    <2> SUFFICES ASSUME NEW r \in Requests PROVE Word(r)' = Word(r)
      OBVIOUS
    <2>1. CASE pc'[r] = pc[r]
      BY <1>1, <2>1, SameWord
    <2>2. CASE pc'[r] # pc[r]
      <3>1. pc[r] \in {"received", "waiting"} /\ pc'[r] = "cut"
        BY <2>2 DEF Crash, vars, TypeOK
      <3>2. reply[r].status = 0
        BY <3>1 DEF Books, Placed
      <3> QED
        BY <1>1, <3>1, <3>2 DEF Word
    <2> QED
      BY <2>1, <2>2
  <1>3. \A r \in Requests : Effect(r)' = Effect(r)
    BY <1>1, SameEffect
  <1> QED
    BY <1>1, <1>2, <1>3 DEF Stutter, Promise!tableVars

\* The handlers keep the promises of AdminTable: through concurrent requests,
\* late commits, lost connections and crashes, each request takes effect at most
\* once and in one step, and what it is told is true of that effect.
THEOREM KeepsPromises == Spec => ImplementsTable
  <1>1. Init => Promise!TableInit
    <2> SUFFICES ASSUME Init PROVE Promise!TableInit
      OBVIOUS
    <2>1. \A r \in Requests : Word(r) = Result("unsent", Default)
      <3> SUFFICES ASSUME NEW r \in Requests PROVE Word(r) = Result("unsent", Default)
        OBVIOUS
      <3>1. pc[r] = "unsent" /\ reply[r].status = 0
        BY DEF Init
      <3> QED
        BY <3>1 DEF Word
    <2>2. \A r \in Requests : Effect(r) = Result("none", Default)
      BY DefaultType DEF Init, Effect, None
    <2> QED
      BY <2>1, <2>2 DEF Promise!TableInit, Promise!Bare, Promise!Told, Result
  <1>2. TypeOK /\ Books /\ [Next]_vars => [Promise!TableNext]_Promise!tableVars
    <2> SUFFICES ASSUME TypeOK, Books, [Next]_vars
                 PROVE  Promise!TableNext \/ Stutter
      BY DEF Stutter
    <2>1. CASE Crash \/ UNCHANGED vars
      BY <2>1, CrashRefines
    <2>2. ASSUME NEW r \in Requests, Receive(r) \/ Handler(r) \/ Database(r)
          PROVE  Promise!TableNext \/ Stutter
      BY <2>2, ReceiveRefines, HandlerRefines, DatabaseRefines DEF Promise!TableNext
    <2> QED
      BY <2>1, <2>2 DEF Next
  <1> QED
    BY <1>1, <1>2, AlwaysBooks, PTL DEF Spec, ImplementsTable, Promise!TableSpec

-----------------------------------------------------------------------------
\* The list of a table: what its order names.

LEMMA OrderType == ListTimeout \in Nat /\ MetaTimeout <= ListTimeout
  BY TimeoutsAssumption

\* An order cut to some columns names only these and the id.
LEMMA ResolveNames == ASSUME NEW set
                      PROVE  /\ Resolve(set) \in SUBSET Whole
                             /\ Named(Resolve(set)) \subseteq set \cup {"id"}
  BY DEF Resolve, Named

\* A table that is there accepts such an order.
LEMMA CutAccepted == ASSUME columns \in Tables, columns # {}, NEW order,
                            Named(order) \subseteq columns \cup {"id"}
                     PROVE  Accepts(order)
  BY OrderAssumption DEF Accepts

\* Of a table that is not there nothing is kept.
LEMMA AbsentReadsById == ASSUME columns \in Tables, ~Accepts(Resolve(columns))
                         PROVE  ReadsById(Resolve(columns))
  <1>1. columns = {}
    BY CutAccepted, ResolveNames
  <1> QED
    BY <1>1 DEF Resolve, ReadsById, ById

-----------------------------------------------------------------------------
\* The inductive invariant of a list.

\* A first query is sent by the deadline of the probe and ends by its own.
Timely(r) ==
    /\ at[r] \in {"load", "probe"} => age[r] <= MetaTimeout
    /\ at[r] = "store" => age[r] < MetaTimeout
    /\ at[r] \in {"load", "probe", "store", "query"} => ~retried[r]
    /\ at[r] = "query" => since[r] <= MetaTimeout /\ age[r] <= since[r] + ReadTimeout
    /\ at[r] = "retry" => retried[r]
    /\ at[r] = "ok" /\ ~retried[r] => age[r] < MetaTimeout + ReadTimeout
    /\ at[r] = "failed" /\ ~retried[r] => age[r] <= MetaTimeout + ReadTimeout

\* What a handler knows of the columns is true, if not complete: columns stay.
Known(r) ==
    /\ read[r] \subseteq columns
    /\ rejected[r] => at[r] \in {"retry", "ok", "failed"} /\ ~resolved[r]
    /\ resolved[r] => Named(orderBy[r]) \subseteq columns \cup {"id"}

\* It is complete until the table changes; without a fault nothing is tried twice.
Complete(r) ==
    /\ at[r] = "store" => read[r] = columns
    /\ at[r] \in {"query", "ok"} /\ ~faulted[r] => orderBy[r] = Resolve(columns)
    /\ at[r] = "retry" => faulted[r]

ListInv ==
    /\ ListTypeOK
    /\ cached \subseteq columns
    /\ known /\ ~migrated => cached = columns
    /\ \A r \in Lists : Timely(r) /\ Known(r) /\ (~migrated => Complete(r))

LEMMA ListInitInv == ListInit => ListInv
  <1> SUFFICES ASSUME ListInit PROVE ListInv
    OBVIOUS
  <1>1. ListTypeOK
    <2>1. 0 \in 0..ListTimeout
      BY OrderType
    <2>2. cached \subseteq AllColumns /\ read \in [Lists -> SUBSET AllColumns]
      BY DEF ListInit
    <2>3. orderBy \in [Lists -> SUBSET Whole] /\ at \in [Lists -> Places]
      BY DEF ListInit, Places
    <2> QED
      BY <2>1, <2>2, <2>3 DEF ListInit, ListTypeOK
  <1>2. \A r \in Lists : at[r] = "idle" /\ read[r] = {} /\ ~rejected[r] /\ ~resolved[r]
    BY DEF ListInit
  <1>3. cached = {} /\ known = FALSE
    BY DEF ListInit
  <1> QED
    BY <1>1, <1>2, <1>3 DEF ListInv, Timely, Known, Complete

\* A step of one request that leaves the table alone and its cache true.
LEMMA OneKeeps == ASSUME ListInv, ListTypeOK', NEW r \in Lists, UNCHANGED <<columns, migrated>>,
                         \A q \in Lists \ {r} : /\ at'[q] = at[q] /\ age'[q] = age[q] /\ since'[q] = since[q]
                                                /\ read'[q] = read[q] /\ orderBy'[q] = orderBy[q]
                                                /\ retried'[q] = retried[q] /\ resolved'[q] = resolved[q]
                                                /\ rejected'[q] = rejected[q] /\ faulted'[q] = faulted[q],
                         cached' \subseteq columns, known' /\ ~migrated => cached' = columns,
                         Timely(r)', Known(r)', ~migrated => Complete(r)'
                  PROVE  ListInv'
  <1>1. ASSUME NEW q \in Lists PROVE Timely(q)' /\ Known(q)' /\ (~migrated' => Complete(q)')
    <2>1. CASE q = r
      BY <2>1
    <2>2. CASE q # r
      BY <2>2 DEF ListInv, Timely, Known, Complete, Resolve
    <2> QED
      BY <2>1, <2>2
  <1> QED
    BY <1>1 DEF ListInv

LEMMA BeginKeeps == ASSUME ListInv, NEW r \in Lists, Begin(r) PROVE ListInv'
  <1> USE DEF ListInv, ListTypeOK, Begin
  <1>1. ListTypeOK'
    BY OrderType DEF Places
  <1>2. Timely(r)'
    BY TimeoutsAssumption DEF Timely
  <1>3. Known(r)' /\ Complete(r)'
    BY DEF Known, Complete
  <1> QED
    BY <1>1, <1>2, <1>3, OneKeeps

\* A query is sent in an order cut to columns the table has, by the deadline of
\* the probe.
LEMMA AskKeeps == ASSUME ListInv, NEW r \in Lists, NEW set, Ask(r, set), set \subseteq columns,
                         ~migrated => set = columns,
                         at[r] \in {"load", "store"},
                         read' = read \/ read' = [read EXCEPT ![r] = {}],
                         cached' \subseteq columns, known' \in BOOLEAN, known' /\ ~migrated => cached' = columns
                  PROVE  ListInv'
  <1> USE DEF ListInv, ListTypeOK, Ask
  <1>1. ListTypeOK'
    <2>1. cached' \subseteq AllColumns
      BY OrderAssumption
    <2>2. read' \in [Lists -> SUBSET AllColumns] /\ orderBy' \in [Lists -> SUBSET Whole]
      BY ResolveNames
    <2> QED
      BY <2>1, <2>2 DEF Places, Waiting
  <1>2. Timely(r)'
    BY TimeoutsAssumption DEF Timely
  <1>3. Known(r)'
    BY ResolveNames DEF Known
  <1>4. ~migrated => Complete(r)'
    BY DEF Complete, Resolve
  <1> QED
    BY <1>1, <1>2, <1>3, <1>4, OneKeeps

LEMMA ProbesKeep == ASSUME ListInv, NEW r \in Lists, LoadHit(r) \/ LoadMiss(r) \/ Probe(r) \/ Store(r)
                    PROVE  ListInv'
  <1> USE DEF ListInv, ListTypeOK
  <1>1. CASE LoadHit(r)
    BY <1>1, AskKeeps DEF LoadHit
  <1>2. CASE LoadMiss(r)
    <2>1. ListTypeOK'
      BY <1>2 DEF LoadMiss, Places, Waiting
    <2>2. Timely(r)' /\ Known(r)' /\ Complete(r)'
      BY <1>2 DEF LoadMiss, Timely, Known, Complete
    <2> QED
      BY <1>2, <2>1, <2>2, OneKeeps DEF LoadMiss
  <1>3. CASE Probe(r)
    <2>1. ListTypeOK'
      <3>1. read' \in [Lists -> SUBSET AllColumns]
        BY <1>3, OrderAssumption DEF Probe
      <3> QED
        BY <1>3, <3>1 DEF Probe, Places, Waiting
    <2>2. Timely(r)'
      BY <1>3 DEF Probe, Timely, InTime, Deadline
    <2>3. Known(r)' /\ Complete(r)'
      BY <1>3 DEF Probe, Known, Complete
    <2> QED
      BY <1>3, <2>1, <2>2, <2>3, OneKeeps DEF Probe
  <1>4. CASE Store(r)
    <2>1. read[r] \subseteq columns /\ (~migrated => read[r] = columns)
      BY <1>4 DEF Store, Known, Complete
    <2> QED
      BY <1>4, <2>1, AskKeeps DEF Store
  <1> QED
    BY <1>1, <1>2, <1>3, <1>4

\* Sending the query again, or giving up.
LEMMA AgainKeeps == ASSUME ListInv, NEW r \in Lists, Again(r), at[r] \in {"query", "retry"},
                           faulted' \in [Lists -> BOOLEAN], rejected' \in [Lists -> BOOLEAN],
                           \A q \in Lists \ {r} : faulted'[q] = faulted[q] /\ rejected'[q] = rejected[q],
                           rejected'[r] => ~resolved[r],
                           ~migrated /\ at'[r] = "retry" => faulted'[r]
                    PROVE  ListInv'
  <1> USE DEF ListInv, ListTypeOK, Again
  <1>1. ListTypeOK'
    BY DEF Places, Waiting, ById
  <1>2. Timely(r)'
    BY TimeoutsAssumption DEF Timely
  <1>3. Known(r)'
    BY DEF Known, Named
  <1>4. ~migrated => Complete(r)'
    BY DEF Complete
  <1>5. \A q \in Lists \ {r} : at'[q] = at[q] /\ since'[q] = since[q] /\ orderBy'[q] = orderBy[q]
                               /\ retried'[q] = retried[q]
    OBVIOUS
  <1> QED
    BY <1>1, <1>2, <1>3, <1>4, <1>5, OneKeeps

LEMMA QueriesKeep == ASSUME ListInv, NEW r \in Lists, ProbeFails(r) \/ Listed(r) \/ Refused(r) \/ Lose(r)
                     PROVE  ListInv'
  <1> USE DEF ListInv, ListTypeOK
  <1>1. CASE ProbeFails(r)
    <2>1. ListTypeOK'
      BY <1>1 DEF ProbeFails, Places, Waiting
    <2>2. Timely(r)'
      BY <1>1, TimeoutsAssumption DEF ProbeFails, Timely
    <2>3. Known(r)' /\ Complete(r)'
      BY <1>1 DEF ProbeFails, Known, Complete
    <2> QED
      BY <1>1, <2>1, <2>2, <2>3, OneKeeps DEF ProbeFails
  <1>2. CASE Listed(r)
    <2>1. ListTypeOK'
      BY <1>2 DEF Listed, Places
    <2>2. Timely(r)'
      BY <1>2, TimeoutsAssumption DEF Listed, Timely, InTime, Deadline
    <2>3. Known(r)' /\ (~migrated => Complete(r)')
      BY <1>2 DEF Listed, Known, Complete, Resolve
    <2> QED
      BY <1>2, <2>1, <2>2, <2>3, OneKeeps DEF Listed
  <1>3. CASE Refused(r)
    <2>1. rejected'[r] => ~resolved[r]
      BY <1>3, CutAccepted DEF Refused, Known
    <2>2. ~migrated /\ at'[r] = "retry" => faulted'[r]
      BY <1>3, AbsentReadsById DEF Refused, Again, Complete
    <2> QED
      BY <1>3, <2>1, <2>2, AgainKeeps DEF Refused
  <1>4. CASE Lose(r)
    <2>1. rejected'[r] => ~resolved[r]
      BY <1>4 DEF Lose, Known
    <2> QED
      BY <1>4, <2>1, AgainKeeps DEF Lose
  <1> QED
    BY <1>1, <1>2, <1>3, <1>4

\* Time passes for those who wait, up to the first deadline.
LEMMA TickKeeps == ASSUME ListInv, Tick PROVE ListInv'
  <1> USE DEF ListInv, ListTypeOK, Tick
  <1>1. ASSUME NEW r \in Lists, InFlight(r)
        PROVE  at[r] \in Waiting /\ age[r] < Deadline(r) /\ age'[r] = age[r] + 1
    BY <1>1 DEF InTime
  <1>2. ASSUME NEW r \in Lists PROVE age'[r] \in 0..ListTimeout /\ Timely(r)'
    <2>1. CASE InFlight(r)
      BY <1>1, <2>1, OrderType, TimeoutsAssumption DEF Deadline, Timely, Waiting
    <2>2. CASE ~InFlight(r)
      <3>1. age'[r] = age[r] /\ at[r] \in {"idle", "ok", "failed"}
        BY <2>2 DEF InFlight
      <3> QED
        BY <3>1 DEF Timely
    <2> QED
      BY <2>1, <2>2
  <1>3. ListTypeOK'
    BY <1>2
  <1>4. \A r \in Lists : Known(r)' /\ (~migrated => Complete(r)')
    BY DEF Known, Complete, Resolve
  <1> QED
    BY <1>2, <1>3, <1>4

LEMMA MigrateKeeps == ASSUME ListInv, Migrate PROVE ListInv'
  <1> USE DEF ListInv, ListTypeOK, Migrate
  <1>1. ListTypeOK' /\ columns \subseteq columns' /\ migrated'
    OBVIOUS
  <1>2. \A r \in Lists : Timely(r)' /\ Known(r)'
    BY DEF Timely, Known
  <1> QED
    BY <1>1, <1>2

LEMMA ListNextInv == ListInv /\ [ListNext]_listVars => ListInv'
  <1> SUFFICES ASSUME ListInv, [ListNext]_listVars PROVE ListInv'
    OBVIOUS
  <1>1. CASE UNCHANGED listVars
    BY <1>1 DEF listVars, ListInv, ListTypeOK, Timely, Known, Complete, Resolve
  <1>2. CASE ListNext
    BY <1>2, BeginKeeps, ProbesKeep, QueriesKeep, TickKeeps, MigrateKeeps DEF ListNext, Listing
  <1> QED
    BY <1>1, <1>2

LEMMA ListHolds == ListSpec => []ListInv
  BY ListInitInv, ListNextInv, PTL DEF ListSpec

\* The state of a list keeps its shape, and no list outlasts its deadline.
THEOREM ListTypeCorrect == ListSpec => []ListTypeOK
  <1>1. ListInv => ListTypeOK
    BY DEF ListInv
  <1> QED
    BY ListHolds, <1>1, PTL

\* Rows brought by the first query are written before the server stops writing.
THEOREM FirstAnswersHeard == ListSpec => []FirstAnswerHeard
  <1>1. ListInv => FirstAnswerHeard
    BY TimeoutsAssumption DEF ListInv, ListTypeOK, Timely, FirstAnswerHeard, Heard
  <1> QED
    BY ListHolds, <1>1, PTL

\* An order that was cut to the known columns is never rejected by a table that is
\* there.
THEOREM ResolvedAccepted == ListSpec => []ResolvedNeverRejected
  <1>1. ListInv => ResolvedNeverRejected
    BY DEF ListInv, Known, ResolvedNeverRejected
  <1> QED
    BY ListHolds, <1>1, PTL

\* Until the table changes, a list that met no fault is in the whole configured
\* order, less the columns the table lacks.
THEOREM ListsInOrder == ListSpec => []SettledInOrder
  <1>1. ListInv => SettledInOrder
    BY DEF ListInv, Complete, SettledInOrder
  <1> QED
    BY ListHolds, <1>1, PTL

-----------------------------------------------------------------------------
\* How many steps a list has left at most: the cache, the probe, the store, the
\* query and its repetition.
Left(r) ==
    CASE at[r] = "load"  -> 5
      [] at[r] = "probe" -> 4
      [] at[r] = "store" -> 3
      [] at[r] = "query" -> 2
      [] at[r] = "retry" -> 1
      [] at[r] \in {"idle", "ok", "failed"} -> 0

\* Each step of it is one less.
LEMMA ListingAdvances == ASSUME ListTypeOK, NEW r \in Lists, Listing(r)
                         PROVE  Left(r)' < Left(r)
  <1> USE DEF ListTypeOK, Places, Waiting, Left
  <1>1. CASE LoadHit(r)
    BY <1>1 DEF LoadHit, Ask
  <1>2. CASE LoadMiss(r)
    BY <1>2 DEF LoadMiss
  <1>3. CASE Probe(r)
    BY <1>3 DEF Probe
  <1>4. CASE Store(r)
    BY <1>4 DEF Store, Ask
  <1>5. CASE ProbeFails(r)
    BY <1>5 DEF ProbeFails
  <1>6. CASE Listed(r)
    BY <1>6 DEF Listed
  <1>7. CASE Refused(r)
    BY <1>7 DEF Refused, Again
  <1>8. CASE Lose(r)
    BY <1>8 DEF Lose, Again
  <1> QED
    BY <1>1, <1>2, <1>3, <1>4, <1>5, <1>6, <1>7, <1>8 DEF Listing

\* The steps of one list leave the others where they are.
LEMMA OthersStay == ASSUME ListTypeOK, NEW q \in Lists, Begin(q) \/ Listing(q), NEW r \in Lists \ {q}
                    PROVE  at'[r] = at[r] /\ age'[r] = age[r]
  <1> USE DEF ListTypeOK
  <1>1. CASE Begin(q) \/ LoadHit(q) \/ LoadMiss(q) \/ Probe(q)
    BY <1>1 DEF Begin, LoadHit, LoadMiss, Probe, Ask
  <1>2. CASE Store(q) \/ ProbeFails(q) \/ Listed(q)
    BY <1>2 DEF Store, ProbeFails, Listed, Ask
  <1>3. CASE Refused(q) \/ Lose(q)
    BY <1>3 DEF Refused, Lose, Again
  <1> QED
    BY <1>1, <1>2, <1>3 DEF Listing

\* A list cannot go on for ever: each step of its handler is one less to take, of
\* five at most, whatever other lists and migrations do; and between them time
\* passes only up to its deadline.
THEOREM ListsAdvance ==
    ListSpec => [][ \A r \in Lists :
                       /\ Listing(r) => Left(r)' < Left(r)
                       /\ InFlight(r) /\ ~Listing(r) =>
                            /\ Left(r)' = Left(r)
                            /\ age'[r] = (IF Tick THEN age[r] + 1 ELSE age[r])
                            /\ age'[r] <= ListTimeout ]_listVars
  <1>1. ASSUME ListTypeOK, ListTypeOK', [ListNext]_listVars, NEW r \in Lists, InFlight(r), ~Listing(r)
        PROVE  /\ Left(r)' = Left(r)
               /\ age'[r] = (IF Tick THEN age[r] + 1 ELSE age[r])
               /\ age'[r] <= ListTimeout
    <2>1. age'[r] <= ListTimeout
      BY <1>1, OrderType DEF ListTypeOK
    <2>2. ASSUME at'[r] = at[r] PROVE Left(r)' = Left(r)
      BY <1>1, <2>2 DEF Left, ListTypeOK, Places, Waiting
    <2>3. CASE Tick
      <3>1. at' = at /\ age'[r] = age[r] + 1
        BY <1>1, <2>3 DEF Tick, ListTypeOK
      <3> QED
        BY <2>1, <2>2, <2>3, <3>1
    <2>4. CASE ~Tick
      <3>1. ~Begin(r)
        BY <1>1 DEF Begin, InFlight
      <3>2. at'[r] = at[r] /\ age'[r] = age[r]
        BY <1>1, <2>4, <3>1, OthersStay DEF ListNext, Migrate, listVars
      <3> QED
        BY <2>1, <2>2, <2>4, <3>2
    <2> QED
      BY <2>3, <2>4
  <1>2. ListTypeOK /\ ListTypeOK' /\ [ListNext]_listVars =>
          \A r \in Lists : /\ Listing(r) => Left(r)' < Left(r)
                           /\ InFlight(r) /\ ~Listing(r) =>
                                /\ Left(r)' = Left(r)
                                /\ age'[r] = (IF Tick THEN age[r] + 1 ELSE age[r])
                                /\ age'[r] <= ListTimeout
    BY <1>1, ListingAdvances
  <1> QED
    BY <1>2, ListTypeCorrect, PTL DEF ListSpec
=============================================================================
