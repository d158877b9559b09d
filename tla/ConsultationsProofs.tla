------------------------- MODULE ConsultationsProofs -------------------------
(***************************************************************************)
(* What holds of the consultation endpoint for every set of submissions    *)
(* and every family of bodies.                                             *)
(***************************************************************************)
EXTENDS Consultations, TLAPS

\* The columns of a body are texts a row may hold.
LEMMA ColumnsType == \A p \in Bodies : Columns(p.text) \in Rows
  BY DEF Bodies, Texts, Fields, Columns, Rows, Trim

\* The shape of the state is kept by every step of the handlers, the database,
\* the webhook and the process.
THEOREM TypeCorrect == Spec => []TypeOK
<1>1. Init => TypeOK
  <2> SUFFICES ASSUME Init PROVE TypeOK
    OBVIOUS
  <2>1. DOMAIN rows = {}
    BY DEF Init
  <2>2. rows \in [DOMAIN rows -> Rows]
    BY <2>1 DEF Init
  <2> QED
    BY <2>1, <2>2 DEF Init, TypeOK
<1>2. TypeOK /\ [Next]_vars => TypeOK'
  <2> SUFFICES ASSUME TypeOK, [Next]_vars PROVE TypeOK'
    OBVIOUS
  <2> USE DEF TypeOK, Active
  <2>1. ASSUME NEW s \in Submissions, Submit(s) PROVE TypeOK'
    BY <2>1 DEF Submit
  <2>2. ASSUME NEW s \in Submissions, Malformed(s) \/ Invalid(s) PROVE TypeOK'
    BY <2>2 DEF Malformed, Invalid, Respond
  <2>3. ASSUME NEW s \in Submissions, Validate(s) \/ Scan(s) PROVE TypeOK'
    BY <2>3 DEF Validate, Scan
  <2>4. ASSUME NEW s \in Submissions, Send(s) PROVE TypeOK'
    BY <2>4 DEF Send
  <2>5. ASSUME NEW s \in Submissions, NotSent(s) \/ GiveUp(s) \/ Confirm(s) PROVE TypeOK'
    BY <2>5 DEF NotSent, GiveUp, Confirm, Respond
  <2>6. ASSUME NEW s \in Submissions, Notify(s) PROVE TypeOK'
    BY <2>6 DEF Notify
  <2>7. ASSUME NEW s \in Submissions, SendAlert(s) \/ EndAlert(s) PROVE TypeOK'
    BY <2>7 DEF SendAlert, EndAlert
  <2>8. ASSUME NEW s \in Submissions, Commit(s) PROVE TypeOK'
    <3>1. body[s] \in Bodies
      BY PayloadsAssumption
    <3>2. Columns(body[s].text) \in Rows
      BY <3>1, ColumnsType
    <3>3. DOMAIN rows' = DOMAIN rows \cup {s} /\ rows' \in [DOMAIN rows' -> Rows]
      BY <2>8, <3>2 DEF Commit
    <3> QED
      BY <2>8, <3>3 DEF Commit
  <2>9. ASSUME NEW s \in Submissions, Abort(s) \/ ReceiveAlert(s) PROVE TypeOK'
    BY <2>9 DEF Abort, ReceiveAlert
  <2>10. CASE Signal \/ ShutdownReturns \/ CloseDB \/ Start
    <3>1. server' \in {"up", "draining", "closing", "closed", "down"}
      BY <2>10 DEF Signal, ShutdownReturns, CloseDB, Start
    <3>2. UNCHANGED <<body, pc, reply, statement, rows, alert, wire, received>>
      BY <2>10 DEF Signal, ShutdownReturns, CloseDB, Start
    <3> QED
      BY <3>1, <3>2
  <2>11. CASE Exit \/ Crash
    BY <2>11 DEF Exit, Crash, Stop
  <2>12. CASE UNCHANGED vars
    BY <2>12 DEF vars
  <2> QED
    BY <2>1, <2>2, <2>3, <2>4, <2>5, <2>6, <2>7, <2>8, <2>9, <2>10, <2>11, <2>12
    DEF Next, Handler, Process
<1> QED
  BY <1>1, <1>2, PTL DEF Spec

-----------------------------------------------------------------------------
\* The books agree: what the handler has said, what the statement has come to,
\* what the table holds and what the notification goroutine has done never
\* contradict each other, whichever of them was cut off.
Agree(s) ==
    /\ s \in DOMAIN rows <=> statement[s] = "committed"
    /\ pc[s] \in {"unsent", "received", "insert"} => statement[s] = "none"
    /\ pc[s] \in {"created", "reply"} => statement[s] = "committed"
    /\ pc[s] # "done" => reply[s] = 0
    /\ pc[s] = "reply" => alert[s] # "none"
    /\ reply[s] \in {400, 422} => statement[s] = "none"
    /\ reply[s] = 201 => statement[s] = "committed" /\ alert[s] # "none"
    /\ alert[s] # "none" => reply[s] \in {0, 201}
    /\ alert[s] # "none" => statement[s] = "committed" /\ pc[s] \in {"reply", "done", "cut"}
    /\ s \in wire => alert[s] # "none"
    /\ s \in received => s \in wire

Books == \A s \in Submissions : Agree(s)

LEMMA BooksStep == TypeOK /\ Books /\ [Next]_vars => Books'
<1> SUFFICES ASSUME TypeOK, Books, [Next]_vars, NEW t \in Submissions PROVE Agree(t)'
  BY DEF Books
<1>a. Agree(t)
  BY DEF Books
<1> USE <1>a DEF TypeOK, Agree, Active
<1>1. ASSUME NEW s \in Submissions, Submit(s) PROVE Agree(t)'
  BY <1>1 DEF Submit
<1>2. ASSUME NEW s \in Submissions, Malformed(s) \/ Invalid(s) PROVE Agree(t)'
  BY <1>2 DEF Malformed, Invalid, Respond
<1>3. ASSUME NEW s \in Submissions, Validate(s) \/ Scan(s) PROVE Agree(t)'
  BY <1>3 DEF Validate, Scan
<1>4. ASSUME NEW s \in Submissions, Send(s) PROVE Agree(t)'
  BY <1>4 DEF Send
<1>5. ASSUME NEW s \in Submissions, NotSent(s) \/ GiveUp(s) \/ Confirm(s) PROVE Agree(t)'
  BY <1>5 DEF NotSent, GiveUp, Confirm, Respond
<1>6. ASSUME NEW s \in Submissions, Notify(s) PROVE Agree(t)'
  BY <1>6 DEF Notify
<1>7. ASSUME NEW s \in Submissions, SendAlert(s) \/ EndAlert(s) PROVE Agree(t)'
  BY <1>7 DEF SendAlert, EndAlert
<1>8. ASSUME NEW s \in Submissions, Commit(s) PROVE Agree(t)'
  <2>1. DOMAIN rows' = DOMAIN rows \cup {s}
    BY <1>8 DEF Commit
  <2>2. Agree(s)
    BY DEF Books
  <2> QED
    BY <1>8, <2>1, <2>2 DEF Commit
<1>9. ASSUME NEW s \in Submissions, Abort(s) \/ ReceiveAlert(s) PROVE Agree(t)'
  BY <1>9 DEF Abort, ReceiveAlert
<1>10. CASE Signal \/ ShutdownReturns \/ CloseDB \/ Start
  BY <1>10 DEF Signal, ShutdownReturns, CloseDB, Start
<1>11. CASE Exit \/ Crash
  BY <1>11 DEF Exit, Crash, Stop
<1>12. CASE UNCHANGED vars
  BY <1>12 DEF vars
<1> QED
  BY <1>1, <1>2, <1>3, <1>4, <1>5, <1>6, <1>7, <1>8, <1>9, <1>10, <1>11, <1>12
  DEF Next, Handler, Process

LEMMA AlwaysBooks == Spec => []Books
<1>1. Init => Books
  <2> SUFFICES ASSUME Init, NEW s \in Submissions PROVE Agree(s)
    BY DEF Books
  <2>1. s \notin DOMAIN rows
    BY DEF Init
  <2>2. /\ pc[s] = "unsent" /\ reply[s] = 0 /\ statement[s] = "none" /\ alert[s] = "none"
        /\ s \notin wire /\ s \notin received
    BY DEF Init
  <2> QED
    BY <2>1, <2>2 DEF Agree
<1> QED
  BY <1>1, BooksStep, TypeCorrect, PTL DEF Spec

\* Whoever was told that the consultation is registered, its notification was
\* handed to a goroutine first.
THEOREM NotifiesConfirmed == Spec => []ConfirmedIsNotified
<1>1. Books => ConfirmedIsNotified
  BY DEF Books, Agree, ConfirmedIsNotified
<1> QED
  BY <1>1, AlwaysBooks, PTL

-----------------------------------------------------------------------------
\* A step that replies with status changes at most the word of its submission.
LEMMA WordOfReply ==
    ASSUME TypeOK, NEW s \in Submissions, NEW status, Respond(s, status)
    PROVE  [t \in Submissions |-> Word(reply'[t])] =
           [[t \in Submissions |-> Word(reply[t])] EXCEPT ![s] = Word(status)]
  BY DEF TypeOK, Respond

\* The handlers, the database, the webhook and the process together implement
\* the promises of Inbox: every step is one of its steps, or none.
THEOREM KeepsPromises == Spec => ImplementsInbox
<1>1. Init => Promise!Init
  BY DEF Init, Promise!Init, Word
<1>2. TypeOK /\ Books /\ [Next]_vars => [Promise!Next]_Promise!inboxVars
  <2> SUFFICES ASSUME TypeOK, Books, [Next]_vars
               PROVE  Promise!Next \/ UNCHANGED Promise!inboxVars
    OBVIOUS
  <2> DEFINE word == [t \in Submissions |-> Word(reply[t])]
  <2> USE DEF Promise!Next, Promise!inboxVars
  <2>1. ASSUME NEW s \in Submissions, Malformed(s) \/ Invalid(s) PROVE Promise!Next
    <3>1. Agree(s) /\ pc[s] = "received"
      BY <2>1 DEF Books, Malformed, Invalid
    <3>2. s \notin DOMAIN rows /\ word[s] = "none"
      BY <3>1 DEF Agree, Word
    <3>3. word' = [word EXCEPT ![s] = "refused"]
      BY <2>1, WordOfReply DEF Malformed, Invalid, Word
    <3>4. Promise!Refuse(s)
      BY <2>1, <3>2, <3>3 DEF Malformed, Invalid, Promise!Refuse
    <3> QED
      BY <3>4
  <2>2. ASSUME NEW s \in Submissions, NotSent(s) \/ GiveUp(s)
        PROVE  UNCHANGED Promise!inboxVars
    <3>1. Agree(s) /\ pc[s] # "done"
      BY <2>2 DEF Books, NotSent, GiveUp
    <3>2. word[s] = "none"
      BY <3>1 DEF Agree, Word
    <3>3. word' = [word EXCEPT ![s] = "none"]
      BY <2>2, WordOfReply DEF NotSent, GiveUp, Word
    <3>4. word' = word
      BY <3>2, <3>3
    <3> QED
      BY <2>2, <3>4 DEF NotSent, GiveUp
  <2>3. ASSUME NEW s \in Submissions, Confirm(s) PROVE Promise!Next
    <3>1. Agree(s) /\ pc[s] = "reply"
      BY <2>3 DEF Books, Confirm
    <3>2. s \in DOMAIN rows /\ word[s] = "none"
      BY <3>1 DEF Agree, Word
    <3>3. word' = [word EXCEPT ![s] = "confirmed"]
      BY <2>3, WordOfReply DEF Confirm, Word
    <3>4. Promise!Confirm(s)
      BY <2>3, <3>2, <3>3 DEF Confirm, Promise!Confirm
    <3> QED
      BY <3>4
  <2>4. ASSUME NEW s \in Submissions, Commit(s) PROVE Promise!Next
    <3>1. Agree(s) /\ statement[s] = "running" /\ reply[s] \in {0, 201, 400, 422, 500}
      BY <2>4 DEF Books, Commit, TypeOK
    <3>2. s \notin DOMAIN rows /\ word[s] = "none"
      BY <3>1 DEF Agree, Word
    <3>3. DOMAIN rows' = DOMAIN rows \cup {s} /\ word' = word
      BY <2>4 DEF Commit
    <3>4. Promise!Record(s)
      BY <2>4, <3>2, <3>3 DEF Commit, Promise!Record
    <3> QED
      BY <3>4
  <2>5. ASSUME NEW s \in Submissions, ReceiveAlert(s) PROVE Promise!Next
    <3>1. Agree(s) /\ s \in wire
      BY <2>5 DEF Books, ReceiveAlert
    <3>2. s \in DOMAIN rows
      BY <3>1 DEF Agree
    <3>3. Promise!Alert(s)
      BY <2>5, <3>2 DEF ReceiveAlert, Promise!Alert
    <3> QED
      BY <3>3
  <2>6. ASSUME NEW s \in Submissions,
               \/ Submit(s) \/ Validate(s) \/ Send(s) \/ Scan(s) \/ Notify(s)
               \/ SendAlert(s) \/ EndAlert(s) \/ Abort(s)
        PROVE  UNCHANGED Promise!inboxVars
    BY <2>6 DEF Submit, Validate, Send, Scan, Notify, SendAlert, EndAlert, Abort
  <2>7. CASE Process \/ UNCHANGED vars
    BY <2>7 DEF Process, Signal, ShutdownReturns, CloseDB, Start,
                Exit, Crash, Stop, vars
  <2> QED
    BY <2>1, <2>2, <2>3, <2>4, <2>5, <2>6, <2>7 DEF Next, Handler
<1> QED
  BY <1>1, <1>2, TypeCorrect, AlwaysBooks, PTL DEF Spec, ImplementsInbox, Promise!Spec

-----------------------------------------------------------------------------
\* A body without errors is clean once it is trimmed.
LEMMA ValidIsClean == ASSUME NEW p \in Bodies, FieldErrors(p.text) = {}
                      PROVE  LET row == Columns(p.text)
                             IN  /\ row["required"] = "good" /\ row["phone"] = "good"
                                 /\ row["optional"] \in {"good", "null"}
<1>1. \A f \in Fields : p.text[f] \in Texts
  BY DEF Bodies
<1>2. \A f \in Fields : /\ Trim(p.text[f]) # "bad"
                        /\ f # "optional" => Trim(p.text[f]) # "empty"
  BY DEF FieldErrors
<1>3. \A t \in Texts : Trim(t) \in {"empty", "good", "bad"}
  BY DEF Texts, Trim
<1>4. /\ "required" \in Fields /\ "phone" \in Fields /\ "optional" \in Fields
      /\ "required" # "optional" /\ "phone" # "optional"
  BY DEF Fields
<1>5. /\ Trim(p.text["required"]) = "good" /\ Trim(p.text["phone"]) = "good"
      /\ Trim(p.text["optional"]) \in {"empty", "good"}
  BY <1>1, <1>2, <1>3, <1>4
<1> QED
  BY <1>4, <1>5 DEF Columns

\* Past the checks a body has no error; a row is what its body comes to.
Checked(s) ==
    /\ pc[s] \in {"insert", "waiting", "created", "reply"} \/ statement[s] # "none" =>
         FieldErrors(body[s].text) = {}
    /\ s \in DOMAIN rows =>
         statement[s] # "none" /\ rows[s] = Columns(body[s].text)

CheckedAll == \A s \in Submissions : Checked(s)

LEMMA CheckedStep == TypeOK /\ CheckedAll /\ [Next]_vars => CheckedAll'
<1> SUFFICES ASSUME TypeOK, CheckedAll, [Next]_vars, NEW t \in Submissions PROVE Checked(t)'
  BY DEF CheckedAll
<1>a. Checked(t)
  BY DEF CheckedAll
<1> USE <1>a DEF TypeOK, Checked
<1>1. ASSUME UNCHANGED <<body, statement, rows>>,
             pc'[t] = pc[t] \/ pc'[t] \notin {"insert", "waiting", "created", "reply"}
                \/ pc[t] \in {"insert", "waiting", "created", "reply"}
      PROVE  Checked(t)'
  BY <1>1
<1>2. ASSUME NEW s \in Submissions,
             Submit(s) \/ Malformed(s) \/ Invalid(s) \/ NotSent(s) \/ Scan(s) \/ GiveUp(s)
                \/ Notify(s) \/ Confirm(s) \/ SendAlert(s) \/ EndAlert(s) \/ ReceiveAlert(s)
      PROVE  Checked(t)'
  BY <1>1, <1>2 DEF Submit, Malformed, Invalid, NotSent, Scan, GiveUp, Notify, Confirm, Respond,
                    SendAlert, EndAlert, ReceiveAlert
<1>3. ASSUME NEW s \in Submissions, Validate(s) PROVE Checked(t)'
  BY <1>3 DEF Validate
<1>4. ASSUME NEW s \in Submissions, Send(s) \/ Abort(s) PROVE Checked(t)'
  BY <1>4 DEF Send, Abort
<1>5. ASSUME NEW s \in Submissions, Commit(s) PROVE Checked(t)'
  <2>1. CASE t = s
    BY <1>5, <2>1 DEF Commit
  <2>2. CASE t # s
    <3>1. /\ t \in DOMAIN rows' <=> t \in DOMAIN rows
          /\ t \in DOMAIN rows => rows'[t] = rows[t]
      BY <1>5, <2>2 DEF Commit
    <3> QED
      BY <1>5, <2>2, <3>1 DEF Commit
  <2> QED
    BY <2>1, <2>2
<1>6. CASE Process \/ UNCHANGED vars
  BY <1>1, <1>6 DEF Process, Signal, ShutdownReturns, CloseDB, Exit, Crash, Stop,
                    Start, vars
<1> QED
  BY <1>2, <1>3, <1>4, <1>5, <1>6 DEF Next, Handler

LEMMA AlwaysChecked == Spec => []CheckedAll
<1>1. Init => CheckedAll
  <2> SUFFICES ASSUME Init, NEW s \in Submissions
               PROVE  pc[s] = "unsent" /\ statement[s] = "none" /\ s \notin DOMAIN rows
    BY DEF CheckedAll, Checked
  <2> QED
    BY DEF Init
<1> QED
  BY <1>1, CheckedStep, TypeCorrect, PTL DEF Spec

\* What is stored has passed the checks of the endpoint, as it is stored: no row
\* lacks its required text or a phone number, and a blank optional text is NULL.
THEOREM StoresClean == Spec => []RowsClean
<1>1. TypeOK /\ CheckedAll => RowsClean
  <2> SUFFICES ASSUME TypeOK, CheckedAll, NEW s \in DOMAIN rows
               PROVE  /\ rows[s]["required"] = "good" /\ rows[s]["phone"] = "good"
                      /\ rows[s]["optional"] \in {"good", "null"}
    BY DEF RowsClean
  <2>1. s \in Submissions /\ body[s] \in Bodies
    BY PayloadsAssumption DEF TypeOK
  <2>2. FieldErrors(body[s].text) = {} /\ rows[s] = Columns(body[s].text)
    BY <2>1 DEF CheckedAll, Checked
  <2> QED
    BY <2>1, <2>2, ValidIsClean
<1> QED
  BY <1>1, AlwaysChecked, TypeCorrect, PTL

\* The notification says what the statement stored.
LEMMA NoticeIsRow == \A p \in Bodies : Notice(p.text) = Columns(p.text)
  BY DEF Notice, Columns

\* The administrator hears what is stored, and never of a submission that was
\* answered with an error.
THEOREM AlertsTellTruth == Spec => []AlertsTrue
<1>1. TypeOK /\ Books /\ CheckedAll => AlertsTrue
  <2> SUFFICES ASSUME TypeOK, Books, CheckedAll, NEW s \in received
               PROVE  /\ s \in DOMAIN rows /\ rows[s] = Notice(body[s].text)
                      /\ reply[s] \in {0, 201}
    BY DEF AlertsTrue
  <2>1. s \in Submissions /\ body[s] \in Bodies
    BY PayloadsAssumption DEF TypeOK
  <2>2. alert[s] # "none" /\ s \in DOMAIN rows /\ reply[s] \in {0, 201}
    BY <2>1 DEF Books, Agree
  <2>3. rows[s] = Columns(body[s].text)
    BY <2>1, <2>2 DEF CheckedAll, Checked
  <2> QED
    BY <2>1, <2>2, <2>3, NoticeIsRow
<1> QED
  BY <1>1, AlwaysChecked, TypeCorrect, AlwaysBooks, PTL

-----------------------------------------------------------------------------
\* How many steps a handler has left at most, and its notification.
Left(s) ==
    CASE pc[s] = "received" -> 5
      [] pc[s] = "insert"   -> 4
      [] pc[s] = "waiting"  -> 3
      [] pc[s] = "created"  -> 2
      [] pc[s] = "reply"    -> 1
      [] pc[s] \in {"unsent", "done", "cut"} -> 0

AlertLeft(s) ==
    CASE alert[s] = "pending" -> 2
      [] alert[s] = "sent"    -> 1
      [] alert[s] \in {"none", "over"} -> 0

\* A step of the handler is one less.
LEMMA HandlerAdvances == ASSUME TypeOK, NEW s \in Submissions, Handler(s)
                         PROVE  Left(s)' < Left(s)
<1> USE DEF TypeOK, Active, Left, Respond
<1>1. CASE Malformed(s) \/ Invalid(s)
  BY <1>1 DEF Malformed, Invalid
<1>2. CASE Validate(s)
  BY <1>2 DEF Validate
<1>3. CASE Send(s)
  BY <1>3 DEF Send
<1>4. CASE NotSent(s)
  BY <1>4 DEF NotSent
<1>5. CASE Scan(s)
  BY <1>5 DEF Scan
<1>6. CASE GiveUp(s)
  BY <1>6 DEF GiveUp
<1>7. CASE Notify(s)
  BY <1>7 DEF Notify
<1>8. CASE Confirm(s)
  BY <1>8 DEF Confirm
<1> QED
  BY <1>1, <1>2, <1>3, <1>4, <1>5, <1>6, <1>7, <1>8 DEF Handler

\* The steps of others leave a handler at work where it is, or end the process.
LEMMA OthersLeave ==
    ASSUME TypeOK, NEW s \in Submissions, [Next]_vars, pc[s] \in Active, ~Handler(s)
    PROVE  pc'[s] \in {pc[s], "cut"}
<1> USE DEF TypeOK, Active
<1>1. ASSUME NEW t \in Submissions, Handler(t) PROVE pc'[s] = pc[s]
  BY <1>1 DEF Handler, Malformed, Invalid, Validate, Send, NotSent, Scan, GiveUp, Notify,
              Confirm, Respond
<1>2. ASSUME NEW t \in Submissions, Submit(t) PROVE pc'[s] = pc[s]
  BY <1>2 DEF Submit
<1>3. ASSUME NEW t \in Submissions,
             SendAlert(t) \/ EndAlert(t) \/ Commit(t) \/ Abort(t) \/ ReceiveAlert(t)
      PROVE  pc' = pc
  BY <1>3 DEF SendAlert, EndAlert, Commit, Abort, ReceiveAlert
<1>4. Process => pc'[s] \in {pc[s], "cut"}
  BY DEF Process, Signal, ShutdownReturns, CloseDB, Exit, Crash, Stop, Start
<1>5. UNCHANGED vars => pc' = pc
  BY DEF vars
<1> QED
  BY <1>1, <1>2, <1>3, <1>4, <1>5 DEF Next

\* A notification only goes on: it was not started before its handler has the id, and
\* so is started once.
LEMMA AlertsAdvance ==
    ASSUME TypeOK, NEW s \in Submissions, [Next]_vars, alert[s] \in {"pending", "sent"},
           alert'[s] # alert[s], Books
    PROVE  alert'[s] = "over" \/ (alert[s] = "pending" /\ alert'[s] = "sent")
<1>0. alert \in [Submissions -> {"none", "pending", "sent", "over"}]
  BY DEF TypeOK
<1>1. ASSUME NEW t \in Submissions, SendAlert(t) \/ EndAlert(t)
      PROVE  alert'[s] = "over" \/ (alert[s] = "pending" /\ alert'[s] = "sent")
  <2>1. \/ alert[t] = "pending" /\ alert' = [alert EXCEPT ![t] = "sent"]
        \/ alert' = [alert EXCEPT ![t] = "over"]
    BY <1>1 DEF SendAlert, EndAlert
  <2>2. t = s
    BY <1>0, <2>1
  <2> QED
    BY <1>0, <2>1, <2>2
<1>2. ASSUME NEW t \in Submissions, Notify(t) PROVE FALSE
  <2>1. pc[t] = "created" /\ alert' = [alert EXCEPT ![t] = "pending"]
    BY <1>2 DEF Notify
  <2>2. t = s
    BY <1>0, <2>1
  <2> QED
    BY <2>1, <2>2 DEF Books, Agree
<1>3. ASSUME NEW t \in Submissions,
             \/ Submit(t) \/ Malformed(t) \/ Invalid(t) \/ Validate(t) \/ Send(t) \/ NotSent(t)
             \/ Scan(t) \/ GiveUp(t) \/ Confirm(t) \/ Commit(t) \/ Abort(t) \/ ReceiveAlert(t)
      PROVE  alert' = alert
  BY <1>3 DEF Submit, Malformed, Invalid, Validate, Send, NotSent, Scan, GiveUp, Confirm,
              Commit, Abort, ReceiveAlert
<1>4. Process => alert'[s] \in {alert[s], "over"}
  BY DEF Process, Signal, ShutdownReturns, CloseDB, Exit, Crash, Stop, Start
<1>5. UNCHANGED vars => alert' = alert
  BY DEF vars
<1>6. ASSUME NEW t \in Submissions, Submit(t) \/ Handler(t) \/ Commit(t) \/ Abort(t) \/ ReceiveAlert(t)
      PROVE  alert' = alert
  BY <1>2, <1>3, <1>6 DEF Handler
<1> QED
  BY <1>1, <1>4, <1>5, <1>6 DEF Next

\* Neither a handler nor a notification can go on for ever: each step of theirs is
\* one less to take, of five and of two, and whatever the others do, the process
\* included, adds none.
THEOREM SubmissionsAdvance ==
    Spec => [][ \A s \in Submissions :
                   /\ Handler(s) => Left(s)' < Left(s)
                   /\ pc[s] \in Active => Left(s)' <= Left(s)
                   /\ SendAlert(s) \/ EndAlert(s) => AlertLeft(s)' < AlertLeft(s)
                   /\ alert[s] \in {"pending", "sent"} => AlertLeft(s)' <= AlertLeft(s) ]_vars
<1> DEFINE Advances ==
       \A s \in Submissions :
          /\ Handler(s) => Left(s)' < Left(s)
          /\ pc[s] \in Active => Left(s)' <= Left(s)
          /\ SendAlert(s) \/ EndAlert(s) => AlertLeft(s)' < AlertLeft(s)
          /\ alert[s] \in {"pending", "sent"} => AlertLeft(s)' <= AlertLeft(s)
<1>1. ASSUME TypeOK, Books, [Next]_vars PROVE Advances
  <2> TAKE s \in Submissions
  <2> USE <1>1 DEF TypeOK
  <2>1. Handler(s) => Left(s)' < Left(s)
    BY HandlerAdvances
  <2>2. ASSUME pc[s] \in Active PROVE Left(s)' <= Left(s)
    <3>1. Left(s) \in 1..5
      BY <2>2 DEF Left, Active
    <3>2. CASE Handler(s)
      <4>1. pc'[s] \in Active \cup {"unsent", "done", "cut"}
        BY <3>2 DEF Handler, Malformed, Invalid, Validate, Send, NotSent, Scan, GiveUp, Notify,
                    Confirm, Respond, Active
      <4>2. Left(s)' \in 0..5
        BY <4>1 DEF Left, Active
      <4> QED
        BY <2>1, <3>1, <3>2, <4>2
    <3>3. CASE ~Handler(s)
      <4>1. pc'[s] = pc[s] \/ pc'[s] = "cut"
        BY <2>2, <3>3, OthersLeave
      <4>2. Left(s)' = Left(s) \/ Left(s)' = 0
        BY <2>2, <4>1 DEF Left, Active
      <4> QED
        BY <3>1, <4>2
    <3> QED
      BY <3>2, <3>3
  <2>3. SendAlert(s) \/ EndAlert(s) => AlertLeft(s)' < AlertLeft(s)
    BY DEF SendAlert, EndAlert, AlertLeft
  <2>4. ASSUME alert[s] \in {"pending", "sent"} PROVE AlertLeft(s)' <= AlertLeft(s)
    <3>1. \/ alert'[s] = alert[s]
          \/ alert'[s] = "over"
          \/ (alert[s] = "pending" /\ alert'[s] = "sent")
      BY <2>4, AlertsAdvance
    <3> QED
      BY <2>4, <3>1 DEF AlertLeft
  <2> QED
    BY <2>1, <2>2, <2>3, <2>4
<1> QED
  BY <1>1, TypeCorrect, AlwaysBooks, PTL DEF Spec
=============================================================================
