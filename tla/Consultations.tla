--------------------------- MODULE Consultations ---------------------------
(***************************************************************************)
(* POST /api/consultations (src/internal/handlers/consultations.go) inside *)
(* the life of the server process (src/main.go).                           *)
(*                                                                         *)
(* A handler validates the submission, inserts a row, hands a notification *)
(* to a goroutine of its own and replies.  Three parties move between any  *)
(* two of its steps: the database, which may commit a statement whose      *)
(* handler has given up; the webhook, which may receive a notification     *)
(* whose sender has given up; and the process, which shuts down, waiting   *)
(* at most ten seconds for its handlers and not at all for notifications,  *)
(* or crashes.                                                             *)
(***************************************************************************)
EXTENDS Integers

CONSTANTS
    Submissions,    \* the POST requests clients make; a retry is another one
    Payloads        \* the bodies they may carry

\* What the code tells apart in a body: whether it decodes, and the text of a
\* required, a pattern-checked and an optional field.  Texts are "empty",
\* "blank" (white space only), "good", "padded" (good inside white space) and
\* "bad" (over its length, or not a phone number).
Texts  == {"empty", "blank", "good", "padded", "bad"}
Fields == {"required", "phone", "optional"}
Bodies == [decodes : BOOLEAN, text : [Fields -> Texts]]

ASSUME PayloadsAssumption == Payloads # {} /\ Payloads \subseteq Bodies

VARIABLES
    server,     \* where main is: "up", "draining" (in Shutdown), "closing"
                \*   (Shutdown has returned), "closed" (so has db.Close), "down"
    body,       \* the payload of each submission, once sent
    pc,         \* where each handler is
    reply,      \* the status of its reply, 0 before there is one
    statement,  \* its INSERT at the database
    rows,       \* the table: the texts stored, by submission
    alert,      \* its notification goroutine
    wire,       \* the notifications sent
    received    \* the notifications the webhook has received

vars == <<server, body, pc, reply, statement, rows, alert, wire, received>>

\* A handler is at work in these; "cut" is one the end of the process cut off.
Active == {"received", "insert", "waiting", "created", "reply"}

-----------------------------------------------------------------------------
\* The data: strings.TrimSpace, validateConsultationRequest and the columns.

Trim(t) == CASE t = "blank"  -> "empty"
             [] t = "padded" -> "good"
             [] OTHER        -> t

\* Mutant: the checks are made on the text as it came.
FieldErrorsUntrimmed(text) ==
    {f \in Fields : \/ text[f] = "bad"
                    \/ f # "optional" /\ text[f] = "empty"}

\* The fields validateConsultationRequest complains of.  Every check is made on
\* the trimmed text.
FieldErrors(text) ==
    {f \in Fields : \/ Trim(text[f]) = "bad"
                    \/ f # "optional" /\ Trim(text[f]) = "empty"}

\* What is bound to the columns: a blank optional text is NULL.
Columns(text) ==
    [f \in Fields |-> IF f = "optional" /\ Trim(text[f]) = "empty"
                        THEN "null" ELSE Trim(text[f])]

\* Mutant: the notification carries the optional texts as they came.
NoticeUntrimmed(text) ==
    [f \in Fields |-> IF f = "optional" THEN text[f] ELSE Trim(text[f])]

\* What the notification says of them, put together apart from the statement.
Notice(text) ==
    [f \in Fields |-> IF f = "optional" /\ Trim(text[f]) = "empty"
                        THEN "null" ELSE Trim(text[f])]

Rows == [Fields -> {"empty", "good", "bad", "blank", "padded", "null"}]

-----------------------------------------------------------------------------
Init ==
    /\ server = "up"
    /\ body \in [Submissions -> Payloads]
    /\ pc = [s \in Submissions |-> "unsent"]
    /\ reply = [s \in Submissions |-> 0]
    /\ statement = [s \in Submissions |-> "none"]
    /\ rows = [s \in {} |-> {}]
    /\ alert = [s \in Submissions |-> "none"]
    /\ wire = {}
    /\ received = {}

\* The handler of s replies with status, and is done.
Respond(s, status) ==
    /\ pc' = [pc EXCEPT ![s] = "done"]
    /\ reply' = [reply EXCEPT ![s] = status]

-----------------------------------------------------------------------------
\* The handler.

\* A request is read; once Shutdown has been called, only from a connection that
\* was accepted before.
Submit(s) ==
    /\ server \in {"up", "draining"}
    /\ pc[s] = "unsent"
    /\ pc' = [pc EXCEPT ![s] = "received"]
    /\ UNCHANGED <<server, body, reply, statement, rows, alert, wire, received>>

\* 400 for what does not decode to exactly one object of the known fields, and
\* for a body whose reading breaks off or exceeds its limit.
Malformed(s) ==
    /\ pc[s] = "received"
    /\ Respond(s, 400)
    /\ UNCHANGED <<server, body, statement, rows, alert, wire, received>>

\* 422 for a field in error.
Invalid(s) ==
    /\ pc[s] = "received"
    /\ body[s].decodes
    /\ FieldErrors(body[s].text) # {}
    /\ Respond(s, 422)
    /\ UNCHANGED <<server, body, statement, rows, alert, wire, received>>

Validate(s) ==
    /\ pc[s] = "received"
    /\ body[s].decodes
    /\ FieldErrors(body[s].text) = {}
    /\ pc' = [pc EXCEPT ![s] = "insert"]
    /\ UNCHANGED <<server, body, reply, statement, rows, alert, wire, received>>

\* Mutant: the notification goes out with the statement, before its outcome.
SendNotifying(s) ==
    /\ pc[s] = "insert"
    /\ server \in {"up", "draining", "closing"}
    /\ pc' = [pc EXCEPT ![s] = "waiting"]
    /\ statement' = [statement EXCEPT ![s] = "running"]
    /\ alert' = [alert EXCEPT ![s] = "pending"]
    /\ UNCHANGED <<server, body, reply, rows, wire, received>>

\* QueryRowContext gets a connection and sends the INSERT.
Send(s) ==
    /\ pc[s] = "insert"
    /\ server \in {"up", "draining", "closing"}
    /\ pc' = [pc EXCEPT ![s] = "waiting"]
    /\ statement' = [statement EXCEPT ![s] = "running"]
    /\ UNCHANGED <<server, body, reply, rows, alert, wire, received>>

\* It gets none: the pool is exhausted until the deadline, the client is gone,
\* or db.Close has been called.
NotSent(s) ==
    /\ pc[s] = "insert"
    /\ Respond(s, 500)
    /\ UNCHANGED <<server, body, statement, rows, alert, wire, received>>

\* Mutant: the reply comes before the notification.
ScanThenReply(s) ==
    /\ pc[s] = "waiting"
    /\ statement[s] = "committed"
    /\ pc' = [pc EXCEPT ![s] = "reply"]
    /\ UNCHANGED <<server, body, reply, statement, rows, alert, wire, received>>

\* Scan returns the id: the statement has completed.
Scan(s) ==
    /\ pc[s] = "waiting"
    /\ statement[s] = "committed"
    /\ pc' = [pc EXCEPT ![s] = "created"]
    /\ UNCHANGED <<server, body, reply, statement, rows, alert, wire, received>>

\* Mutant: a database error is blamed on the client.
GiveUpRefusing(s) ==
    /\ pc[s] = "waiting"
    /\ Respond(s, 400)
    /\ UNCHANGED <<server, body, statement, rows, alert, wire, received>>

\* Mutant: the handler has no deadline.
GiveUpOnErrorOnly(s) ==
    /\ pc[s] = "waiting"
    /\ statement[s] = "aborted"
    /\ Respond(s, 500)
    /\ UNCHANGED <<server, body, statement, rows, alert, wire, received>>

\* Scan returns an error: the statement failed, or the deadline passed, the
\* client left or the connection broke, whatever became of the statement.
GiveUp(s) ==
    /\ pc[s] = "waiting"
    /\ Respond(s, 500)
    /\ UNCHANGED <<server, body, statement, rows, alert, wire, received>>

\* go notifyAdminAboutConsultation(...)
Notify(s) ==
    /\ pc[s] = "created"
    /\ pc' = [pc EXCEPT ![s] = "reply"]
    /\ alert' = [alert EXCEPT ![s] = "pending"]
    /\ UNCHANGED <<server, body, reply, statement, rows, wire, received>>

\* Mutant: a created row is reported as 200.
ConfirmAsOK(s) ==
    /\ pc[s] = "reply"
    /\ Respond(s, 200)
    /\ UNCHANGED <<server, body, statement, rows, alert, wire, received>>

Confirm(s) ==
    /\ pc[s] = "reply"
    /\ Respond(s, 201)
    /\ UNCHANGED <<server, body, statement, rows, alert, wire, received>>

Handler(s) ==
    \/ Malformed(s) \/ Invalid(s) \/ Validate(s) \/ Send(s) \/ NotSent(s)
    \/ Scan(s) \/ GiveUp(s) \/ Notify(s) \/ Confirm(s)

-----------------------------------------------------------------------------
\* The notification goroutine.

SendAlert(s) ==
    /\ alert[s] = "pending"
    /\ alert' = [alert EXCEPT ![s] = "sent"]
    /\ wire' = wire \cup {s}
    /\ UNCHANGED <<server, body, pc, reply, statement, rows, received>>

\* It returns: no webhook is configured, the request could not be sent, three
\* seconds have passed, or an answer of any status came.  Nothing is retried.
EndAlert(s) ==
    /\ alert[s] \in {"pending", "sent"}
    /\ alert' = [alert EXCEPT ![s] = "over"]
    /\ UNCHANGED <<server, body, pc, reply, statement, rows, wire, received>>

-----------------------------------------------------------------------------
\* The database and the webhook.

\* The INSERT is one statement and commits by itself.
Commit(s) ==
    /\ statement[s] = "running"
    /\ statement' = [statement EXCEPT ![s] = "committed"]
    /\ rows' = [t \in DOMAIN rows \cup {s} |->
                  IF t = s THEN Columns(body[s].text) ELSE rows[t]]
    /\ UNCHANGED <<server, body, pc, reply, alert, wire, received>>

Abort(s) ==
    /\ statement[s] = "running"
    /\ statement' = [statement EXCEPT ![s] = "aborted"]
    /\ UNCHANGED <<server, body, pc, reply, rows, alert, wire, received>>

ReceiveAlert(s) ==
    /\ s \in wire \ received
    /\ received' = received \cup {s}
    /\ UNCHANGED <<server, body, pc, reply, statement, rows, alert, wire>>

-----------------------------------------------------------------------------
\* The process.

\* SIGINT or SIGTERM: server.Shutdown closes the listener.
Signal ==
    /\ server = "up"
    /\ server' = "draining"
    /\ UNCHANGED <<body, pc, reply, statement, rows, alert, wire, received>>

\* It returns nil when every connection is idle, or the error of its context after
\* ten seconds, while a handler may take twelve; main goes on in either case.
ShutdownReturns ==
    /\ server = "draining"
    /\ server' = "closing"
    /\ UNCHANGED <<body, pc, reply, statement, rows, alert, wire, received>>

\* db.Close lets no further statement start.
CloseDB ==
    /\ server = "closing"
    /\ server' = "closed"
    /\ UNCHANGED <<body, pc, reply, statement, rows, alert, wire, received>>

\* main returns, or the process dies: every goroutine of it is gone.
Stop ==
    /\ server' = "down"
    /\ pc' = [s \in Submissions |-> IF pc[s] \in Active THEN "cut" ELSE pc[s]]
    /\ alert' = [s \in Submissions |->
                   IF alert[s] \in {"pending", "sent"} THEN "over" ELSE alert[s]]
    /\ UNCHANGED <<body, reply, statement, rows, wire, received>>

Exit  == server = "closed" /\ Stop
Crash == server \notin {"closed", "down"} /\ Stop

Start ==
    /\ server = "down"
    /\ server' = "up"
    /\ UNCHANGED <<body, pc, reply, statement, rows, alert, wire, received>>

Process == Signal \/ ShutdownReturns \/ CloseDB \/ Exit \/ Crash \/ Start

Next ==
    \/ \E s \in Submissions :
         \/ Submit(s) \/ Handler(s)
         \/ SendAlert(s) \/ EndAlert(s)
         \/ Commit(s) \/ Abort(s) \/ ReceiveAlert(s)
    \/ Process

\* A handler's every wait ends with its deadline of twelve seconds and a
\* notification's with its own of three.
Fairness ==
    \A s \in Submissions : WF_vars(Handler(s)) /\ WF_vars(SendAlert(s) \/ EndAlert(s))

Spec == Init /\ [][Next]_vars /\ Fairness

-----------------------------------------------------------------------------
\* Properties.

\* The shape of the state.
TypeOK ==
    /\ server \in {"up", "draining", "closing", "closed", "down"}
    /\ body \in [Submissions -> Payloads]
    /\ pc \in [Submissions -> Active \cup {"unsent", "done", "cut"}]
    /\ reply \in [Submissions -> {0, 201, 400, 422, 500}]
    /\ statement \in [Submissions -> {"none", "running", "committed", "aborted"}]
    /\ DOMAIN rows \subseteq Submissions /\ rows \in [DOMAIN rows -> Rows]
    /\ alert \in [Submissions -> {"none", "pending", "sent", "over"}]
    /\ wire \subseteq Submissions
    /\ received \subseteq Submissions

\* What a status tells the visitor; 500 leaves the submission in doubt.
Word(status) == CASE status = 201          -> "confirmed"
                  [] status \in {400, 422} -> "refused"
                  [] OTHER                 -> "none"

Promise == INSTANCE Inbox WITH
    recorded <- DOMAIN rows,
    word     <- [s \in Submissions |-> Word(reply[s])],
    alerted  <- received

\* The endpoint keeps the promises of Inbox through late commits, late
\* notifications, shutdowns and crashes.
ImplementsInbox == Promise!Spec

\* Every row holds trimmed, non-empty, validated texts, and NULL rather than a
\* blank optional one: what is stored is what was validated.
RowsClean ==
    \A s \in DOMAIN rows :
        /\ rows[s]["required"] = "good" /\ rows[s]["phone"] = "good"
        /\ rows[s]["optional"] \in {"good", "null"}

\* What the administrator hears of a submission is the row that is stored, however
\* late he hears it, and never of one whose visitor was told that it failed: a
\* visitor who tries again after an error may make a second row, the first having
\* committed late, but no second notification.
AlertsTrue ==
    \A s \in received :
        /\ s \in DOMAIN rows /\ rows[s] = Notice(body[s].text)
        /\ reply[s] \in {0, 201}

\* Whoever was told that the consultation is registered, the administrator is
\* being or was notified of it: the notification is handed over before the reply.
ConfirmedIsNotified ==
    \A s \in Submissions : reply[s] = 201 => alert[s] # "none"

\* Every request that reaches the handler gets a reply unless the process ends
\* under it, and every notification comes to its end.
Settles ==
    \A s \in Submissions :
        /\ (pc[s] \in Active) ~> (pc[s] \in {"done", "cut"})
        /\ (alert[s] \in {"pending", "sent"}) ~> (alert[s] = "over")
=============================================================================
