---------------------------- MODULE TuningColumns ----------------------------
(***************************************************************************)
(* PUT and PATCH /admin/tuning/<id> against GET /tuning.  Databases have   *)
(* called one text of the table title or description, or have both.        *)
(* Writers take either name (normalizeTuningPayload in                     *)
(* src/internal/handlers/admin_crud.go) and write the columns that two     *)
(* memoised probes have found (alignTuningPayloadToSchema, HasColumn in    *)
(* src/internal/database/schema.go); readers take it from the column the   *)
(* first query of their ladder names that the schema accepts (tuningHandler*)
(* in src/internal/handlers/content.go).                                   *)
(*                                                                         *)
(* The images of a row are in a column schema.sql converts (ImageCells).   *)
(* There is one row, of which this text and the images are kept.  Readers  *)
(* change nothing and are not actions: SchemaVariants shows that a faulty  *)
(* round trip may make any rung the schema accepts the one that is served. *)
(***************************************************************************)
EXTENDS Naturals, ImageCells

CONSTANTS
    Requests,   \* the updates administrators make, each once
    Operations, \* what they may say
    Texts,      \* values that are neither NULL nor blank
    Absent      \* what a payload does not say

Empty   == {"null", "blank"}
Values  == Texts \cup Empty
Names   == {"title", "description"}

\* The order in which alignTuningPayloadToSchema looks the columns up.
Order == <<"title", "description">>

\* What a request says under either name, and of the images: any JSON value.
Payloads == [title : Values \cup {Absent}, description : Values \cup {Absent},
             images : (Arrays \ {"wrapped"}) \cup NonArrays \cup {Absent}]

ASSUME TextsAssumption ==
    /\ Texts \cap Empty = {}
    /\ Absent \notin Values \cup Cells
    /\ Operations \subseteq Payloads

VARIABLES
    columns,    \* which of the two the table has
    row,        \* the row, by column; a column that is not there is null
    column,     \* what full_image_url is
    cell,       \* what it holds in the row
    memo,       \* cachedSchemaLookups for the two
    op,         \* the payload of each request
    pc,         \* where its handler is
    step,       \* which column it looks up
    has,        \* hasTitleColumn, hasDescriptionColumn
    meant,      \* history: what the last update that said something meant
    migrated,   \* history: the schema has changed since the process started
    clean,      \* history: nor had it when the request came, nor has it since
    sound,      \* history: the last update that said something was clean,
                \*          and no column has been added since
    given       \* history: what was last written to the cell, by an update or
                \*          before there were any; the script writes nothing

imageVars == <<column, cell, given>>
vars == <<columns, row, memo, op, pc, step, has, meant, migrated, clean, sound,
          imageVars>>

Init ==
    /\ columns \in (SUBSET Names) \ {{}}
    /\ row = [c \in Names |-> "null"]
    /\ memo = [c \in Names |-> "unknown"]
    /\ op \in [Requests -> Operations]
    /\ pc = [r \in Requests |-> "unsent"]
    /\ step = [r \in Requests |-> 1]
    /\ has = [r \in Requests |-> [c \in Names |-> "unknown"]]
    /\ meant = "null"
    /\ migrated = FALSE
    /\ clean = [r \in Requests |-> FALSE]
    /\ sound = TRUE
    /\ column \in Columns
    /\ cell \in CASE column = "text"    -> {"null", "blank", "bare", "broken"}
                [] column = "checked" -> {"empty"}
                [] OTHER              -> {"null"}
    /\ given = cell

-----------------------------------------------------------------------------
\* What the handler makes of a payload.

\* normalizeTuningPayload: the description, for which a title stands in if there
\* is none, or if it is empty and the title is not.
Normalize(p) ==
    IF p["title"] # Absent
       /\ (\/ p["description"] = Absent
           \/ p["description"] \in Empty /\ p["title"] \notin Empty)
      THEN p["title"]
      ELSE p["description"]

\* Mutant: where there is a description, the title is left alone.
AlignedOne(r, c) ==
    /\ Normalize(op[r]) # Absent
    /\ has[r][c] = "yes"
    /\ c = "title" => has[r]["description"] = "no"

\* Mutant: a payload that does not say the text is not told apart.
AlignedAlways(r, c) == has[r][c] = "yes"

\* alignTuningPayloadToSchema: the text goes to every column there is.
Aligned(r, c) == Normalize(op[r]) # Absent /\ has[r][c] = "yes"

\* The columns the statement sets.
Written(r) == {c \in Names : Aligned(r, c)}

-----------------------------------------------------------------------------
\* The handler.

Move(r, place) == pc' = [pc EXCEPT ![r] = place]

\* The row does exist; other refusals are those of AdminCRUD.
Receive(r) ==
    /\ pc[r] = "unsent"
    /\ Move(r, "load")
    /\ clean' = [clean EXCEPT ![r] = ~migrated]
    /\ UNCHANGED <<columns, row, memo, op, step, has, meant, migrated, sound, imageVars>>

\* HasColumn returns v: on to the other column, or to the statement.
Return(r, v) ==
    /\ has' = [has EXCEPT ![r][Order[step[r]]] = v]
    /\ IF step[r] = 1
         THEN step' = [step EXCEPT ![r] = 2] /\ Move(r, "load")
         ELSE step' = step /\ Move(r, "send")
    /\ UNCHANGED <<columns, row, op, meant, migrated, clean, sound, imageVars>>

LoadHit(r) ==
    /\ pc[r] = "load"
    /\ memo[Order[step[r]]] # "unknown"
    /\ Return(r, memo[Order[step[r]]])
    /\ UNCHANGED memo

LoadMiss(r) ==
    /\ pc[r] = "load"
    /\ memo[Order[step[r]]] = "unknown"
    /\ Move(r, "probe")
    /\ UNCHANGED <<columns, row, memo, op, step, has, meant, migrated, clean, sound, imageVars>>

Probe(r) ==
    LET c == Order[step[r]] IN
    /\ pc[r] = "probe"
    /\ Move(r, "store")
    /\ has' = [has EXCEPT ![r][c] = IF c \in columns THEN "yes" ELSE "no"]
    /\ UNCHANGED <<columns, row, memo, op, step, meant, migrated, clean, sound, imageVars>>

Store(r) ==
    LET c == Order[step[r]] IN
    /\ pc[r] = "store"
    /\ memo' = [memo EXCEPT ![c] = has[r][c]]
    /\ Return(r, has[r][c])

\* A probe fails: 500, and nothing is stored.
ProbeFails(r) ==
    /\ pc[r] = "probe"
    /\ Move(r, "failed")
    /\ UNCHANGED <<columns, row, memo, op, step, has, meant, migrated, clean, sound, imageVars>>

\* The statement is sent; it may outlive its handler.
Send(r) ==
    /\ pc[r] = "send"
    /\ Move(r, "sent")
    /\ UNCHANGED <<columns, row, memo, op, step, has, meant, migrated, clean, sound, imageVars>>

\* It names a column that is not there, its images are no array where they must
\* be, or it is lost.
Abort(r) ==
    /\ pc[r] = "sent"
    /\ Move(r, "failed")
    /\ UNCHANGED <<columns, row, memo, op, step, has, meant, migrated, clean, sound, imageVars>>

\* What the text is to be after p: the description that says something, else
\* the title that does, else the one that is given, the description first.
Meant(p) ==
    LET said == {c \in Names : p[c] # Absent}
        full == {c \in said : p[c] \notin Empty}
        from == IF full # {} THEN full ELSE said
    IN  IF from = {} THEN Absent
        ELSE IF "description" \in from THEN p["description"] ELSE p["title"]

\* It is executed, and confirmed with 200 unless the reply is lost.  Without a
\* column to set it sets updated_at.
Execute(r) ==
    /\ pc[r] = "sent"
    /\ Written(r) \subseteq columns
    /\ IF op[r].images = Absent
         THEN UNCHANGED <<cell, given>>
         ELSE /\ Holds(column, op[r].images)
              /\ cell' = op[r].images
              /\ given' = op[r].images
    /\ Move(r, "done")
    /\ row' = [c \in Names |-> IF c \in Written(r) THEN Normalize(op[r]) ELSE row[c]]
    /\ IF Meant(op[r]) = Absent
         THEN UNCHANGED <<meant, sound>>
         ELSE meant' = Meant(op[r]) /\ sound' = clean[r]
    /\ UNCHANGED <<columns, memo, op, step, has, migrated, clean, column>>

Handler(r) ==
    \/ Receive(r) \/ LoadHit(r) \/ LoadMiss(r) \/ Probe(r) \/ Store(r)
    \/ ProbeFails(r) \/ Send(r) \/ Abort(r) \/ Execute(r)

-----------------------------------------------------------------------------
\* Outside.

\* A column is added, empty, or title is renamed, all by hand: schema.sql makes
\* new tables with a description and touches neither in old ones.
AddColumn(c) ==
    /\ c \notin columns
    /\ columns' = columns \cup {c}
    /\ migrated' = TRUE
    /\ clean' = [r \in Requests |-> FALSE]
    /\ sound' = FALSE
    /\ UNCHANGED <<row, memo, op, pc, step, has, meant, imageVars>>

RenameColumn ==
    /\ columns = {"title"}
    /\ columns' = {"description"}
    /\ row' = [title |-> "null", description |-> row["title"]]
    /\ migrated' = TRUE
    /\ clean' = [r \in Requests |-> FALSE]
    /\ UNCHANGED <<memo, op, pc, step, has, meant, sound, imageVars>>

\* The script makes the column if it is missing, converts one of texts, completes
\* one of JSON and adds the check.  It is one transaction: where a cell is in the
\* way of that, nothing of it happens.
Script ==
    /\ column # "checked"
    /\ Convertible(column, cell)
    /\ column' = "checked"
    /\ cell' = Convert(cell)
    /\ UNCHANGED <<columns, row, memo, op, pc, step, has, meant, migrated, clean, sound, given>>

\* The process ends and is started again: its memo is lost, and so are its
\* handlers.
Restart ==
    /\ memo' = [c \in Names |-> "unknown"]
    /\ pc' = [r \in Requests |-> IF pc[r] \in {"load", "probe", "store", "send"}
                                   THEN "failed" ELSE pc[r]]
    /\ migrated' = FALSE
    /\ UNCHANGED <<columns, row, op, step, has, meant, clean, sound, imageVars>>

Next ==
    \/ \E r \in Requests : Handler(r)
    \/ \E c \in Names : AddColumn(c)
    \/ RenameColumn
    \/ Script
    \/ Restart

Spec == Init /\ [][Next]_vars

-----------------------------------------------------------------------------
\* Properties.

\* The shape of the state.
TypeOK ==
    /\ columns \in (SUBSET Names) \ {{}}
    /\ row \in [Names -> Values]
    /\ \A c \in Names \ columns : row[c] = "null"
    /\ memo \in [Names -> {"unknown", "yes", "no"}]
    /\ op \in [Requests -> Operations]
    /\ column \in Columns /\ cell \in Cells /\ Holds(column, cell)
    /\ given \in Cells
    /\ pc \in [Requests -> {"unsent", "load", "probe", "store", "send", "sent", "done", "failed"}]
    /\ step \in [Requests -> 1..2]
    /\ has \in [Requests -> [Names -> {"unknown", "yes", "no"}]]
    /\ meant \in Values
    /\ migrated \in BOOLEAN
    /\ clean \in [Requests -> BOOLEAN]
    /\ sound \in BOOLEAN

\* What GET /tuning shows if it reads column c: the rungs with a description take
\* that, the others take the title for it.  A rung is accepted if its column is
\* there.
Shown(c) == row[c]

\* GET /tuning shows what the last update meant, whichever name it used and
\* whichever rung is served, also the one a faulty round trip has left behind that
\* reads the title of a table with both: as long as the process that took the
\* update was started on the schema it wrote under, and no column was added since.
WrittenIsRead == sound => \A c \in columns : Shown(c) = meant

\* GET /tuning shows the images that were last written, by an update or by hand,
\* also once the script has converted them, and from then on an address that was
\* stored bare.  Only JSON that is no array comes out of a TEXT column as rubbish,
\* whether something of it was shown before or not; after the script no update can
\* store it any more.
ImagesKept ==
    StringArray(cell) =
        CASE column = "checked" /\ given = "bare"       -> {"address"}
          [] column = "checked" /\ given \in NonArrays  -> {"rubbish"}
          [] OTHER                                      -> StringArray(given)
=============================================================================
