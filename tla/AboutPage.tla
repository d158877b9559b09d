------------------------------ MODULE AboutPage ------------------------------
(***************************************************************************)
(* GET /about (aboutHandler in src/internal/handlers/content.go): three    *)
(* memoised probes (HasTable in src/internal/database/schema.go) and three *)
(* reads, one after another, while administrators edit the tables and      *)
(* schema.sql may be applied.                                              *)
(*                                                                         *)
(* Of a page its id is kept, of the metrics and the sections the pages     *)
(* that have any.  Each edit is one statement; a delete of a page takes    *)
(* its metrics and sections along, and the id of a page that has some      *)
(* cannot be changed.                                                      *)
(***************************************************************************)
EXTENDS Naturals

CONSTANTS
    Requests,   \* the requests that may be in flight together
    Ids,        \* the ids of pages
    MaxEdits    \* a bound on the edits and the runs of schema.sql

ASSUME IdsAssumption == Ids \subseteq Nat \ {0} /\ 1 \in Ids /\ MaxEdits \in Nat

Children == {"about_metrics", "about_sections"}
Tables   == {"about_page"} \cup Children

\* The order in which the handler goes through them.
Order == <<"about_page", "about_metrics", "about_sections">>

NoPage == 0

VARIABLES
    tables,     \* the tables there are
    pages,      \* the ids in about_page
    rows,       \* the about_ids in the other two
    edits,      \* how many edits and runs there have been
    memo,       \* cachedSchemaLookups
    pc,         \* where each request is in its handler
    step,       \* which table it is at
    answer,     \* hasAboutPage, hasAboutMetrics or hasAboutSections
    page,       \* page of the response
    found,      \* whether its metrics and its sections are not empty
    quiet,      \* history: nothing has changed since the request began
    migrated    \* history: the schema has changed since the process started

dataVars  == <<tables, pages, rows, edits>>
localVars == <<pc, step, answer, page, found>>
aboutVars == <<dataVars, memo, localVars, quiet, migrated>>

AboutInit ==
    /\ \/ tables = {} /\ pages = {} /\ rows = [t \in Children |-> {}]
       \/ tables = Tables /\ \E i \in Ids : pages = {i} /\ rows = [t \in Children |-> {i}]
    /\ edits = 0
    /\ memo = [t \in Tables |-> "unknown"]
    /\ pc = [r \in Requests |-> "idle"]
    /\ step = [r \in Requests |-> 1]
    /\ answer = [r \in Requests |-> "no"]
    /\ page = [r \in Requests |-> NoPage]
    /\ found = [r \in Requests |-> {}]
    /\ quiet = [r \in Requests |-> TRUE]
    /\ migrated = FALSE

FirstPage == IF pages = {} THEN NoPage ELSE CHOOSE i \in pages : \A j \in pages : i <= j

\* aboutID: the page's id, 1 if there is no page.
AboutId(i) == IF i = NoPage THEN 1 ELSE i

Response(i, children) == [page |-> i, found |-> children]
Responses == [page : Ids \cup {NoPage}, found : SUBSET Children]

\* What the tables hold at this moment.
Snapshot == Response(FirstPage, {t \in Children : AboutId(FirstPage) \in rows[t]})

-----------------------------------------------------------------------------
\* The handler.

Begin(r) ==
    /\ pc[r] = "idle"
    /\ pc' = [pc EXCEPT ![r] = "load"]
    /\ quiet' = [quiet EXCEPT ![r] = TRUE]
    /\ UNCHANGED <<dataVars, memo, step, answer, page, found, migrated>>

\* On to the next table, or to the response.
Advance(r) ==
    IF step[r] = 3
      THEN pc' = [pc EXCEPT ![r] = "done"] /\ step' = step
      ELSE pc' = [pc EXCEPT ![r] = "load"] /\ step' = [step EXCEPT ![r] = @ + 1]

\* HasTable returns: a table that is not there is not read.
Return(r, has) ==
    IF has = "yes"
      THEN pc' = [pc EXCEPT ![r] = "read"] /\ step' = step
      ELSE Advance(r)

LoadHit(r) ==
    LET t == Order[step[r]] IN
    /\ pc[r] = "load"
    /\ memo[t] # "unknown"
    /\ Return(r, memo[t])
    /\ UNCHANGED <<dataVars, memo, answer, page, found, quiet, migrated>>

LoadMiss(r) ==
    /\ pc[r] = "load"
    /\ memo[Order[step[r]]] = "unknown"
    /\ pc' = [pc EXCEPT ![r] = "probe"]
    /\ UNCHANGED <<dataVars, memo, step, answer, page, found, quiet, migrated>>

Probe(r) ==
    /\ pc[r] = "probe"
    /\ answer' = [answer EXCEPT ![r] = IF Order[step[r]] \in tables THEN "yes" ELSE "no"]
    /\ pc' = [pc EXCEPT ![r] = "store"]
    /\ UNCHANGED <<dataVars, memo, step, page, found, quiet, migrated>>

Store(r) ==
    /\ pc[r] = "store"
    /\ memo' = [memo EXCEPT ![Order[step[r]]] = answer[r]]
    /\ Return(r, answer[r])
    /\ answer' = [answer EXCEPT ![r] = "no"]
    /\ UNCHANGED <<dataVars, page, found, quiet, migrated>>

\* Mutant: the metrics and the sections are always those of page 1.
ReadOfFirst(r) ==
    /\ pc[r] = "read"
    /\ IF step[r] = 1
         THEN page' = [page EXCEPT ![r] = FirstPage] /\ found' = found
         ELSE /\ page' = page
              /\ found' = [found EXCEPT ![r] = @ \cup {t \in {Order[step[r]]} : 1 \in rows[t]}]
    /\ Advance(r)
    /\ UNCHANGED <<dataVars, memo, answer, quiet, migrated>>

\* The first page; then the metrics, then the sections of that page.
Read(r) ==
    /\ pc[r] = "read"
    /\ IF step[r] = 1
         THEN page' = [page EXCEPT ![r] = FirstPage] /\ found' = found
         ELSE /\ page' = page
              /\ found' = [found EXCEPT ![r] =
                   @ \cup {t \in {Order[step[r]]} : AboutId(page[r]) \in rows[t]}]
    /\ Advance(r)
    /\ UNCHANGED <<dataVars, memo, answer, quiet, migrated>>

\* A probe or a read fails, or the deadline passes: the response is a 500.
Fail(r) ==
    /\ pc[r] \in {"probe", "read"}
    /\ pc' = [pc EXCEPT ![r] = "failed"]
    /\ UNCHANGED <<dataVars, memo, step, answer, page, found, quiet, migrated>>

\* The handler returns.
Finish(r) ==
    /\ pc[r] \in {"done", "failed"}
    /\ pc' = [pc EXCEPT ![r] = "idle"]
    /\ step' = [step EXCEPT ![r] = 1]
    /\ page' = [page EXCEPT ![r] = NoPage]
    /\ found' = [found EXCEPT ![r] = {}]
    /\ UNCHANGED <<dataVars, memo, answer, quiet, migrated>>

Compute(r) == LoadHit(r) \/ LoadMiss(r) \/ Probe(r) \/ Store(r) \/ Read(r) \/ Fail(r)

-----------------------------------------------------------------------------
\* The tables change.

Disturb(newPages, newRows) ==
    /\ edits < MaxEdits
    /\ edits' = edits + 1
    /\ pages' = newPages
    /\ rows' = newRows
    /\ quiet' = [r \in Requests |-> FALSE]
    /\ UNCHANGED <<tables, memo, localVars, migrated>>

AddPage(i) == "about_page" \in tables /\ i \notin pages /\ Disturb(pages \cup {i}, rows)

\* Mutant: the metrics and the sections stay.
DropPageOnly(i) == i \in pages /\ Disturb(pages \ {i}, rows)

\* ON DELETE CASCADE.
DropPage(i) == i \in pages /\ Disturb(pages \ {i}, [t \in Children |-> rows[t] \ {i}])

\* There is no ON UPDATE: only a page nothing refers to can change its id.
RenamePage(i, j) ==
    /\ i \in pages /\ j \notin pages
    /\ \A t \in Children : i \notin rows[t]
    /\ Disturb((pages \ {i}) \cup {j}, rows)

AddRows(t, i) == t \in tables /\ i \in pages /\ Disturb(pages, [rows EXCEPT ![t] = @ \cup {i}])

DropRows(t, i) == i \in rows[t] /\ Disturb(pages, [rows EXCEPT ![t] = @ \ {i}])

\* about_id of the rows is edited.
MoveRows(t, i, j) ==
    /\ i \in rows[t] /\ j \in pages
    /\ Disturb(pages, [rows EXCEPT ![t] = (@ \ {i}) \cup {j}])

Edit ==
    \E i \in Ids :
        \/ AddPage(i) \/ DropPage(i)
        \/ \E j \in Ids : RenamePage(i, j)
        \/ \E t \in Children :
             AddRows(t, i) \/ DropRows(t, i) \/ \E j \in Ids : MoveRows(t, i, j)

\* schema.sql, one transaction: the tables that are missing are made, and a page 1
\* that is missing, or has no metrics or sections, gets them.
Script ==
    /\ edits < MaxEdits
    /\ tables # Tables \/ 1 \notin pages \/ \E t \in Children : 1 \notin rows[t]
    /\ edits' = edits + 1
    /\ tables' = Tables
    /\ pages' = pages \cup {1}
    /\ rows' = [t \in Children |-> rows[t] \cup {1}]
    /\ quiet' = [r \in Requests |-> FALSE]
    /\ migrated' = (migrated \/ tables # Tables)
    /\ UNCHANGED <<memo, localVars>>

Outside == Edit \/ Script
=============================================================================
