------------------------------ MODULE AdminList ------------------------------
(***************************************************************************)
(* The listing of an admin table (adminFetchMany in                        *)
(* src/internal/handlers/admin_crud.go): the configured order is cut to    *)
(* the columns the table has (resolveAdminListOrderBy over TableColumns    *)
(* and its cache in src/internal/database/schema.go), the query is sent,   *)
(* and sent again in the order of the ids if it failed.                    *)
(*                                                                         *)
(* Time passes in ticks, only while every handler waits for the database:  *)
(* computing takes none.  No wait outlasts its deadline, because the       *)
(* driver returns when the context ends.  A reply is heard if it is        *)
(* written before the server's WriteTimeout.                               *)
(*                                                                         *)
(* No name here is one of AdminCRUD, so that AdminCRUDProofs can speak of  *)
(* both.                                                                   *)
(***************************************************************************)
EXTENDS Naturals, Sequences

CONSTANTS
    Lists,          \* the requests for this table in flight together
    OrderBy,        \* the clauses of the configured order
    Tables,         \* the shapes the table may have: sets of columns, {} if absent
    MetaTimeout,    \* adminMetaTimeout, in ticks
    ReadTimeout,    \* readTimeout
    ListTimeout,    \* adminListTimeout
    WriteTimeout    \* the server's, counted from the reading of the request

AllColumns == {OrderBy[i].column : i \in DOMAIN OrderBy} \cup {"id"}

\* An order is what is kept of the configured one, by index.  If that is nothing
\* it is "t.id ASC".
Whole == DOMAIN OrderBy
ById  == {}

\* The order reads "t.id ASC", whether as the configured one or in its place.
ReadsById(order) ==
    \/ order = ById
    \/ \E i \in Whole : order = {i} /\ OrderBy[i] = [column |-> "id", way |-> "ASC"]

\* The columns it names.
Named(order) == IF order = ById THEN {"id"} ELSE {OrderBy[i].column : i \in order}

ASSUME OrderAssumption ==
    /\ OrderBy \in Seq([column : AllColumns, way : {"ASC", "DESC"}]) /\ OrderBy # <<>>
    /\ \A t \in Tables : t \subseteq AllColumns /\ (t # {} => "id" \in t)

\* The first answer has time to get out; the retry need not have.
ASSUME TimeoutsAssumption ==
    /\ {MetaTimeout, ReadTimeout, ListTimeout, WriteTimeout} \subseteq Nat \ {0}
    /\ MetaTimeout + ReadTimeout <= WriteTimeout
    /\ MetaTimeout + ReadTimeout <= ListTimeout

Waiting == {"probe", "query", "retry"}
Places  == Waiting \cup {"idle", "load", "store", "ok", "failed"}

VARIABLES
    columns,    \* the columns of the table
    known,      \* cachedTableColumns has the table,
    cached,     \* with these columns
    at,         \* where each request is
    age,        \* how long ago it began
    since,      \* and its query was sent
    read,       \* the columns its probe has found
    orderBy,    \* orderBy of the handler
    retried,    \* the query was sent again
    resolved,   \* history: orderBy was cut to columns the table was known to have
    rejected,   \* history: the database rejected its query
    faulted,    \* history: a statement of it was lost or too late
    migrated    \* history: the table has changed since the process started

listVars == <<columns, known, cached, at, age, since, read, orderBy, retried,
          resolved, rejected, faulted, migrated>>

ListInit ==
    /\ columns \in Tables
    /\ known = FALSE
    /\ cached = {}
    /\ at = [r \in Lists |-> "idle"]
    /\ age = [r \in Lists |-> 0]
    /\ since = [r \in Lists |-> 0]
    /\ read = [r \in Lists |-> {}]
    /\ orderBy = [r \in Lists |-> Whole]
    /\ retried = [r \in Lists |-> FALSE]
    /\ resolved = [r \in Lists |-> FALSE]
    /\ rejected = [r \in Lists |-> FALSE]
    /\ faulted = [r \in Lists |-> FALSE]
    /\ migrated = FALSE

\* Mutant: clauses of columns the table lacks stay.
ResolveNothing(set) == Whole

\* What resolveAdminListOrderBy makes of the configured order.
Resolve(set) == {i \in Whole : OrderBy[i].column \in set}

\* Mutant: the query has only the deadline of the whole list.
DeadlineOfList(r) ==
    IF at[r] = "probe" THEN MetaTimeout ELSE ListTimeout

\* Mutant: the query has a deadline of its own.
DeadlineOfQuery(r) ==
    IF at[r] = "probe" THEN MetaTimeout ELSE since[r] + ReadTimeout

\* The age at which the context of what r waits for ends.
Deadline(r) ==
    IF at[r] = "probe" THEN MetaTimeout
    ELSE IF since[r] + ReadTimeout < ListTimeout THEN since[r] + ReadTimeout
    ELSE ListTimeout

InTime(r) == age[r] < Deadline(r)

\* The database accepts an order of a table that has its columns.
Accepts(order) == Named(order) \subseteq columns

-----------------------------------------------------------------------------

Begin(r) ==
    /\ at[r] \in {"idle", "ok", "failed"}
    /\ at' = [at EXCEPT ![r] = "load"]
    /\ age' = [age EXCEPT ![r] = 0]
    /\ since' = [since EXCEPT ![r] = 0]
    /\ orderBy' = [orderBy EXCEPT ![r] = Whole]
    /\ retried' = [retried EXCEPT ![r] = FALSE]
    /\ resolved' = [resolved EXCEPT ![r] = FALSE]
    /\ rejected' = [rejected EXCEPT ![r] = FALSE]
    /\ faulted' = [faulted EXCEPT ![r] = FALSE]
    /\ UNCHANGED <<columns, known, cached, read, migrated>>

\* The query is sent, in an order cut to set.
Ask(r, set) ==
    /\ at' = [at EXCEPT ![r] = "query"]
    /\ since' = [since EXCEPT ![r] = age[r]]
    /\ orderBy' = [orderBy EXCEPT ![r] = Resolve(set)]
    /\ resolved' = [resolved EXCEPT ![r] = TRUE]
    /\ UNCHANGED <<columns, age, retried, rejected, faulted, migrated>>

LoadHit(r) ==
    /\ at[r] = "load"
    /\ known
    /\ Ask(r, cached)
    /\ UNCHANGED <<known, cached, read>>

LoadMiss(r) ==
    /\ at[r] = "load"
    /\ ~known
    /\ at' = [at EXCEPT ![r] = "probe"]
    /\ UNCHANGED <<columns, known, cached, age, since, read, orderBy, retried, resolved,
                   rejected, faulted, migrated>>

\* A table that is not there has no columns; that is no error.
Probe(r) ==
    /\ at[r] = "probe"
    /\ InTime(r)
    /\ read' = [read EXCEPT ![r] = columns]
    /\ at' = [at EXCEPT ![r] = "store"]
    /\ UNCHANGED <<columns, known, cached, age, since, orderBy, retried, resolved,
                   rejected, faulted, migrated>>

Store(r) ==
    /\ at[r] = "store"
    /\ known' = TRUE
    /\ cached' = read[r]
    /\ read' = [read EXCEPT ![r] = {}]
    /\ Ask(r, read[r])

\* Mutant: what a failed probe has found by then is stored.
ProbeFailsStoring(r) ==
    /\ at[r] = "probe"
    /\ at' = [at EXCEPT ![r] = "query"]
    /\ since' = [since EXCEPT ![r] = age[r]]
    /\ faulted' = [faulted EXCEPT ![r] = TRUE]
    /\ known' = TRUE
    /\ cached' \in SUBSET columns
    /\ UNCHANGED <<columns, age, read, orderBy, retried, resolved, rejected, migrated>>

\* The probe fails or its context ends: the configured order is used as it is.
ProbeFails(r) ==
    /\ at[r] = "probe"
    /\ at' = [at EXCEPT ![r] = "query"]
    /\ since' = [since EXCEPT ![r] = age[r]]
    /\ faulted' = [faulted EXCEPT ![r] = TRUE]
    /\ UNCHANGED <<columns, known, cached, age, read, orderBy, retried, resolved, rejected, migrated>>

\* The rows arrive.
Listed(r) ==
    /\ at[r] \in {"query", "retry"}
    /\ InTime(r)
    /\ Accepts(orderBy[r])
    /\ at' = [at EXCEPT ![r] = "ok"]
    /\ UNCHANGED <<columns, known, cached, age, since, read, orderBy, retried, resolved,
                   rejected, faulted, migrated>>

\* Mutant: it is tried again until it works.
AgainAndAgain(r) ==
    /\ at' = [at EXCEPT ![r] = "retry"]
    /\ since' = [since EXCEPT ![r] = age[r]]
    /\ orderBy' = [orderBy EXCEPT ![r] = ById]
    /\ retried' = [retried EXCEPT ![r] = TRUE]
    /\ UNCHANGED <<columns, known, cached, age, read, resolved, migrated>>

\* They do not: once more in the order of the ids, unless that was it.
Again(r) ==
    /\ IF at[r] = "query" /\ ~ReadsById(orderBy[r])
         THEN /\ at' = [at EXCEPT ![r] = "retry"]
              /\ since' = [since EXCEPT ![r] = age[r]]
              /\ orderBy' = [orderBy EXCEPT ![r] = ById]
              /\ retried' = [retried EXCEPT ![r] = TRUE]
         ELSE /\ at' = [at EXCEPT ![r] = "failed"]
              /\ UNCHANGED <<since, orderBy, retried>>
    /\ UNCHANGED <<columns, known, cached, age, read, resolved, migrated>>

\* The database rejects the query.
Refused(r) ==
    /\ at[r] \in {"query", "retry"}
    /\ InTime(r)
    /\ ~Accepts(orderBy[r])
    /\ rejected' = [rejected EXCEPT ![r] = @ \/ columns # {}]
    /\ faulted' = faulted
    /\ Again(r)

\* The connection breaks, the client leaves or the context ends.
Lose(r) ==
    /\ at[r] \in {"query", "retry"}
    /\ faulted' = [faulted EXCEPT ![r] = TRUE]
    /\ rejected' = rejected
    /\ Again(r)

Listing(r) ==
    \/ LoadHit(r) \/ LoadMiss(r) \/ Probe(r) \/ Store(r) \/ ProbeFails(r)
    \/ Listed(r) \/ Refused(r) \/ Lose(r)

InFlight(r) == at[r] \notin {"idle", "ok", "failed"}

\* Time passes, up to the first deadline; replies do not age.
Tick ==
    /\ \E r \in Lists : InFlight(r)
    /\ \A r \in Lists : InFlight(r) => at[r] \in Waiting /\ InTime(r)
    /\ age' = [r \in Lists |-> IF InFlight(r) THEN age[r] + 1 ELSE age[r]]
    /\ UNCHANGED <<columns, known, cached, at, since, read, orderBy, retried, resolved,
                   rejected, faulted, migrated>>

\* The table is made or gets columns, as by schema.sql, which never takes one away.
\* A column renamed or dropped by hand is left out.
Migrate ==
    /\ \E t \in Tables : columns \subseteq t /\ columns # t /\ columns' = t
    /\ migrated' = TRUE
    /\ UNCHANGED <<known, cached, at, age, since, read, orderBy, retried, resolved,
                   rejected, faulted>>

ListNext == (\E r \in Lists : Begin(r) \/ Listing(r)) \/ Tick \/ Migrate

Fairness == \A r \in Lists : WF_listVars(Listing(r))

ListSpec == ListInit /\ [][ListNext]_listVars /\ Fairness

-----------------------------------------------------------------------------
\* Properties.

\* The shape of the state; nothing outlasts the deadline of the list.
ListTypeOK ==
    /\ columns \in Tables
    /\ known \in BOOLEAN
    /\ cached \subseteq AllColumns
    /\ at \in [Lists -> Places]
    /\ age \in [Lists -> 0..ListTimeout]
    /\ since \in [Lists -> 0..ListTimeout]
    /\ read \in [Lists -> SUBSET AllColumns]
    /\ orderBy \in [Lists -> SUBSET Whole]
    /\ retried \in [Lists -> BOOLEAN]
    /\ resolved \in [Lists -> BOOLEAN]
    /\ rejected \in [Lists -> BOOLEAN]
    /\ faulted \in [Lists -> BOOLEAN]
    /\ migrated \in BOOLEAN

Heard(r) == age[r] < WriteTimeout

\* Rows that the first query brings are heard: with the probe of the columns
\* before it, it still ends before the server stops writing.  Only a list that
\* was tried twice, or one whose probe and query both ran out of time, may go
\* unheard.
FirstAnswerHeard ==
    \A r \in Lists : at[r] \in {"ok", "failed"} /\ ~Heard(r) =>
        \/ retried[r]
        \/ at[r] = "failed" /\ age[r] = MetaTimeout + ReadTimeout

\* An order that was cut to the known columns is never rejected by a table that
\* is there, however old the knowledge: only an order that could not be resolved
\* is.
ResolvedNeverRejected ==
    \A r \in Lists : rejected[r] => ~resolved[r]

\* On the table the process started with, a list that met no fault is in the
\* whole configured order, less the columns the table lacks.
SettledInOrder ==
    ~migrated => \A r \in Lists :
        at[r] = "ok" /\ ~faulted[r] => orderBy[r] = Resolve(columns)

\* Every list ends.
ListEnds == \A r \in Lists : at[r] = "load" ~> at[r] \in {"ok", "failed"}
=============================================================================
