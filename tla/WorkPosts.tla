------------------------------ MODULE WorkPosts ------------------------------
(***************************************************************************)
(* GET /work_post (workPostHandler in src/internal/handlers/content.go)    *)
(* over the process-wide memo of schema probes (cachedLookup and its       *)
(* callers ResolveWorkPostTable and HasColumn in                           *)
(* src/internal/database/schema.go).                                       *)
(*                                                                         *)
(* A request makes two memoised lookups, one after the other, and builds   *)
(* its query from both answers.  Requests run concurrently; the Load and   *)
(* the Store of the memo are atomic, the probe between them is a round     *)
(* trip to the database, and schema.sql may be applied at any moment.      *)
(***************************************************************************)
EXTENDS Integers

CONSTANT Requests   \* the requests that may be in flight together

Tables == {"work_post", "blog_posts"}

\* The keys of cachedSchemaLookups this handler uses: "resolve:work_post", and
\* "column:<table>.gallery_images" for either table.
Keys == {"resolve"} \cup Tables

\* What a lookup may answer: a table or "none" (the empty name) to "resolve",
\* "yes" or "no" to the existence of the column.  An absent entry is "unknown".
Answers(k) == IF k = "resolve" THEN Tables \cup {"none"} ELSE {"yes", "no"}

AnyAnswer == Tables \cup {"none", "yes", "no"}

Resting  == {"idle", "served", "missing", "faulted", "rejected"}
InFlight == {"load", "probe", "store", "query", "read"}

VARIABLES
    tables,     \* the tables the database has
    gallery,    \* the tables that have the column gallery_images
    memo,       \* cachedSchemaLookups
    pc,         \* where each request is in its handler
    key,        \* the key each request is looking up
    answer,     \* the answer to its last lookup, once probed or loaded
    table,      \* tableName of the handler
    before,     \* history: the tables there were when the request began
    migrated    \* history: the schema has changed since the process started

vars == <<tables, gallery, memo, pc, key, answer, table, before, migrated>>

Init ==
    /\ tables \in SUBSET Tables
    /\ gallery \in SUBSET tables
    /\ memo = [k \in Keys |-> "unknown"]
    /\ pc = [r \in Requests |-> "idle"]
    /\ key = [r \in Requests |-> "resolve"]
    /\ answer = [r \in Requests |-> "none"]
    /\ table = [r \in Requests |-> "none"]
    /\ before = [r \in Requests |-> {}]
    /\ migrated = FALSE

\* What a probe of the live schema finds: work_post wins over blog_posts.
Truth(k) ==
    IF k = "resolve"
      THEN CASE "work_post" \in tables  -> "work_post"
             [] tables = {"blog_posts"} -> "blog_posts"
             [] OTHER                   -> "none"
      ELSE IF k \in gallery THEN "yes" ELSE "no"

-----------------------------------------------------------------------------

\* Mutant: the key of a column lookup leaves out the table.
ReturnToOneKey(r, v) ==
    /\ answer' = [answer EXCEPT ![r] = v]
    /\ IF key[r] = "resolve"
         THEN /\ table' = [table EXCEPT ![r] = v]
              /\ IF v = "none"
                   THEN pc' = [pc EXCEPT ![r] = "missing"] /\ key' = key
                   ELSE /\ pc' = [pc EXCEPT ![r] = "load"]
                        /\ key' = [key EXCEPT ![r] = "work_post"]
         ELSE /\ pc' = [pc EXCEPT ![r] = "query"]
              /\ UNCHANGED <<key, table>>

\* cachedLookup returns v to the handler of r.  No table at all ends the
\* request; a table leads to the lookup of its column; the column to the query.
Return(r, v) ==
    /\ answer' = [answer EXCEPT ![r] = v]
    /\ IF key[r] = "resolve"
         THEN /\ table' = [table EXCEPT ![r] = v]
              /\ IF v = "none"
                   THEN pc' = [pc EXCEPT ![r] = "missing"] /\ key' = key
                   ELSE /\ pc' = [pc EXCEPT ![r] = "load"]
                        /\ key' = [key EXCEPT ![r] = v]
         ELSE /\ pc' = [pc EXCEPT ![r] = "query"]
              /\ UNCHANGED <<key, table>>

Begin(r) ==
    /\ pc[r] \in Resting
    /\ pc' = [pc EXCEPT ![r] = "load"]
    /\ key' = [key EXCEPT ![r] = "resolve"]
    /\ before' = [before EXCEPT ![r] = tables]
    /\ UNCHANGED <<tables, gallery, memo, answer, table, migrated>>

\* The memo has the key.
LoadHit(r) ==
    /\ pc[r] = "load"
    /\ memo[key[r]] # "unknown"
    /\ Return(r, memo[key[r]])
    /\ UNCHANGED <<tables, gallery, memo, before, migrated>>

LoadMiss(r) ==
    /\ pc[r] = "load"
    /\ memo[key[r]] = "unknown"
    /\ pc' = [pc EXCEPT ![r] = "probe"]
    /\ UNCHANGED <<tables, gallery, memo, key, answer, table, before, migrated>>

\* The probe reads the schema as it is now.
Probe(r) ==
    /\ pc[r] = "probe"
    /\ answer' = [answer EXCEPT ![r] = Truth(key[r])]
    /\ pc' = [pc EXCEPT ![r] = "store"]
    /\ UNCHANGED <<tables, gallery, memo, key, table, before, migrated>>

\* Mutant: the zero value of a failed probe is stored with the rest.
ProbeFailsStoring(r) ==
    /\ pc[r] = "probe"
    /\ memo' = [memo EXCEPT ![key[r]] = IF key[r] = "resolve" THEN "none" ELSE "no"]
    /\ pc' = [pc EXCEPT ![r] = "faulted"]
    /\ UNCHANGED <<tables, gallery, key, answer, table, before, migrated>>

\* Mutant: a failed column probe counts as an absent column.
ProbeFailsQuietly(r) ==
    /\ pc[r] = "probe"
    /\ key[r] # "resolve"
    /\ answer' = [answer EXCEPT ![r] = "no"]
    /\ pc' = [pc EXCEPT ![r] = "query"]
    /\ UNCHANGED <<tables, gallery, memo, key, table, before, migrated>>

\* The probe fails (a lost connection, the deadline, the client gone): the
\* handler answers 500 and the memo is left alone.
ProbeFails(r) ==
    /\ pc[r] = "probe"
    /\ pc' = [pc EXCEPT ![r] = "faulted"]
    /\ UNCHANGED <<tables, gallery, memo, key, answer, table, before, migrated>>

\* Mutant: both lookups store under one key.
StoreUnderOneKey(r) ==
    /\ pc[r] = "store"
    /\ memo' = [memo EXCEPT !["resolve"] = answer[r]]
    /\ Return(r, answer[r])
    /\ UNCHANGED <<tables, gallery, before, migrated>>

\* Store overwrites whatever entry is there by now.
Store(r) ==
    /\ pc[r] = "store"
    /\ memo' = [memo EXCEPT ![key[r]] = answer[r]]
    /\ Return(r, answer[r])
    /\ UNCHANGED <<tables, gallery, before, migrated>>

\* The query names the table, and the column only if the lookup said so.
Acceptable(r) ==
    table[r] \in tables /\ (answer[r] = "yes" => table[r] \in gallery)

Query(r) ==
    /\ pc[r] = "query"
    /\ pc' = [pc EXCEPT ![r] = IF Acceptable(r) THEN "read" ELSE "rejected"]
    /\ UNCHANGED <<tables, gallery, memo, key, answer, table, before, migrated>>

\* The query or the reading of its rows is lost for any other reason.
QueryFails(r) ==
    /\ pc[r] \in {"query", "read"}
    /\ pc' = [pc EXCEPT ![r] = "faulted"]
    /\ UNCHANGED <<tables, gallery, memo, key, answer, table, before, migrated>>

ReadRows(r) ==
    /\ pc[r] = "read"
    /\ pc' = [pc EXCEPT ![r] = "served"]
    /\ UNCHANGED <<tables, gallery, memo, key, answer, table, before, migrated>>

Handler(r) ==
    \/ LoadHit(r) \/ LoadMiss(r) \/ Probe(r) \/ ProbeFails(r) \/ Store(r)
    \/ Query(r) \/ QueryFails(r) \/ ReadRows(r)

\* schema.sql, or a part of it, is applied under the running process: it only
\* ever creates tables and adds the column.
Migrate ==
    /\ tables' \in SUBSET Tables /\ tables \subseteq tables'
    /\ gallery' \in SUBSET tables' /\ gallery \subseteq gallery'
    /\ <<tables', gallery'>> # <<tables, gallery>>
    /\ migrated' = TRUE
    /\ UNCHANGED <<memo, pc, key, answer, table, before>>

\* The process stops and starts again: the memo is a package variable.
Restart ==
    /\ memo' = [k \in Keys |-> "unknown"]
    /\ pc' = [r \in Requests |-> "idle"]
    /\ key' = [r \in Requests |-> "resolve"]
    /\ answer' = [r \in Requests |-> "none"]
    /\ table' = [r \in Requests |-> "none"]
    /\ before' = [r \in Requests |-> {}]
    /\ migrated' = FALSE
    /\ UNCHANGED <<tables, gallery>>

Next ==
    \/ \E r \in Requests : Begin(r) \/ Handler(r)
    \/ Migrate
    \/ Restart

Spec == Init /\ [][Next]_vars

-----------------------------------------------------------------------------
\* Properties.

\* The shape of the state: the memo answers each key in the key's own terms
\* (cached.(T) never panics on an entry of another lookup's type).
TypeOK ==
    /\ tables \subseteq Tables
    /\ gallery \subseteq tables
    /\ memo \in [Keys -> AnyAnswer \cup {"unknown"}]
    /\ \A k \in Keys : memo[k] \in Answers(k) \cup {"unknown"}
    /\ pc \in [Requests -> Resting \cup InFlight]
    /\ key \in [Requests -> Keys]
    /\ answer \in [Requests -> AnyAnswer]
    /\ table \in [Requests -> Tables \cup {"none"}]
    /\ before \in [Requests -> SUBSET Tables]
    /\ migrated \in BOOLEAN

\* "A transient error never poisons the cache": as long as the schema has not
\* changed under the process, every entry is what a probe would find, whatever
\* probes failed and whichever request stored last.
MemoTruthful ==
    ~migrated => \A k \in Keys : memo[k] \in {"unknown", Truth(k)}

\* However stale the memo and however the two lookups of a request straddle an
\* additive migration, the handler never sends a query the schema rejects.
NeverRejected == \A r \in Requests : pc[r] # "rejected"

\* As long as the schema has not changed under the process, an answer comes from
\* the table the handler prefers, with the column if the table has it.
ServesPreferred ==
    \A r \in Requests :
        pc[r] \in {"read", "served"} /\ ~migrated =>
            /\ table[r] = Truth("resolve")
            /\ answer[r] = Truth(table[r])

\* "Backend first tries public.work_post, then falls back": a request that began
\* when work_post existed is neither served from blog_posts nor told that there
\* is no table.
FirstTriesWorkPost ==
    \A r \in Requests :
        pc[r] \in {"served", "missing"} /\ "work_post" \in before[r] =>
            table[r] = "work_post"
=============================================================================
