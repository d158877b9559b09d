--------------------------- MODULE SchemaVariants ---------------------------
(***************************************************************************)
(* The compatibility ladder of src/internal/database/schema.go and the     *)
(* process-wide cache of its winning rung (cachedQueryVariants).           *)
(*                                                                         *)
(* Three handlers read through it: bannersHandler (two rungs),             *)
(* tuningHandler (eight) and serviceOfferingsHandler (three).  Their cache *)
(* keys differ and nothing else is shared, so one ladder under one key is  *)
(* modelled.  Each request runs in a goroutine of its own; the cache       *)
(* operations (Load, Delete, Store of a sync.Map) are atomic, and          *)
(* everything may happen between two of them: other requests, a schema     *)
(* migration, a failed round trip, the expiry of the request's context.    *)
(***************************************************************************)
EXTENDS Integers

CONSTANTS
    Requests,   \* the requests that may be in flight together
    N,          \* the number of rungs of the ladder
    Schemas     \* the sets of rungs that some shape of the live schema accepts

\* Every ladder of the program has a rung.
ASSUME LadderAssumption == N \in Nat \ {0}

\* A shape of the schema is known to a ladder by the rungs it accepts.
ASSUME SchemasAssumption == Schemas # {} /\ Schemas \subseteq SUBSET (1..N)

NoEntry == 0

Resting  == {"idle", "served", "failed", "unread"}
InFlight == {"cached", "evict", "ladder", "store", "read"}

VARIABLES
    live,       \* the rungs the live schema accepts
    cached,     \* the entry of cachedQueryVariants under the ladder's key
    pc,         \* where each request is in its handler
    index,      \* the rung each request is about to query, or has queried
    cancelled,  \* the requests whose context has ended
    steady,     \* history: the rungs whose query would have succeeded, and did
                \*   if it was tried, at every moment of the request so far
    settled     \* history: no migration and no transient fault since the
                \*   process started

vars == <<live, cached, pc, index, cancelled, steady, settled>>

Init ==
    /\ live \in Schemas
    /\ cached = NoEntry
    /\ pc = [r \in Requests |-> "idle"]
    /\ index = [r \in Requests |-> 1]
    /\ cancelled = {}
    /\ steady = [r \in Requests |-> {}]
    /\ settled = TRUE

-----------------------------------------------------------------------------
\* The outcomes of one round trip, db.QueryContext(ctx, queries[index]).

\* The query is accepted only if the schema has what it names and the
\* request's context, shared by every query of the request, is alive.
Accepted(r) == index[r] \in live /\ r \notin cancelled

Succeeds(r) == Accepted(r) /\ UNCHANGED <<steady, settled>>

\* It fails when the schema or the context refuses it, and may fail all the
\* same on a lost connection or a server error.
Faults(r) ==
    \/ ~Accepted(r) /\ UNCHANGED <<steady, settled>>
    \/ /\ Accepted(r)
       /\ steady' = [steady EXCEPT ![r] = @ \ {index[r]}]
       /\ settled' = FALSE

-----------------------------------------------------------------------------
\* The steps of a handler.

\* The handler derives its context and QuerySchemaVariant loads the cache.
Begin(r) ==
    /\ pc[r] \in Resting
    /\ IF cached \in 1..N
         THEN /\ pc' = [pc EXCEPT ![r] = "cached"]
              /\ index' = [index EXCEPT ![r] = cached]
         ELSE /\ pc' = [pc EXCEPT ![r] = "ladder"]
              /\ index' = [index EXCEPT ![r] = 1]
    /\ cancelled' = cancelled \ {r}
    /\ steady' = [steady EXCEPT ![r] = live]
    /\ UNCHANGED <<live, cached, settled>>

\* Mutant: the entry is dropped before the error is looked at.
CachedServesDropping(r) ==
    /\ pc[r] = "cached"
    /\ Succeeds(r)
    /\ pc' = [pc EXCEPT ![r] = "read"]
    /\ cached' = NoEntry
    /\ UNCHANGED <<live, index, cancelled>>

\* The query loaded from the cache answers.
CachedServes(r) ==
    /\ pc[r] = "cached"
    /\ Succeeds(r)
    /\ pc' = [pc EXCEPT ![r] = "read"]
    /\ UNCHANGED <<live, cached, index, cancelled>>

\* Mutant: the error of the cached query is returned to the handler.
CachedFailsOutright(r) ==
    /\ pc[r] = "cached"
    /\ Faults(r)
    /\ pc' = [pc EXCEPT ![r] = "failed"]
    /\ UNCHANGED <<live, cached, index, cancelled>>

\* It fails, for whatever reason: the entry is to be dropped.
CachedFails(r) ==
    /\ pc[r] = "cached"
    /\ Faults(r)
    /\ pc' = [pc EXCEPT ![r] = "evict"]
    /\ UNCHANGED <<live, cached, index, cancelled>>

\* cachedQueryVariants.Delete drops whatever entry is there by now, and the
\* ladder is walked from the top.
Evict(r) ==
    /\ pc[r] = "evict"
    /\ cached' = NoEntry
    /\ pc' = [pc EXCEPT ![r] = "ladder"]
    /\ index' = [index EXCEPT ![r] = 1]
    /\ UNCHANGED <<live, cancelled, steady, settled>>

LadderFinds(r) ==
    /\ pc[r] = "ladder"
    /\ Succeeds(r)
    /\ pc' = [pc EXCEPT ![r] = "store"]
    /\ UNCHANGED <<live, cached, index, cancelled>>

\* Mutant: the walk runs one rung past the end.
LadderFailsPastEnd(r) ==
    /\ pc[r] = "ladder"
    /\ Faults(r)
    /\ IF index[r] <= N
         THEN index' = [index EXCEPT ![r] = @ + 1] /\ pc' = pc
         ELSE pc' = [pc EXCEPT ![r] = "failed"] /\ index' = index
    /\ UNCHANGED <<live, cached, cancelled>>

\* Mutant: every query has a deadline of its own.
LadderFailsAfresh(r) ==
    /\ pc[r] = "ladder"
    /\ Faults(r)
    /\ IF index[r] < N
         THEN index' = [index EXCEPT ![r] = @ + 1] /\ pc' = pc
         ELSE pc' = [pc EXCEPT ![r] = "failed"] /\ index' = index
    /\ cancelled' = cancelled \ {r}
    /\ UNCHANGED <<live, cached>>

\* Mutant: a rung that fails is tried again.
LadderFailsAgain(r) ==
    /\ pc[r] = "ladder"
    /\ Faults(r)
    /\ UNCHANGED <<live, cached, pc, index, cancelled>>

\* A rung that fails hands over to the next; the last one fails the request.
LadderFails(r) ==
    /\ pc[r] = "ladder"
    /\ Faults(r)
    /\ IF index[r] < N
         THEN index' = [index EXCEPT ![r] = @ + 1] /\ pc' = pc
         ELSE pc' = [pc EXCEPT ![r] = "failed"] /\ index' = index
    /\ UNCHANGED <<live, cached, cancelled>>

\* cachedQueryVariants.Store overwrites whatever entry is there by now.
Store(r) ==
    /\ pc[r] = "store"
    /\ cached' = index[r]
    /\ pc' = [pc EXCEPT ![r] = "read"]
    /\ UNCHANGED <<live, index, cancelled, steady, settled>>

\* The handler scans the rows and writes the answer.
ReadRows(r) ==
    /\ pc[r] = "read"
    /\ pc' = [pc EXCEPT ![r] = "served"]
    /\ UNCHANGED <<live, cached, index, cancelled, steady, settled>>

\* The context ends, or the connection breaks, while the rows are read: the
\* handler answers 500 and neither falls back nor touches the cache.
ReadFails(r) ==
    /\ pc[r] = "read"
    /\ pc' = [pc EXCEPT ![r] = "unread"]
    /\ settled' = (settled /\ r \in cancelled)
    /\ UNCHANGED <<live, cached, index, cancelled, steady>>

Handler(r) ==
    \/ CachedServes(r) \/ CachedFails(r) \/ Evict(r)
    \/ LadderFinds(r) \/ LadderFails(r) \/ Store(r)
    \/ ReadRows(r) \/ ReadFails(r)

-----------------------------------------------------------------------------
\* The environment.

\* readTimeout passes, or the client goes away.
Cancel(r) ==
    /\ pc[r] \in InFlight
    /\ r \notin cancelled
    /\ cancelled' = cancelled \cup {r}
    /\ steady' = [steady EXCEPT ![r] = {}]
    /\ UNCHANGED <<live, cached, pc, index, settled>>

\* Someone changes the schema under the running process.
Migrate ==
    /\ live' \in Schemas \ {live}
    /\ steady' = [r \in Requests |-> steady[r] \cap live']
    /\ settled' = FALSE
    /\ UNCHANGED <<cached, pc, index, cancelled>>

\* The process stops, with whatever it was doing, and starts again: the
\* caches are package variables.
Restart ==
    /\ cached' = NoEntry
    /\ pc' = [r \in Requests |-> "idle"]
    /\ index' = [r \in Requests |-> 1]
    /\ cancelled' = {}
    /\ steady' = [r \in Requests |-> {}]
    /\ settled' = TRUE
    /\ live' = live

Next ==
    \/ \E r \in Requests : Begin(r) \/ Handler(r) \/ Cancel(r)
    \/ Migrate
    \/ Restart

\* Every round trip ends within the request's deadline, so a handler that is
\* in flight takes its next step.  Nothing obliges a client to call, the
\* schema to change or the process to stop.
Fairness == \A r \in Requests : WF_vars(Handler(r))

Spec == Init /\ [][Next]_vars /\ Fairness

-----------------------------------------------------------------------------
\* Properties.

\* The shape of the state: the cache holds a rung of the ladder or nothing, and
\* a request that has stopped querying still names a rung.
TypeOK ==
    /\ live \in Schemas
    /\ cached \in 0..N
    /\ pc \in [Requests -> Resting \cup InFlight]
    /\ index \in [Requests -> 1..N]
    /\ cancelled \subseteq Requests
    /\ steady \in [Requests -> SUBSET (1..N)]
    /\ settled \in BOOLEAN

\* A stale entry, an eviction or a migration in the middle of the walk never
\* costs a request its answer: QuerySchemaVariant gives up only when not one
\* rung was usable from the request's first moment to its last.
NoSpuriousFailure ==
    \A r \in Requests : pc[r] = "failed" => steady[r] = {}

\* i is the rung a walk from the top stops at.
FirstRung(i) == i \in live /\ \A j \in live : i <= j

\* While the schema keeps its shape and no round trip is lost, the cache holds
\* the first rung the schema accepts or nothing at all, and every answer comes
\* from that rung, however many requests probe, expire and evict together.
FirstAccepted ==
    settled =>
        /\ cached # NoEntry => FirstRung(cached)
        /\ \A r \in Requests :
             pc[r] \in {"store", "read", "served"} => FirstRung(index[r])

\* "Later requests go straight to it": once the winning rung is cached, no
\* request whose context is alive ever costs the others their entry (a
\* migration, a lost round trip and a restart may).
WarmStaysWarm ==
    [][ (settled /\ settled' /\ cancelled = {} /\ cached # NoEntry /\ ~Restart)
          => cached' = cached ]_vars

\* A request never circles between the cache and the ladder, whatever other
\* requests and migrations do to the entry meanwhile.
Terminates ==
    \A r \in Requests : (pc[r] \in InFlight) ~> (pc[r] \in Resting)

\* What the comment of QuerySchemaVariant says: the answer comes from the first
\* rung the live schema accepts (here: no later than any rung usable throughout
\* the request).
ServesFirstAccepted ==
    \A r \in Requests :
        pc[r] = "served" => \A i \in steady[r] : index[r] <= i
=============================================================================
