# A verification project for the 7 Carbon API

The program under `src/` is a Go HTTP server (`src/main.go`) in front of one
PostgreSQL database, reached through a connection pooler in another region, and
of Supabase object storage.  It serves public content, takes consultation
requests from visitors, and gives administrators generic CRUD and file routes
behind a token.  The directory `tla/` models the parts of it whose behaviour
depends on what happens *between* their steps, checks the models with TLC and
proves the main results with TLAPS.

Every module names the source file it models in its header; `PROJECT.json` maps
every definition to the lines it stands for.

## 1. The system

| component | state it keeps | operations | what is hard |
|---|---|---|---|
| schema ladder `internal/database/schema.go` `QuerySchemaVariant` | `cachedQueryVariants`, one index per ladder, process-wide | cached query, evict, walk the ladder, store | concurrent requests, a dying request context shared by all its queries, transient errors taken for schema errors, migrations |
| schema probes, same file, `cachedLookup` | `cachedSchemaLookups`, process-wide, never invalidated | load, probe, store | racing loaders, failed probes, negative answers kept for ever |
| column sets, same file, `TableColumns` | `cachedTableColumns` | load, read, store | an empty set is kept for ever |
| `GET /work_post`, `/tuning`, `/service_offerings`, `/banners` `internal/handlers/content.go` | none of their own | `/work_post` reads through the second of the caches above, the others through the first | several steps per request, each possibly stale |
| `GET /about` | none | three probes and three reads | no common snapshot, edits and a cascade between the reads |
| other public reads | none | one query each (`/contact` a second one on error) | nothing interleaves within one |
| consultations `internal/handlers/consultations.go` | the table `consultations`; one goroutine per notification | validate, insert, notify, reply; list (public) | commits after the deadline, lost notifications, shutdown |
| admin auth `internal/auth/auth.go`, `internal/handlers/admin_auth.go` | none: tokens carry their expiry under a signature; the configuration is the environment | login, gate, me | rounding of times, two readings of the clock, rotation of the secret |
| generic CRUD `internal/handlers/admin_crud.go` | fifteen tables | list, fetch, create, update, delete | replies lost after a commit, concurrent edits, tuning columns chosen from stale probes |
| admin list, same file, `adminFetchMany` | `cachedTableColumns` | resolve the order, query, retry by id | three nested deadlines against the server's `WriteTimeout`, stale column sets |
| object storage `internal/handlers/admin_storage.go`, `internal/storage/supabase.go` | objects in Supabase | upload, list, delete | in-doubt uploads and deletes, partial listings, answers that break off, names that cannot be addressed |
| middleware `internal/httpmw/middleware.go` | a pool of gzip writers | buffer, ETag/304, gzip | freshness of a 304, ownership of pooled writers |
| process `src/main.go` | the server, the database handle | start, signal, Shutdown, Close, exit | Shutdown waits 10 s, handlers may take 12 s, notifications are not waited for |
| `env`, `render`, `database.Open`, routing | none after start | parsing, decoding, pinging | sequential |

**Interactions.**  A request is a goroutine.  Requests share the three
`sync.Map` caches, whose `Load`, `Store` and `Delete` are atomic, the connection
pool and the database.  Every request carries one context, with a deadline of 5,
10, 12 or 20 seconds (`handlers.go:22-32`), for *all* its statements: once it has
ended every further statement fails.  A statement whose handler has given up may
still commit.  A consultation starts a second goroutine, the notification, with
three seconds of its own.  Everything in memory is lost with the process;
rows, tokens held by clients and requests on the wire are not.

### What makes each part correct

* **Ladder**: a request fails only if no variant could have served it; a cache
  on an undisturbed schema holds the first accepted variant; a warm cache stays
  warm; a request never circles between cache and ladder.
* **Probes, `/work_post`**: an entry is what a probe would find; no pair of
  stale answers yields a query the database rejects.
* **Consultations**: recorded at most once; confirmed only if recorded; refused
  only if never recorded; notified at most once and only of what is recorded;
  what is stored is what was validated, and what the administrator hears is what
  is stored, of no submission whose visitor was told that it failed.
* **Auth**: a token works exactly for its session, up to a second, under the
  secret that signed it.
* **CRUD**: each request takes effect at most once, atomically; its reply is
  true of that effect; columns it did not name are untouched; a deleted row
  stays gone; a create fills what is required.
* **About**: a poll during which nothing changes shows one snapshot of the three
  tables, on the schema the process started with.
* **Middleware**: a `304` only to a client that has what this request computed; a
  pooled writer has no user, so no reply carries the body of another.
* **Storage**: a confirmed upload or delete stands unless another call on the
  object was on its way or came later; an upload stays in the folder asked for and,
  unless dots hid a space in its name, can be deleted by the path it reported; a
  listing shows only what was there.
* **Admin list**: it ends, the first answer in time to be heard; an order cut to
  known columns is never rejected; without faults or migrations it is the whole
  configured order the table can serve.
* **Tuning**: the public readers show what the last confirmed update meant,
  whichever of the two names it used and whichever column is there; the images
  shown are the ones last written, also after the script's conversion, but for
  JSON that is no array.

## 2. Modules

| module | models | state ↔ code |
|---|---|---|
| `SchemaVariants` | `QuerySchemaVariant` and the three handlers that call it (banners, tuning, service offerings) | `cached` is `cachedQueryVariants[key]` (`NoEntry` when absent), `index[r]` the loop index, `pc[r]` the place in the function: `cached` (line 179), `evict` (183), `ladder` (190), `store` (192), `read` (the handler's `rows.Next` loop); `live` is the set of rungs the schema accepts; `cancelled` the requests whose context ended |
| `WorkPosts` | `cachedLookup`, `ResolveWorkPostTable`, `HasColumn`, `workPostHandler` | `memo` is `cachedSchemaLookups`, `key[r]`/`answer[r]`/`table[r]` the handler's locals, `pc[r]`: `load` (27), `probe` (30), `store` (35), `query` (content.go:722), `read` (744) |
| `Inbox` | what the consultation endpoint promises; no code | abstract |
| `Consultations` | `createConsultationHandler`, `notifyAdminAboutConsultation`, the life cycle in `main` | `rows` the table, `statement[s]` the INSERT at the server, `alert[s]` the goroutine, `wire`/`received` the webhook, `server` where `main` is |
| `AdminAuth` | `LoadConfig`, `resolveSessionTTL`, `IssueAccessToken`, `VerifyAccessToken`, `ExtractToken`, `RequireToken`, login and me | `config` the environment, `minted` the tokens, `now` the clock in ticks finer than a second |
| `AdminTable` | what the admin routes of one table promise; no code | abstract |
| `AdminCRUD` | `makeAdminTableCRUDHandler`, `contactsCRUDHandler`, `adminFetchOne`, `adminCreateOne`, `adminUpdateOne`, `adminDeleteOne` and their helpers | `rows` the table by id, `next` the id sequence, `statement[r]` the one statement of request `r` at the server and what it returned, `pc[r]`: `received` (before `QueryRowContext`), `waiting` (in `Scan`), `done`, `cut` (the process died) |
| `AdminList` | `adminFetchMany`, `resolveAdminListOrderBy`, `TableColumns`, `queryAdminListWithTimeout` | `known`/`cached` are the table's entry in `cachedTableColumns`, `at[r]`: `probe` (schema.go:142), `store` (167), `query` and `retry` (admin_crud.go:252, 255); `age[r]` the time since the request was read, `since[r]` its age when the query was sent, `orderBy[r]` the clauses kept of the configured order, `{}` for `t.id ASC` |
| `Conditional` | `Response` and `matchesETag` of `internal/httpmw/middleware.go`, for whatever handler | `status`/`body` are the recorder, `writer`/`buffer` are `gz`/`compressed`, `pool` the idle writers, `target` what a writer was last `Reset` to, `copy` what the client shows; `at[c]`: `handler` (line 88), `buffered` (90), `writing` (114), `compressed` (120) |
| `AboutPage` | `aboutHandler`, `HasTable`, the three tables of `schema.sql` and the edits of them | `tables`, `pages`, `rows` the database, `memo` is `cachedSchemaLookups`, `step[r]` which of the three tables the handler is at, `page`/`found` its response so far |
| `AboutPolling` | the handler inside the middleware, as `main.go` wraps it | the two together; `Conditional` is instantiated with the responses of `AboutPage` as bodies |
| `StoragePaths` | `CleanPath`, `CleanOptionalPath`, `SanitizeFilename` | operators on texts (sequences of symbols) and paths (sequences of texts) |
| `ObjectStore` | the three handlers of `admin_storage.go`, `ListBuckets`, `ListBucketFiles`, and the store as they use it | `objects` the store, `call[r]` the HTTP call on its way and its outcome, `entries[r]` the listing so far, `expired[r]` its context; `pc[r]`: `waiting` (in `Do`), `buckets`, `listing` |
| `ImageCells` | `StringArray` and the conversion of `full_image_url` | operators on the kinds of cell |
| `TuningColumns` | update of `/admin/tuning`: `normalizeTuningPayload`, `alignTuningPayloadToSchema`, against what `tuningHandler` shows | `columns`/`row` the table, `memo` is `cachedSchemaLookups`, `has[r]` the handler's two Booleans, `column`/`cell` the images; `step[r]` which of the two it looks up |
| `MC…` | the small instances TLC checks | |
| `…Proofs` | the theorems of the module they extend | |

One action is one step that other parties can interleave with: a cache operation
or a round trip, with everything the handler does before the next one.  History
variables, which nothing in the code reads, are marked `history` where they are
declared: `steady`, `settled`, `before`, `migrated`, `gateAt`, `quiet`,
`alone`, `seen`, `resolved`, `rejected`, `faulted`, `meant`, `clean`, `sound`,
`given`, and the fields `at` and `ttl` of a token.

Below some definitions stands an operator commented `Mutant:`, the same
definition with a plausible mistake.  Nothing uses it; `PROJECT.json` says which
property of which run fails when it takes the definition's place.

### Abstractions

* A query is known by whether the live schema accepts it; a schema by the rungs
  it accepts.  Any of `Schemas` may follow any other, so migrations are not only
  additive for the ladder; for `/work_post` they are what `schema.sql` does.
* `QueryContext` is one step: refused by schema or context, lost, or answered.
  Errors while rows are read are a separate step, because the code neither falls
  back nor evicts there.
* Texts are `empty`, `blank`, `good`, `padded` or `bad`; one field stands for the
  required ones, one for the phone, one for the optional ones.
* A token is a record of its expiry and of the secret that signed it: an intact
  HMAC is assumed.  Usernames and passwords are `credentials`, and a login is
  one with the right ones.  Times are exact in ticks; only the code's own
  rounding is modelled.
* A cell of a table is `null`, `blank` or one of a few texts.  A statement of
  `AdminCRUD` is one step of the database, as each is a single SQL statement
  that commits by itself; constraints other than `NOT NULL` show as `Abort`,
  which may strike any statement.  The table is one that only these routes
  write: `consultations` has another writer, `about_metrics` and
  `about_sections` lose rows by the cascade from `about_page`.
* Of a page of `/about` its id is kept, of the metrics and the sections which pages
  have any.  `schema.sql` is one transaction (lines 17 to 489), so its tables and
  its page 1 appear together.  Two bodies with one ETag are taken to be one body.  The writer of a
  reply that breaks off in `Write` is back in the pool by then, as in the code.
* Of an object the request that wrote it is kept.  A listing is one page with room
  for everything; paging, sorting and search are the store's.  `/` and `\` are
  one separator, as the code makes them; a space stands for all white space.
* A cell of `full_image_url` holds any JSON value, because `normalizeCRUDValue`
  stores whatever it is sent (`admin_crud.go:754-761`): arrays of several kinds,
  strings, and `other` for null, numbers, Booleans and objects, which the readers
  and the script treat alike.  In a TEXT column it may also hold what is no JSON: blank, a
  bare address, or a text that only begins with a bracket.  The column may be
  missing.  Where a cell is in the way of the cast or of the check the whole
  script fails, as one transaction does.
* A tuning row keeps one text, its images and no other column.  The readers of
  tuning are not actions: any column the schema has may be the one a rung reads,
  because `SchemaVariants` shows that a fault may put any accepted rung in the
  cache, so `WrittenIsRead` speaks of all of them.
* In `AdminList` time passes in ticks, only while every handler waits for the
  database; computing takes none, and no wait outlasts its context.  The code
  drops clauses of the configured order and never moves one, so an order is the
  set of the indices of those it keeps.  Migrations only add columns there, as
  `schema.sql` does; the renaming by hand that `TuningColumns` has is left out, and
  would make a remembered order one the table rejects.
* A shutdown may begin at any moment and return at any moment after it, with
  handlers at work or not, and a connection accepted before it may still bring a
  submission: what `Shutdown` waits for is `net/http`'s promise, and no property
  rests on it.
* Deadlines have no length in the other modules but `AdminAuth`:
  they may strike at any step of a request in flight, which includes every
  schedule that the real lengths allow (10 s of Shutdown against 12 s of a
  handler among them).

## 3. Runs

| run | instance | shows |
|---|---|---|
| `schema_variants` | 2 requests, 3 rungs, 5 shapes of the schema (none, one, two and all rungs accepted) | `TypeOK`, `NoSpuriousFailure`, `FirstAccepted`, `WarmStaysWarm`, `Terminates` |
| `schema_variants_static` | the same with a schema that never changes | **violation** of `ServesFirstAccepted`, see section 5 |
| `work_posts` | 2 interchangeable requests, all subsets of tables and columns | `TypeOK`, `MemoTruthful`, `NeverRejected`, `ServesPreferred` |
| `work_posts_stale` | the same | **violation** of `FirstTriesWorkPost` |
| `consultations` | 2 submissions, 4 bodies | `TypeOK`, `RowsClean`, `AlertsTrue`, `ConfirmedIsNotified`, refinement of `Inbox`, `Settles` |
| `admin_auth` | 1 request at a time, half-second ticks, clock up to 5, one token, two secrets, settings 0, 1, 2 and 4 ticks against a maximum and default of 3 | `TypeOK`, `NeverOutlives`, `NotCutShort` |
| `admin_auth_me` | the same | **violation** of `BearerIsBearer` |
| `admin_crud` | 3 interchangeable requests, each any of 11 operations, on a table of a required and an optional column that starts with one row | `TypeOK`, `EditsSurvive`, `DeletedIsGone`, `EmptiedByEdit`, refinement of `AdminTable` |
| `admin_list` | 2 requests, a table that is absent, lacks `created_at` or is complete, ticks of 2.5 s: timeouts 2, 4, 8 and 6 ticks | `ListTypeOK`, `FirstAnswerHeard`, `ResolvedNeverRejected`, `SettledInOrder`, `ListEnds` |
| `about_polling` | 2 interchangeable clients, 2 interchangeable writers, 2 pages, 2 edits or runs of the schema script | `TypeOK`, `WritersOwned`, `QuietPollShowsTables`, `ShownIsComputed` |
| `object_store` | 3 interchangeable requests, each any of 8 operations, on 2 buckets, one with an object | `TypeOK`, `ConfirmedStands`, `Contained`, `Addressable`, `ListingsTrue` |
| `tuning_columns` | 2 requests, each any of 9 updates, on every shape of the table and of its column of images | `TypeOK`, `WrittenIsRead`, `ImagesKept` |

**Why the bounds are enough.**  Two requests give every race on one cache entry:
an entry is touched by one `Delete` or `Store` at a time, and a third request
only repeats the role of one of the two.  Three rungs have a first, a middle and
a last one, so that an entry can be too early and too late.  Two submissions are
one more than the promises of `Inbox` speak of, and let one be in flight while
the other is settled.  For tokens, a tick of half a second, an odd session and a
clock that passes both its ends reach every combination of rounding; the bounds
`MaxNow` and `MaxTokens` are guards of `Tick` and `Login` only.  Three requests on a
table are two that race and one that comes before, between or after them (a
delete, an update under way and a create); the operations reach each branch of
each handler but the refusal of a missing id, which is a `400` like that of a bad
one.  `AdminCRUD` has no bound of its own: a request is answered once, so its
runs end by themselves.  For `/about`, two edits (`MaxEdits`, a guard of the edits and of the script
only) put one before and one between the reads of a poll, or both between, and each kind of edit may
be either; two pages make one that is read and one that is not.  Two clients and
two writers let a writer go from one request to the other.  The operations on the
store reach each branch of each route and of the path functions: blank, refused
and doubled separators, spaces and dots that hide each other, a name that is
nothing but a space once its dots are gone, a name of its own.
The ticks of the admin list are a common measure of its four timeouts, so every
deadline falls on a tick; orders of two clauses have one that may be missing and
one that may not.  The updates of tuning say either name, both, or none, empty
and not, and each kind of image: two arrays, the empty one, two strings and any
other JSON.  The proofs below
hold without any of these bounds, except that the model's clock stops at `MaxNow`,
which is any natural number.

Deadlock is checked in every run: requests can always begin again, or the
process can always restart or die.

**Fairness.**  `SchemaVariants`, `Consultations` and `AdminList` assume weak fairness of each
handler (and of each notification): every wait of a handler is a statement under
a context with a deadline, or an HTTP call under a timeout, so it ends and the
goroutine goes on.  Nothing is assumed of clients, migrations, the webhook, the
database's commit or the process.

## 4. Proofs

Each theorem holds for every value of the constants that satisfies the named
`ASSUME`s of the module (`LadderAssumption`, `SchemasAssumption`,
`PayloadsAssumption`, `ClockAssumption`, `NamesAssumption`, `TableAssumption`,
`OperationsAssumption`, `IdsAssumption`, `LayerAssumption`, `TextsAssumption`,
`StoreAssumption`, `OrderAssumption`, `TimeoutsAssumption`; the `Layer!` assumptions are those of `Conditional`): any number of
requests, rungs, schemas, payloads, secrets, clients, writers, buckets and paths, any
configured order, any clock resolution, and any timeouts under which a probe
and a query fit into those of the list and of the server.

* `SchemaVariantsProofs`.  `NeverFailsSpuriously` needs `Walked`: while a request
  walks, no rung it has passed is in `steady[r]`, because a rung leaves `steady`
  exactly when its query fails.  `KeepsFirstAccepted` and `KeepsWarm` need
  `Undisturbed`: while `settled`, the rungs before `index[r]` are refused by the
  schema for every walking request whose context is alive, and an entry is the
  first accepted rung; a request with a dead context fails at every rung and so
  never stores.  `NeverCircles` is the safety half of `Terminates`: a measure of at
  most `N + 4`, `Left`, goes down at each step of a request and is never put up by
  anything around it.
* `WorkPostsProofs`.  `StaysTruthful` adds that an answer about to be stored is
  what a probe would find; `NeverSendsRejected` adds that tables and columns are
  never dropped, so that an answer once true in the positive stays true: every
  table and column named by the memo or a local is there.
* `ConsultationsProofs`.  `KeepsPromises` is the refinement: the invariant relates
  a handler's place to its statement, its row and its reply (a `201` is behind a
  committed statement, a refusal before any statement), and each step is a step
  of `Inbox` or a stutter.  `NotifiesConfirmed` is part of the same books, and so is
  `AlertsTellTruth`: a notification is put together after the row was returned,
  from the checked body, and what it says of each text is what the row has
  (`NoticeIsRow`, `AlwaysChecked`), while a handler that has started one can only
  confirm.  `StoresClean` adds `Checked`: a statement is behind the checks
  of its own body, and a row is what that body comes to.  `SubmissionsAdvance` is
  the safety half of `Settles`; it needs from the books that no notification is
  out before its handler has seen the id, so that it is started once.
* `AdminAuthProofs`.  The arithmetic lemmas (`SecondBounds`, `EarlierSecond`,
  `LateSecond`) relate a time and its second; the invariant is that a minted
  token's expiry is the second of its issue plus its session, and that the
  gate's verdict was right when it was given (`gateAt`).
* `AdminCRUDProofs`.  The invariant is `TypeOK` with `Books`, which relates a
  handler's place to its statement (`Placed`), its reply to what the statement
  returned (`Answered`), and the statement to the checks before it and to the ids
  drawn so far (`Executed`).  `KeepsPromises` is the refinement: a statement that
  is executed is the one step at which the request acts, a reply other than 500
  is `Answer` or `Refuse`, everything else stutters.  `EditsMerge`,
  `DeletedStaysGone` and `CreatesStayFilled` rest on `RowsAfter`, what each
  statement leaves of the rows, and on ids never being drawn twice.  For the list
  the invariant is `ListInv`: a first query is sent by the deadline of the probe,
  ends by its own and is not yet a repetition (`Timely`), from which
  `TimeoutsAssumption` gives `FirstAnswersHeard`; the columns a handler or the
  cache knows are columns of the table, since columns stay (`Known`), so
  `ResolvedAccepted`; until the table changes they are all of them, and nothing is
  repeated without a fault (`Complete`), so `ListsInOrder`.  `ListsAdvance` is the
  safety half of `ListEnds`: each step is one less to take, of five, and time
  passes between them only up to the deadline.
* `AboutPollingProofs`.  `WritersStayOwned` and `ShowsComputed` rest on the books
  of the wire (`WireInv`): a request that writes has a writer, which is not in
  the pool and is aimed at that request's buffer; a buffer that is written holds
  the body.  `QuietPollsShowTables` adds that a missing table has no rows (`Tabled`), that on the schema the process started with the
  memo is right (`Truthful`), that a handler which is not at work has nothing in
  hand (`Fresh`), and that a quiet poll has so far collected what the tables hold,
  up to the one it is at (`QuietBooks`).  The first page is the least of the ids;
  `LeastNumber` says there is one.
* `TuningColumnsProofs`.  `NormalizeIsMeant` is about the data alone: the branches
  of `normalizeTuningPayload` pick what the payload means.  `WritesAreRead` adds
  `MemoTruthful` and `CleanKnows`: a request in flight is clean exactly while its
  process runs on the schema it started with, and what a clean request has looked
  up is true, also once its statement has outlived the process.
  `WritesKeepImages` needs that the cell is what was last written, until the
  column is converted, and from then on what the script makes of it (`Converted`);
  `ConvertShows` compares the two, and the check keeps out what it could not.
* `ObjectStoreProofs`.  `ConfirmationsStand` needs that a reply is behind the
  store's confirmation (`ConfirmedInv`), that while a request is alone none of its
  rivals has a call on the way (`AloneInv`), and so that what its call did is not
  undone (`DoneInv`).  `ListingsShowStore` follows each entry from the moment it is
  read (`TrueEntry`), because what has been seen is only added to.  `TypeCorrect`
  rests on the same books and on what the key of an upload is made of.
  `UploadsContained` and `UploadsAddressable` look into the paths: an object a
  request wrote has that request's key, and the request is an upload that passed
  its checks (`WrittenInv`).  The rest is about texts: a number in a bounded set
  can be picked (`LeastIs`, `GreatestIs`), trimming leaves nothing to trim at the ends
  and a bare text as it is (`TrimBare`), and the parts of a path are each trimmed and
  not empty (`PartsType`).  `Parts` is a function defined by recursion along the
  path; that it exists (`GatherExists`) and what holds of it are shown of the least
  place where it would fail.  A key is then a clean folder and a name
  without dots at its ends (`FolderClean`, `FilenameSafe`, `UploadKey`), and
  `PartsOfClean` says that a clean path stays as it is, from which `CleanedOnce`
  too.

**Only model-checked**: `Terminates`, `Settles` and `ListEnds`, which are liveness
under fairness and out of the prover's reach: that a handler in flight always *can*
take a step is `ENABLED`.  `NeverCircles`,
`SubmissionsAdvance` and `ListsAdvance` prove the rest of each, that it cannot take
steps for ever.  Every other
property of a passing run is a theorem.  The violations of section 5 are TLC's
counterexamples.

## 5. Where documents and code part

1. *Ladder* (`schema_variants_static`).  `schema.go:171` promises the first query
   "that the live schema accepts".  Any error counts as a refusal, so one lost
   round trip on rung 1 stores rung 2 (`schema.go:192`) and serves it to every
   later request, on a schema that never changed.  `FirstAccepted` is what
   remains true: without such a fault since the start, it is the first rung.
2. *Work posts* (`work_posts_stale`).  `schema.sql:314` says the backend first
   tries `work_post`; a memoised answer from before the table existed is never
   given up (`schema.go:27`).
3. *Me* (`admin_auth_me`).  `POSTMAN_AUTH.md:80-98` answers a bearer token with
   `auth_type: bearer`; one that expires between the two verifications
   (`admin_auth.go:130`) is reported as a static token.

Three more remarks, on behaviour that no document denies.  `ListBucketFiles` drops
the error of reading its answer (`supabase.go:140`): one that breaks off before
its first byte is an empty bucket under `200`, so `ListingsTrue` promises only
that what is shown was there.  `schema.sql:91` says its block "safely
creates/converts full_image_url to JSONB array"; `PUT` and `PATCH` store any JSON
value (`admin_crud.go:754-761`), and one that is no array is not converted safely.
In a TEXT column it comes out wrapped as an address: `null`, which shows nothing
before, is `["null"]` after.  `ImagesKept` says that this happens to such values and
to nothing else.  In a JSONB column it makes the check at `schema.sql:137` fail, as
a TEXT cell that only begins like an array makes the cast at line 114 fail, and
with it the whole script, which changes nothing then; `Convertible` has that.
`SanitizeFilename` trims the spaces of a name before its dots (`supabase.go:216`),
so `. a` is stored as ` a` and `. .` as a single space; the delete route trims the
parts of its path, and so deletes `a` or refuses.  `Addressable` says exactly when
the reported path works; its proof is what showed that a name may be nothing
but a space, and the run has that upload since.

## 6. Plan

The components are modelled, but for what section 7 names, and the safety
properties the runs check are proved.  What is left within the prover's reach are
facts the code relies on that no run states: that `/work_post`, `/about` and the
file routes, too, answer after a bounded number of round trips.

## 7. Not modelled

The simple public reads (partners, accessories, portfolio, privacy,
contact: one query each, translated row by row, with nothing kept; of banners, whose
query goes through the ladder, the translation of the rows) and the public list of
consultations (one read-only statement); routing, health, root, CORS and logging of requests; `PerformedWorks`,
`UniqueNonEmpty` and the other pure decoders but `StringArray`; the edit of an id
by the CRUD routes other than as an edit of `about_page`; environment parsing and the DSN;
the three start-up pings; logging; the wording of messages; HTML escaping and
other details of JSON encoding.  The database, the pooler, the webhook and
`net/http` are modelled only as far as the code relies on them.
