----------------------------- MODULE ObjectStore -----------------------------
(***************************************************************************)
(* The file routes of the administrators                                   *)
(* (src/internal/handlers/admin_storage.go) over the object store they     *)
(* call (src/internal/storage/supabase.go).                                *)
(*                                                                         *)
(* A handler checks its request and sends one HTTP call to the store; the  *)
(* listing of all buckets sends one after another, under one deadline.  A  *)
(* call whose handler has given up or died may still reach the store.  Of  *)
(* an object only the request that wrote it is kept, of a listing one page *)
(* that has room for everything.                                           *)
(***************************************************************************)
EXTENDS Naturals, Sequences, StoragePaths

CONSTANTS
    Requests,       \* the requests administrators make; a retry is another
    Operations,     \* what they may ask for
    Buckets,        \* the names of the store's buckets, sorted
    DefaultBucket,  \* STORAGE_BUCKET
    BadBuckets,     \* names with a separator or ".."
    Unset,          \* no bucket, or a blank one
    Symbols,        \* what texts are made of
    Seeds,          \* the objects there are at the start
    Seed            \* what they hold

Names == {Buckets[i] : i \in DOMAIN Buckets}
Kinds == {"upload", "delete", "list"}
Text  == Seq(Symbols)
Path  == Seq(Text)
Key   == [bucket : Names, path : Seq(Seq(Symbols \cup Requests))]

ASSUME StoreAssumption ==
    /\ Buckets \in Seq(Names) /\ DefaultBucket \in Names
    /\ Unset \notin Names \cup BadBuckets
    /\ Names \cap BadBuckets = {}
    /\ Seeds \subseteq Key
    /\ Seed \notin Requests
    /\ Space \notin Requests /\ Dot \notin Requests

\* path is the folder of an upload, the path of a delete and the prefix of a
\* listing; name is the file name of an upload, upsert its flag; all asks for
\* the listing of all buckets.
ASSUME OperationsAssumption ==
    \A o \in Operations :
        /\ o.kind \in Kinds
        /\ o.bucket \in {Unset} \cup Names \cup BadBuckets
        /\ o.path \in Path \ {<<>>} /\ o.name \in Path \ {<<>>}
        /\ o.all \in BOOLEAN /\ (o.all => o.kind = "list")

VARIABLES
    configured, \* SUPABASE_URL and SUPABASE_SERVICE_ROLE_KEY are set
    op,         \* what each request asks for
    pc,         \* where its handler is
    reply,      \* the status of its reply, 0 before there is one
    call,       \* its upload or delete on the way to the store, and its outcome
    expired,    \* the context of its listing has ended
    entries,    \* its listing so far, bucket by bucket
    objects,    \* the store: who wrote each object
    alone,      \* history: no other call on its key since its own was sent
    seen        \* history: what the store has held since its listing began

vars == <<configured, op, pc, reply, call, expired, entries, objects, alone, seen>>

Init ==
    /\ configured \in BOOLEAN
    /\ op \in [Requests -> Operations]
    /\ pc = [r \in Requests |-> "unsent"]
    /\ reply = [r \in Requests |-> 0]
    /\ call = [r \in Requests |-> "none"]
    /\ expired = [r \in Requests |-> FALSE]
    /\ entries = [r \in Requests |-> <<>>]
    /\ objects = [k \in Seeds |-> Seed]
    /\ alone = [r \in Requests |-> TRUE]
    /\ seen = [r \in Requests |-> {}]

-----------------------------------------------------------------------------
\* What the handlers make of a request.

Bucket(o) == IF o.bucket = Unset THEN DefaultBucket ELSE o.bucket

\* upload_<nanoseconds>.bin is a name no other request makes.
Filename(r) ==
    IF SanitizeFilename(op[r].name) = <<>> THEN <<r>> ELSE SanitizeFilename(op[r].name)

KeyOf(r) ==
    [bucket |-> Bucket(op[r]),
     path   |-> IF op[r].kind = "upload"
                THEN Append(CleanOptionalPath(op[r].path), Filename(r))
                ELSE CleanPath(op[r].path)]

Upsert(o) == o.upsert \in {"", "1", "true", "yes"}

\* The buckets a listing covers, in the order it reads them.
Targets(o) == IF o.all THEN Buckets ELSE <<Bucket(o)>>

\* The listing of all buckets does not look at the bucket.
BadRequest(o) ==
    \/ ~o.all /\ Bucket(o) \in BadBuckets
    \/ IF o.kind = "delete" THEN CleanPathFails(o.path) ELSE CleanOptionalPathFails(o.path)

-----------------------------------------------------------------------------
\* The handlers.

Respond(r, status) ==
    /\ pc' = [pc EXCEPT ![r] = "done"]
    /\ reply' = [reply EXCEPT ![r] = status]
    /\ UNCHANGED <<configured, op, call, expired, entries, objects, alone, seen>>

Receive(r) ==
    /\ pc[r] = "unsent"
    /\ pc' = [pc EXCEPT ![r] = "received"]
    /\ UNCHANGED <<configured, op, reply, call, expired, entries, objects, alone, seen>>

Unauthorized(r) == pc[r] = "received" /\ Respond(r, 401)

WrongMethod(r) == pc[r] = "received" /\ Respond(r, 405)

NotConfigured(r) == pc[r] = "received" /\ ~configured /\ Respond(r, 500)

\* No form, no file in it, or one too large; no numbers for the page.
Malformed(r) ==
    /\ pc[r] = "received"
    /\ configured
    /\ op[r].kind \in {"upload", "list"}
    /\ Respond(r, 400)

Reject(r) ==
    /\ pc[r] = "received"
    /\ configured
    /\ BadRequest(op[r])
    /\ Respond(r, 400)

\* No request to the store can be made of what is configured.
NotBuilt(r) ==
    /\ pc[r] = "received"
    /\ configured
    /\ op[r].kind # "list" /\ ~BadRequest(op[r])
    /\ Respond(r, 500)

\* Requests whose upload or delete is for the same object.
Rivals(r) == {s \in Requests \ {r} : op[s].kind # "list" /\ ~BadRequest(op[s]) /\ KeyOf(s) = KeyOf(r)}

\* An upload or a delete is sent to the store.
Send(r) ==
    /\ pc[r] = "received"
    /\ configured
    /\ op[r].kind # "list" /\ ~BadRequest(op[r])
    /\ pc' = [pc EXCEPT ![r] = "waiting"]
    /\ call' = [call EXCEPT ![r] = "sent"]
    /\ alone' = [s \in Requests |->
         IF s = r THEN \A q \in Rivals(r) : call[q] # "sent"
                  ELSE alone[s] /\ s \notin Rivals(r)]
    /\ UNCHANGED <<configured, op, reply, expired, entries, objects, seen>>

\* Mutant: the status of the store's answer is not looked at.
AnsweredUnread(r) ==
    /\ pc[r] = "waiting"
    /\ call[r] \in {"done", "refused"}
    /\ Respond(r, IF op[r].kind = "upload" THEN 201 ELSE 200)

\* Mutant: an upload is answered like a delete.
AnsweredAlike(r) ==
    /\ pc[r] = "waiting"
    /\ call[r] \in {"done", "refused"}
    /\ Respond(r, IF call[r] = "refused" THEN 502 ELSE 200)

\* The store's answer arrives.
Answered(r) ==
    /\ pc[r] = "waiting"
    /\ call[r] \in {"done", "refused"}
    /\ Respond(r, IF call[r] = "refused" THEN 502
                  ELSE IF op[r].kind = "upload" THEN 201 ELSE 200)

\* None arrives: the deadline passes, the client leaves or the connection
\* breaks, whatever becomes of the call.
GiveUp(r) == pc[r] = "waiting" /\ Respond(r, 502)

\* A listing begins; that of all buckets asks for their names first.
BeginListing(r) ==
    /\ pc[r] = "received"
    /\ configured
    /\ op[r].kind = "list" /\ ~BadRequest(op[r])
    /\ pc' = [pc EXCEPT ![r] = IF op[r].all THEN "buckets" ELSE "listing"]
    /\ seen' = [seen EXCEPT ![r] = {DOMAIN objects}]
    /\ UNCHANGED <<configured, op, reply, call, expired, entries, objects, alone>>

ListBuckets(r) ==
    /\ pc[r] = "buckets"
    /\ ~expired[r]
    /\ pc' = [pc EXCEPT ![r] = "listing"]
    /\ UNCHANGED <<configured, op, reply, call, expired, entries, objects, alone, seen>>

NoBuckets(r) == pc[r] = "buckets" /\ Respond(r, 502)

Pending(r) == pc[r] = "listing" /\ Len(entries[r]) < Len(Targets(op[r]))

Enter(r, entry) ==
    /\ entries' = [entries EXCEPT ![r] = Append(@, entry)]
    /\ UNCHANGED <<configured, op, pc, reply, call, expired, objects, alone, seen>>

\* The objects of a bucket under a prefix.
Under(keys, bucket, prefix) ==
    {k \in keys : k.bucket = bucket /\ SubSeq(k.path, 1, Len(prefix)) = prefix}

\* Mutant: each bucket is read under a deadline of its own.
ListBucketFilesAnytime(r) ==
    /\ Pending(r)
    /\ Enter(r, [ok   |-> TRUE,
                 keys |-> Under(DOMAIN objects, Targets(op[r])[Len(entries[r]) + 1],
                                CleanOptionalPath(op[r].path))])

\* The next bucket is read.
ListBucketFiles(r) ==
    /\ Pending(r)
    /\ ~expired[r]
    /\ Enter(r, [ok   |-> TRUE,
                 keys |-> Under(DOMAIN objects, Targets(op[r])[Len(entries[r]) + 1],
                                CleanOptionalPath(op[r].path))])

\* The answer breaks off before its first byte: that is not told from an answer
\* without a byte, which is taken for an empty bucket.
LoseBody(r) ==
    /\ Pending(r)
    /\ ~expired[r]
    /\ Enter(r, [ok |-> TRUE, keys |-> {}])

\* It is not: an error entry among all buckets, the end of a listing of one.
NoFiles(r) ==
    /\ Pending(r)
    /\ IF op[r].all THEN Enter(r, [ok |-> FALSE, keys |-> {}]) ELSE Respond(r, 502)

EndListing(r) == pc[r] = "listing" /\ ~Pending(r) /\ Respond(r, 200)

Handler(r) ==
    \/ Unauthorized(r) \/ WrongMethod(r) \/ NotConfigured(r) \/ Malformed(r) \/ Reject(r)
    \/ NotBuilt(r) \/ Send(r) \/ Answered(r) \/ GiveUp(r)
    \/ BeginListing(r) \/ ListBuckets(r) \/ NoBuckets(r)
    \/ ListBucketFiles(r) \/ LoseBody(r) \/ NoFiles(r) \/ EndListing(r)

\* The ten seconds of a listing pass, or its client leaves.
Expire(r) ==
    /\ pc[r] \in {"buckets", "listing"}
    /\ ~expired[r]
    /\ expired' = [expired EXCEPT ![r] = TRUE]
    /\ UNCHANGED <<configured, op, pc, reply, call, entries, objects, alone, seen>>

-----------------------------------------------------------------------------
\* The store.

Settle(r, outcome, store) ==
    /\ call[r] = "sent"
    /\ call' = [call EXCEPT ![r] = outcome]
    /\ objects' = store
    /\ seen' = [s \in Requests |->
         IF pc[s] \in {"buckets", "listing"} /\ ~expired[s]
         THEN seen[s] \cup {DOMAIN store} ELSE seen[s]]
    /\ UNCHANGED <<configured, op, pc, reply, expired, entries, alone>>

\* Without x-upsert an object that exists is kept.
Store(r) ==
    /\ op[r].kind = "upload"
    /\ Upsert(op[r]) \/ KeyOf(r) \notin DOMAIN objects
    /\ Settle(r, "done", [k \in DOMAIN objects \cup {KeyOf(r)} |->
                            IF k = KeyOf(r) THEN r ELSE objects[k]])

Remove(r) ==
    /\ op[r].kind = "delete"
    /\ Settle(r, "done", [k \in DOMAIN objects \ {KeyOf(r)} |-> objects[k]])

\* The store refuses, or the call is lost on its way.
Refuse(r) == Settle(r, "refused", objects)

External(r) == Store(r) \/ Remove(r) \/ Refuse(r)

\* The process dies, with its handlers, and is started again.
Crash ==
    /\ pc' = [r \in Requests |->
         IF pc[r] \in {"unsent", "done"} THEN pc[r] ELSE "cut"]
    /\ UNCHANGED <<configured, op, reply, call, expired, entries, objects, alone, seen>>

Next ==
    \/ \E r \in Requests : Receive(r) \/ Handler(r) \/ Expire(r) \/ External(r)
    \/ Crash

Spec == Init /\ [][Next]_vars

-----------------------------------------------------------------------------
\* Properties.

Statuses(kind) ==
    CASE kind = "upload" -> {0, 201, 400, 401, 405, 500, 502}
      [] OTHER           -> {0, 200, 400, 401, 405, 500, 502}

\* The shape of the state; each route has its own statuses.
TypeOK ==
    /\ configured \in BOOLEAN
    /\ op \in [Requests -> Operations]
    /\ pc \in [Requests -> {"unsent", "received", "waiting", "buckets", "listing", "done", "cut"}]
    /\ reply \in [Requests -> {0, 200, 201, 400, 401, 405, 500, 502}]
    /\ \A r \in Requests : reply[r] \in Statuses(op[r].kind)
    /\ call \in [Requests -> {"none", "sent", "done", "refused"}]
    /\ expired \in [Requests -> BOOLEAN]
    /\ entries \in [Requests -> Seq([ok : BOOLEAN, keys : SUBSET Key])]
    /\ \A r \in Requests : Len(entries[r]) <= Len(Targets(op[r]))
    /\ DOMAIN objects \subseteq Key
    /\ objects \in [DOMAIN objects -> Requests \cup {Seed}]
    /\ alone \in [Requests -> BOOLEAN]
    /\ seen \in [Requests -> SUBSET SUBSET Key]

\* What was confirmed stands: an upload answered 201 is the object, and after a
\* delete answered 200 there is none, as long as no other call on that object was
\* on its way when this one was sent, nor was sent since.  One that was on its
\* way, for instance an upload answered 502 and tried again, may still land.
ConfirmedStands ==
    \A r \in Requests : alone[r] =>
        /\ reply[r] = 201 => KeyOf(r) \in DOMAIN objects /\ objects[KeyOf(r)] = r
        /\ reply[r] = 200 /\ op[r].kind = "delete" => KeyOf(r) \notin DOMAIN objects

Uploaded(k, r) == k \in DOMAIN objects /\ objects[k] = r

\* An upload stays where it belongs: directly in the folder it asked for, in the
\* bucket it asked for, with no part of the path empty or leading elsewhere.
Contained ==
    \A r \in Requests, k \in DOMAIN objects : Uploaded(k, r) =>
        /\ k.bucket = Bucket(op[r])
        /\ \E name \in {k.path[Len(k.path)]} :
             k.path = Append(CleanOptionalPath(op[r].path), name)
        /\ \A i \in DOMAIN k.path : k.path[i] \notin Traversal \cup {<<>>}

Edged(text) == text # <<>> /\ Space \in {text[1], text[Len(text)]}

\* What was uploaded can be deleted by the path the upload reported, because that
\* path is clean; except that dots around a file name may have hidden a space, and
\* then a delete by that path is refused or is for another object.
Addressable ==
    \A r \in Requests, k \in DOMAIN objects : Uploaded(k, r) =>
        (~CleanPathFails(k.path) /\ CleanPath(k.path) = k.path
           <=> ~Edged(k.path[Len(k.path)]))

\* A listing that is answered 200 has an entry for every bucket; each is what
\* that bucket held under the prefix at some moment before the deadline, or, among
\* all buckets, an error.  What it shows was there, then; but an empty entry may be
\* an answer that was lost.
ListingsTrue ==
    \A r \in Requests : op[r].kind = "list" /\ reply[r] = 200 =>
        /\ Len(entries[r]) = Len(Targets(op[r]))
        /\ \A i \in DOMAIN entries[r] :
             \/ \E keys \in seen[r] :
                  entries[r][i] = [ok   |-> TRUE,
                                   keys |-> Under(keys, Targets(op[r])[i],
                                                  CleanOptionalPath(op[r].path))]
             \/ entries[r][i] = [ok |-> TRUE, keys |-> {}]
             \/ op[r].all /\ ~entries[r][i].ok
=============================================================================
