----------------------------- MODULE Conditional -----------------------------
(***************************************************************************)
(* The response middleware (Response and matchesETag in                    *)
(* src/internal/httpmw/middleware.go) between a handler and clients that   *)
(* poll it: the ETag of what the handler wrote, 304 to a client that has   *)
(* it, and compression by writers taken from a pool.                       *)
(*                                                                         *)
(* A client keeps the last representation it was sent and may name it in   *)
(* If-None-Match; that and whether it takes gzip is chosen where the       *)
(* middleware looks at it, as the copy stays the same until then.  The     *)
(* handler is whatever writes a body; AboutPolling puts one in its place.  *)
(* ETags are 16 bytes of SHA-256: two bodies with one ETag are taken to be *)
(* the same body.                                                          *)
(***************************************************************************)
CONSTANTS
    Clients,    \* each with at most one request in flight
    Bodies,     \* what a handler may write
    NoBody,     \* nothing written, nothing kept
    Large,      \* the bodies of at least gzipMinBytes
    Writers,    \* the gzip writers the pool may ever make
    NoWriter,
    Discard     \* io.Discard

\* What a module that instantiates this one has to assume.
BodiesAssumption  == NoBody \notin Bodies /\ Large \subseteq Bodies
WritersAssumption == NoWriter \notin Writers /\ Discard \notin Clients

VARIABLES
    at,         \* where each client's request is in the middleware
    status,     \* rec.status
    body,       \* rec.buf
    writer,     \* gz
    buffer,     \* compressed, before encoding
    pool,       \* the idle writers of gzipWriterPool
    target,     \* the request whose buffer a writer in use writes to
    copy        \* what the client shows

layerVars == <<at, status, body, writer, buffer, pool, target, copy>>

Init ==
    /\ at = [c \in Clients |-> "idle"]
    /\ status = [c \in Clients |-> 200]
    /\ body = [c \in Clients |-> NoBody]
    /\ writer = [c \in Clients |-> NoWriter]
    /\ buffer = [c \in Clients |-> NoBody]
    /\ pool = Writers
    /\ target = [w \in Writers |-> Discard]
    /\ copy = [c \in Clients |-> NoBody]

Move(c, place) == at' = [at EXCEPT ![c] = place]

Ask(c) ==
    /\ at[c] = "idle"
    /\ Move(c, "handler")
    /\ UNCHANGED <<status, body, writer, buffer, pool, target, copy>>

\* next.ServeHTTP returns with s and b in the recorder.
Handled(c, s, b) ==
    /\ at[c] = "handler"
    /\ Move(c, "buffered")
    /\ status' = [status EXCEPT ![c] = s]
    /\ body' = [body EXCEPT ![c] = b]
    /\ UNCHANGED <<writer, buffer, pool, target, copy>>

\* The recorder and its buffers go with the request; the client is left with b.
Close(c, b) ==
    /\ Move(c, "idle")
    /\ status' = [status EXCEPT ![c] = 200]
    /\ body' = [body EXCEPT ![c] = NoBody]
    /\ buffer' = [buffer EXCEPT ![c] = NoBody]
    /\ copy' = [copy EXCEPT ![c] = b]
    /\ UNCHANGED <<writer, pool, target>>

HasETag(c) == status[c] = 200 /\ body[c] # NoBody

\* Mutant: whoever names a copy has the representation.
MatchesETagAny(c) == copy[c] # NoBody

\* matchesETag, for a client that names its copy (a W/ makes no difference).
MatchesETag(c) == copy[c] = body[c]

\* If-None-Match names the client's copy.
NotModified(c) ==
    /\ at[c] = "buffered"
    /\ HasETag(c) /\ MatchesETag(c)
    /\ Close(c, copy[c])

\* If-None-Match is "*": whatever there is, is covered.
NotModifiedAny(c) ==
    /\ at[c] = "buffered"
    /\ HasETag(c)
    /\ Close(c, copy[c])

\* Mutant: the writer is back in the pool before it has written.
CompressReleasing(c) ==
    /\ at[c] = "buffered"
    /\ body[c] \in Large
    /\ \E w \in pool :
         /\ writer' = [writer EXCEPT ![c] = w]
         /\ target' = [target EXCEPT ![w] = c]
    /\ Move(c, "writing")
    /\ UNCHANGED <<status, body, buffer, pool, copy>>

\* The client takes gzip: Get and Reset.
Compress(c) ==
    /\ at[c] = "buffered"
    /\ body[c] \in Large
    /\ \E w \in pool :
         /\ pool' = pool \ {w}
         /\ writer' = [writer EXCEPT ![c] = w]
         /\ target' = [target EXCEPT ![w] = c]
    /\ Move(c, "writing")
    /\ UNCHANGED <<status, body, buffer, copy>>

\* Write, Close and Put.  What a pooled writer last wrote to is of no account.
WriteBody(c) ==
    /\ at[c] = "writing"
    /\ buffer' = [buffer EXCEPT ![target[writer[c]]] = body[c]]
    /\ pool' = pool \cup {writer[c]}
    /\ target' = [target EXCEPT ![writer[c]] = Discard]
    /\ writer' = [writer EXCEPT ![c] = NoWriter]
    /\ Move(c, "compressed")
    /\ UNCHANGED <<status, body, copy>>

\* What the client decodes: the compressed form if it is adopted.
Payload(c) == {body[c]} \cup {b \in {buffer[c]} : at[c] = "compressed"}

\* The reply reaches the client, who keeps what a 200 carries.
Send(c) ==
    /\ at[c] \in {"buffered", "compressed"}
    /\ \E b \in Payload(c) : Close(c, IF status[c] = 200 THEN b ELSE copy[c])

\* It does not: the client is gone, or the server's WriteTimeout has passed.
Unheard(c) ==
    /\ at[c] \in {"buffered", "compressed"}
    /\ Close(c, copy[c])

Middleware(c) ==
    \/ NotModified(c) \/ NotModifiedAny(c)
    \/ Compress(c) \/ WriteBody(c)
    \/ Send(c) \/ Unheard(c)

Next ==
    \E c \in Clients :
        \/ Ask(c)
        \/ \E b \in Bodies : Handled(c, 200, b)
        \/ Handled(c, 500, NoBody)
        \/ Middleware(c)

Spec == Init /\ [][Next]_layerVars

-----------------------------------------------------------------------------
\* Properties.

\* The shape of the state.
LayerTypeOK ==
    /\ at \in [Clients -> {"idle", "handler", "buffered", "writing", "compressed"}]
    /\ status \in [Clients -> {200, 500}]
    /\ body \in [Clients -> Bodies \cup {NoBody}]
    /\ writer \in [Clients -> Writers \cup {NoWriter}]
    /\ buffer \in [Clients -> Bodies \cup {NoBody}]
    /\ pool \subseteq Writers
    /\ target \in [Writers -> Clients \cup {Discard}]
    /\ copy \in [Clients -> Bodies \cup {NoBody}]

\* A pooled writer has no user, and no two requests use one.
WritersOwned ==
    \A c \in Clients : writer[c] # NoWriter =>
        /\ writer[c] \notin pool
        /\ \A d \in Clients \ {c} : writer[d] # writer[c]

\* A request that is answered 200 or 304 leaves the client showing what the
\* handler computed for this very request: 304 only to one that had it, and,
\* whichever writer compressed it, never the body of another.  One that says "*"
\* learns only that there is something.
ShownIsComputed ==
    [][\A c \in Clients :
         status[c] = 200 /\ (NotModified(c) \/ Send(c)) => copy'[c] = body[c]]_layerVars
=============================================================================
