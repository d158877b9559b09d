----------------------------- MODULE AboutPolling -----------------------------
(***************************************************************************)
(* Clients that poll GET /about: the handler (AboutPage) inside the        *)
(* response middleware (Conditional), as main.go wraps the routes.         *)
(***************************************************************************)
EXTENDS AboutPage

CONSTANTS NoBody, Large, Writers, NoWriter, Discard

VARIABLES at, status, body, writer, buffer, pool, target, copy

Layer == INSTANCE Conditional WITH Clients <- Requests, Bodies <- Responses

ASSUME LayerAssumption == Layer!BodiesAssumption /\ Layer!WritersAssumption

wireVars == <<at, status, body, writer, buffer, pool, target, copy>>
vars     == <<aboutVars, wireVars>>

Init == AboutInit /\ Layer!Init

Poll(r) == Begin(r) /\ Layer!Ask(r)

Handle(r) == Compute(r) /\ UNCHANGED wireVars

\* The handler has written its response into the recorder.
Reply(r) ==
    /\ Finish(r)
    /\ IF pc[r] = "done"
         THEN Layer!Handled(r, 200, Response(page[r], found[r]))
         ELSE Layer!Handled(r, 500, NoBody)

Deliver(r) == Layer!Middleware(r) /\ UNCHANGED aboutVars

Next ==
    \/ \E r \in Requests : Poll(r) \/ Handle(r) \/ Reply(r) \/ Deliver(r)
    \/ Outside /\ UNCHANGED wireVars

Spec == Init /\ [][Next]_vars

-----------------------------------------------------------------------------
\* Properties.

\* The shape of the state, with the foreign keys.
TypeOK ==
    /\ tables \subseteq Tables
    /\ pages \subseteq Ids
    /\ rows \in [Children -> SUBSET pages]
    /\ edits \in 0..MaxEdits
    /\ memo \in [Tables -> {"unknown", "yes", "no"}]
    /\ pc \in [Requests -> {"idle", "load", "probe", "store", "read", "done", "failed"}]
    /\ step \in [Requests -> 1..3]
    /\ answer \in [Requests -> {"yes", "no"}]
    /\ page \in [Requests -> Ids \cup {NoPage}]
    /\ found \in [Requests -> SUBSET Children]
    /\ quiet \in [Requests -> BOOLEAN]
    /\ migrated \in BOOLEAN
    /\ Layer!LayerTypeOK

\* A poll during which nothing changed, on the schema the process started with,
\* leaves the client showing what the tables hold, whether it is answered 200 or
\* 304, compressed or not: the three reads and the client's copy are one snapshot.
QuietPollShowsTables ==
    [][\A r \in Requests :
         /\ quiet[r] /\ ~migrated
         /\ status[r] = 200
         /\ Layer!NotModified(r) \/ Layer!Send(r)
         => copy'[r] = Snapshot]_vars

ShownIsComputed == Layer!ShownIsComputed
WritersOwned    == Layer!WritersOwned
=============================================================================
