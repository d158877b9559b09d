-------------------------- MODULE AboutPollingProofs --------------------------
(***************************************************************************)
(* What holds of GET /about behind the response middleware for any number  *)
(* of clients and gzip writers, any pages and any edits.                   *)
(***************************************************************************)
EXTENDS AboutPolling, TLAPS, WellFoundedInduction

-----------------------------------------------------------------------------
\* The shape of the state.

\* The handler's part of it.
PageTypeOK ==
    /\ tables \subseteq Tables
    /\ pages \subseteq Ids
    /\ rows \in [Children -> SUBSET pages]
    /\ edits \in 0..MaxEdits
    /\ memo \in [Tables -> {"unknown", "yes", "no"}]
    /\ pc \in [Requests -> {"idle", "load", "probe", "store", "read", "done", "failed"}]
    /\ step \in [Requests -> 1..3]
    /\ answer \in [Requests -> {"yes", "no"}]
    /\ page \in [Requests -> Ids \cup {NoPage}]
    /\ found \in [Requests -> SUBSET Children]
    /\ quiet \in [Requests -> BOOLEAN]
    /\ migrated \in BOOLEAN

LEMMA TypeParts == TypeOK <=> PageTypeOK /\ Layer!LayerTypeOK
  BY DEF TypeOK, PageTypeOK

\* The handler goes through the three tables.
LEMMA OrderType ==
    /\ \A n \in 1..3 : Order[n] \in Tables
    /\ \A n \in 1..3 : n # 1 => Order[n] \in Children
    /\ Order[1] = "about_page" /\ "about_page" \notin Children
    /\ \A t \in Children : \E n \in 2..3 : t = Order[n]
  BY DEF Order, Tables, Children

\* A set of numbers has a least one.
LEMMA LeastNumber == ASSUME NEW S \in SUBSET Nat, S # {}
                     PROVE  \E i \in S : \A j \in S : i <= j
<1> DEFINE R == OpToRel(<, Nat)
<1>1. IsWellFoundedOn(R, Nat)
  BY NatLessThanWellFounded
<1>2. \A i \in Nat, j \in Nat : j < i => <<j, i>> \in R
  BY Zenon DEF OpToRel
<1> HIDE DEF R
<1>3. PICK i \in S : \A j \in S : <<j, i>> \notin R
  BY <1>1, WFMin, Zenon
<1>4. \A j \in S : ~ (j < i)
  BY <1>2, <1>3
<1> QED
  BY <1>4

\* The first page is one of the pages, if there are any.
LEMMA FirstPageType == ASSUME pages \subseteq Ids
                       PROVE  FirstPage \in pages \cup {NoPage}
<1>1. CASE pages = {}
  BY <1>1 DEF FirstPage
<1>2. CASE pages # {}
  <2>1. \E i \in pages : \A j \in pages : i <= j
    BY <1>2, LeastNumber, IdsAssumption
  <2> QED
    BY <1>2, <2>1 DEF FirstPage
<1> QED
  BY <1>1, <1>2

\* Every step of the handler keeps its part of the state in shape.
LEMMA HandlerType == ASSUME PageTypeOK, NEW r \in Requests,
                            Begin(r) \/ Compute(r) \/ Finish(r)
                     PROVE  PageTypeOK'
<1> USE DEF PageTypeOK, dataVars
<1>1. CASE Begin(r)
  BY <1>1 DEF Begin
<1>2. CASE LoadHit(r)
  BY <1>2 DEF LoadHit, Return, Advance
<1>3. CASE LoadMiss(r)
  BY <1>3 DEF LoadMiss
<1>4. CASE Probe(r)
  BY <1>4 DEF Probe
<1>5. CASE Store(r)
  BY <1>5, OrderType DEF Store, Return, Advance
<1>6. CASE Read(r)
  <2>1. page' \in [Requests -> Ids \cup {NoPage}]
    BY <1>6, FirstPageType DEF Read
  <2>2. found' \in [Requests -> SUBSET Children]
    BY <1>6, OrderType DEF Read
  <2> QED
    BY <1>6, <2>1, <2>2 DEF Read, Advance
<1>7. CASE Fail(r)
  BY <1>7 DEF Fail
<1>8. CASE Finish(r)
  BY <1>8 DEF Finish
<1> QED
  BY <1>1, <1>2, <1>3, <1>4, <1>5, <1>6, <1>7, <1>8 DEF Compute

\* So does every edit, and the script.
LEMMA OutsideType == ASSUME PageTypeOK, Outside
                     PROVE  PageTypeOK'
<1> USE DEF PageTypeOK, localVars
<1>1. ASSUME NEW newPages \in SUBSET Ids, NEW newRows \in [Children -> SUBSET newPages],
             Disturb(newPages, newRows)
      PROVE  PageTypeOK'
  BY <1>1, IdsAssumption DEF Disturb
<1>2. ASSUME NEW i \in Ids, AddPage(i) PROVE PageTypeOK'
  <2>1. rows \in [Children -> SUBSET (pages \cup {i})]
    OBVIOUS
  <2> QED
    BY <1>1, <1>2, <2>1 DEF AddPage
<1>3. ASSUME NEW i \in Ids, DropPage(i) PROVE PageTypeOK'
  BY <1>1, <1>3 DEF DropPage
<1>4. ASSUME NEW i \in Ids, NEW j \in Ids, RenamePage(i, j) PROVE PageTypeOK'
  <2>1. rows \in [Children -> SUBSET ((pages \ {i}) \cup {j})]
    BY <1>4 DEF RenamePage
  <2> QED
    BY <1>1, <1>4, <2>1 DEF RenamePage
<1>5. ASSUME NEW t \in Children, NEW i \in Ids, AddRows(t, i) \/ DropRows(t, i)
      PROVE  PageTypeOK'
  BY <1>1, <1>5 DEF AddRows, DropRows
<1>6. ASSUME NEW t \in Children, NEW i \in Ids, NEW j \in Ids, MoveRows(t, i, j)
      PROVE  PageTypeOK'
  BY <1>1, <1>6 DEF MoveRows
<1>7. CASE Script
  <2>1. rows' \in [Children -> SUBSET pages']
    BY <1>7 DEF Script
  <2>2. pages' \subseteq Ids
    BY <1>7, IdsAssumption DEF Script
  <2>3. edits' \in 0..MaxEdits
    BY <1>7, IdsAssumption DEF Script
  <2>4. migrated' \in BOOLEAN
    BY <1>7 DEF Script
  <2> QED
    BY <1>7, <2>1, <2>2, <2>3, <2>4 DEF Script
<1> QED
  BY <1>2, <1>3, <1>4, <1>5, <1>6, <1>7 DEF Outside, Edit

\* What the handler writes is a response.
LEMMA ResponseType == ASSUME PageTypeOK, NEW r \in Requests
                      PROVE  Response(page[r], found[r]) \in Responses
  BY DEF PageTypeOK, Response, Responses

-----------------------------------------------------------------------------
\* The middleware.

\* A request that compresses has a writer of its own, which writes into its own
\* buffer; one that has compressed has its own body in it.
WireBooks ==
    \A c \in Requests :
        /\ at[c] = "writing" <=> writer[c] # NoWriter
        /\ at[c] = "writing" => writer[c] \notin pool /\ target[writer[c]] = c
        /\ at[c] = "compressed" => buffer[c] = body[c]

WireInv == Layer!LayerTypeOK /\ WireBooks

\* A step of the middleware, on its way to or from the handler c or after it.
WireStep(c) ==
    \/ Layer!Ask(c)
    \/ \E b \in Responses : Layer!Handled(c, 200, b)
    \/ Layer!Handled(c, 500, NoBody)
    \/ Layer!Middleware(c)

\* No two requests have one writer.
LEMMA WiresApart == WireInv => WritersOwned
  BY DEF WireInv, WireBooks, Layer!LayerTypeOK, WritersOwned, Layer!WritersOwned

\* A request that leaves the middleware without a writer disturbs no other.
LEMMA CloseKeeps == ASSUME WireInv, NEW c \in Requests, at[c] # "writing",
                           NEW b \in Responses \cup {NoBody}, Layer!Close(c, b)
                    PROVE  WireInv'
  BY DEF WireInv, WireBooks, Layer!LayerTypeOK, Layer!Close, Layer!Move

LEMMA WireStepKeeps == ASSUME WireInv, NEW c \in Requests, WireStep(c)
                       PROVE  WireInv'
<1> USE DEF WireInv, WireBooks, Layer!LayerTypeOK, Layer!Move
<1>1. CASE Layer!Ask(c)
  BY <1>1 DEF Layer!Ask
<1>2. CASE \/ \E b \in Responses : Layer!Handled(c, 200, b)
           \/ Layer!Handled(c, 500, NoBody)
  BY <1>2 DEF Layer!Handled
<1>3. CASE Layer!NotModified(c) \/ Layer!NotModifiedAny(c) \/ Layer!Unheard(c)
  <2>1. Layer!Close(c, copy[c]) /\ at[c] # "writing"
    BY <1>3 DEF Layer!NotModified, Layer!NotModifiedAny, Layer!Unheard
  <2> QED
    BY <2>1, CloseKeeps
<1>4. CASE Layer!Compress(c)
  <2>1. PICK w \in pool : /\ pool' = pool \ {w}
                          /\ writer' = [writer EXCEPT ![c] = w]
                          /\ target' = [target EXCEPT ![w] = c]
    BY <1>4 DEF Layer!Compress
  <2>2. w \in Writers /\ w # NoWriter
    BY LayerAssumption DEF Layer!WritersAssumption
  <2>3. Layer!LayerTypeOK'
    BY <1>4, <2>1, <2>2 DEF Layer!Compress
  <2>4. WireBooks'
    BY <1>4, <2>1, <2>2 DEF Layer!Compress
  <2> QED
    BY <2>3, <2>4
<1>5. CASE Layer!WriteBody(c)
  <2>1. writer[c] \in Writers /\ target[writer[c]] = c
    BY <1>5 DEF Layer!WriteBody
  <2>2. buffer' = [buffer EXCEPT ![c] = body[c]]
    BY <1>5, <2>1 DEF Layer!WriteBody
  <2>3. Layer!LayerTypeOK'
    BY <1>5, <2>1, <2>2 DEF Layer!WriteBody
  <2>4. \A d \in Requests \ {c} : at[d] = "writing" => writer[d] # writer[c]
    BY <1>5, <2>1 DEF Layer!WriteBody
  <2>5. WireBooks'
    BY <1>5, <2>1, <2>2, <2>4 DEF Layer!WriteBody
  <2> QED
    BY <2>3, <2>5
<1>6. CASE Layer!Send(c)
  <2>1. PICK b \in Layer!Payload(c) : Layer!Close(c, IF status[c] = 200 THEN b ELSE copy[c])
    BY <1>6 DEF Layer!Send
  <2>2. b \in Responses \cup {NoBody} /\ at[c] # "writing"
    BY <1>6, <2>1 DEF Layer!Payload, Layer!Send
  <2> QED
    BY <2>1, <2>2, CloseKeeps
<1> QED
  BY <1>1, <1>2, <1>3, <1>4, <1>5, <1>6 DEF WireStep, Layer!Middleware

\* What a request that is answered 200 or 304 leaves the client with.
LEMMA AnswerShowsBody == ASSUME WireInv, NEW c \in Requests, status[c] = 200,
                                Layer!NotModified(c) \/ Layer!Send(c)
                         PROVE  copy'[c] = body[c]
<1> USE DEF WireInv, WireBooks, Layer!LayerTypeOK
<1>1. CASE Layer!NotModified(c)
  BY <1>1 DEF Layer!NotModified, Layer!MatchesETag, Layer!Close
<1>2. CASE Layer!Send(c)
  <2>1. \A b \in Layer!Payload(c) : b = body[c]
    BY DEF Layer!Payload
  <2> QED
    BY <1>2, <2>1 DEF Layer!Send, Layer!Close
<1> QED
  BY <1>1, <1>2

-----------------------------------------------------------------------------
\* The composition.

\* Each step is one of the middleware, one of the handler, both at once where
\* one calls the other or returns to it, or an edit.
LEMMA StepCases == ASSUME PageTypeOK, Next
                   PROVE  \/ \E r \in Requests :
                               \/ Poll(r) /\ Begin(r) /\ WireStep(r)
                               \/ Compute(r) /\ UNCHANGED wireVars
                               \/ Reply(r) /\ Finish(r) /\ WireStep(r)
                               \/ Layer!Middleware(r) /\ WireStep(r) /\ UNCHANGED aboutVars
                          \/ Outside /\ UNCHANGED wireVars
<1>1. ASSUME NEW r \in Requests, Reply(r) PROVE Finish(r) /\ WireStep(r)
  BY <1>1, ResponseType DEF Reply, WireStep
<1> QED
  BY <1>1 DEF Next, Poll, Handle, Deliver, WireStep

Inv == PageTypeOK /\ WireInv

LEMMA InitInv == Init => Inv
<1> SUFFICES ASSUME Init PROVE Inv
  OBVIOUS
<1>1. PageTypeOK
  <2>1. rows \in [Children -> SUBSET pages] /\ pages \subseteq Ids /\ tables \subseteq Tables
    <3>1. CASE tables = {} /\ pages = {} /\ rows = [t \in Children |-> {}]
      BY <3>1
    <3>2. CASE tables = Tables /\ \E i \in Ids : pages = {i} /\ rows = [t \in Children |-> {i}]
      BY <3>2
    <3> QED
      BY <3>1, <3>2 DEF Init, AboutInit
  <2>2. edits \in 0..MaxEdits
    BY IdsAssumption DEF Init, AboutInit
  <2>3. memo \in [Tables -> {"unknown", "yes", "no"}] /\ migrated \in BOOLEAN
    BY DEF Init, AboutInit
  <2>4. /\ pc \in [Requests -> {"idle", "load", "probe", "store", "read", "done", "failed"}]
        /\ step \in [Requests -> 1..3]
        /\ answer \in [Requests -> {"yes", "no"}]
    BY DEF Init, AboutInit
  <2>5. /\ page \in [Requests -> Ids \cup {NoPage}]
        /\ found \in [Requests -> SUBSET Children]
        /\ quiet \in [Requests -> BOOLEAN]
    BY DEF Init, AboutInit
  <2> QED
    BY <2>1, <2>2, <2>3, <2>4, <2>5 DEF PageTypeOK
<1>2. WireInv
  BY DEF Init, Layer!Init, WireInv, WireBooks, Layer!LayerTypeOK
<1> QED
  BY <1>1, <1>2 DEF Inv

LEMMA NextInv == Inv /\ [Next]_vars => Inv'
<1> SUFFICES ASSUME Inv, [Next]_vars PROVE Inv'
  OBVIOUS
<1>1. UNCHANGED aboutVars => PageTypeOK'
  BY DEF Inv, PageTypeOK, aboutVars, dataVars, localVars
<1>2. UNCHANGED wireVars => WireInv'
  BY DEF Inv, WireInv, WireBooks, Layer!LayerTypeOK, wireVars
<1>3. CASE UNCHANGED vars
  BY <1>1, <1>2, <1>3 DEF Inv, vars
<1>4. CASE Next
  BY <1>1, <1>2, <1>4, StepCases, HandlerType, OutsideType, WireStepKeeps DEF Inv
<1> QED
  BY <1>3, <1>4

LEMMA Invariant == Spec => []Inv
  BY InitInv, NextInv, PTL DEF Spec

\* The state keeps its shape; metrics and sections always belong to a page.
THEOREM TypeCorrect == Spec => []TypeOK
<1>1. Inv => TypeOK
  BY TypeParts DEF Inv, WireInv
<1> QED
  BY <1>1, Invariant, PTL

\* No gzip writer is ever used by two requests, or is in the pool while one uses
\* it, for any number of clients and writers.
THEOREM WritersStayOwned == Spec => []WritersOwned
<1>1. Inv => WritersOwned
  BY WiresApart DEF Inv
<1> QED
  BY <1>1, Invariant, PTL

\* A 200 or a 304 leaves the client with the body computed for this request.
THEOREM ShowsComputed == Spec => ShownIsComputed
<1>1. Inv => [\A c \in Requests :
                status[c] = 200 /\ (Layer!NotModified(c) \/ Layer!Send(c))
                => copy'[c] = body[c]]_(Layer!layerVars)
  BY AnswerShowsBody DEF Inv
<1> QED
  BY <1>1, Invariant, PTL DEF ShownIsComputed, Layer!ShownIsComputed

-----------------------------------------------------------------------------
\* A quiet poll.

\* What is not there has no rows.
Tabled ==
    /\ "about_page" \notin tables => pages = {}
    /\ \A t \in Children : t \notin tables => rows[t] = {}

\* On the schema the process started with, the memo is right, and so is what a
\* request has found or goes on.
Truthful ==
    ~migrated =>
        /\ \A t \in Tables : memo[t] # "unknown" => (memo[t] = "yes" <=> t \in tables)
        /\ \A r \in Requests :
             pc[r] = "store" => (answer[r] = "yes" <=> Order[step[r]] \in tables)

\* A handler that is not at work has nothing in hand.
Fresh ==
    \A r \in Requests : pc[r] = "idle" =>
        step[r] = 1 /\ page[r] = NoPage /\ found[r] = {}

\* The tables a request has gone through.
Passed(r) == IF pc[r] = "done" THEN 1..3 ELSE 1..(step[r] - 1)

\* What it has of them is what they hold.
Snapped(r) ==
    /\ page[r] = IF 1 \in Passed(r) THEN FirstPage ELSE NoPage
    /\ found[r] = {t \in Children : /\ \E n \in Passed(r) : t = Order[n]
                                    /\ AboutId(FirstPage) \in rows[t]}

Working == {"load", "probe", "store", "read", "done"}
Answering == {"buffered", "writing", "compressed"}

QuietBooks ==
    ~migrated => \A r \in Requests : quiet[r] =>
        /\ pc[r] \in Working => Snapped(r)
        /\ at[r] \in Answering /\ status[r] = 200 => body[r] = Snapshot

QuietInv == Inv /\ Tabled /\ Truthful /\ Fresh /\ QuietBooks

\* Edits keep the tables as they are; the script makes them all.
LEMMA TabledKept == ASSUME Inv, Tabled, [Next]_vars
                    PROVE  Tabled'
<1> USE DEF Tabled
<1>1. ASSUME NEW r \in Requests, Begin(r) \/ Compute(r) \/ Finish(r)
      PROVE  Tabled'
  BY <1>1 DEF Begin, Compute, LoadHit, LoadMiss, Probe, Store, Read, Fail, Finish, dataVars
<1>2. CASE Outside
  <2> USE DEF Inv, PageTypeOK, Disturb
  <2>1. ASSUME NEW i \in Ids, AddPage(i) \/ DropPage(i) PROVE Tabled'
    BY <2>1 DEF AddPage, DropPage
  <2>2. ASSUME NEW i \in Ids, NEW j \in Ids, RenamePage(i, j) PROVE Tabled'
    BY <2>2 DEF RenamePage
  <2>3. ASSUME NEW t \in Children, NEW i \in Ids, AddRows(t, i) \/ DropRows(t, i)
        PROVE  Tabled'
    BY <2>3 DEF AddRows, DropRows
  <2>4. ASSUME NEW t \in Children, NEW i \in Ids, NEW j \in Ids, MoveRows(t, i, j)
        PROVE  Tabled'
    BY <2>4 DEF MoveRows
  <2>5. CASE Script
    BY <2>5 DEF Script, Tables
  <2> QED
    BY <1>2, <2>1, <2>2, <2>3, <2>4, <2>5 DEF Outside, Edit
<1>3. UNCHANGED aboutVars => Tabled'
  BY DEF aboutVars, dataVars
<1>4. CASE UNCHANGED vars
  BY <1>3, <1>4 DEF vars
<1> QED
  BY <1>1, <1>2, <1>3, <1>4, StepCases DEF Inv

\* Passing a table that is not there, or that has been read, leaves the request
\* with what all the tables it has passed hold.
LEMMA AdvanceSnaps == ASSUME Inv, NEW r \in Requests, Snapped(r), pc[r] # "done",
                             Advance(r),
                             UNCHANGED <<pages, rows>>,
                             page'[r] = IF step[r] = 1 THEN FirstPage ELSE page[r],
                             found'[r] = found[r] \cup
                                 {t \in Children : t = Order[step[r]] /\ AboutId(FirstPage) \in rows[t]}
                      PROVE  Snapped(r)' /\ pc'[r] \in {"load", "done"}
<1> USE DEF Inv, PageTypeOK
<1>1. Passed(r)' = Passed(r) \cup {step[r]} /\ step[r] \in 1..3
  BY DEF Advance, Passed
<1>2. FirstPage' = FirstPage
  BY DEF FirstPage
<1>3. page'[r] = IF 1 \in Passed(r)' THEN FirstPage ELSE NoPage
  BY <1>1 DEF Snapped, Passed
<1>4. found'[r] = {t \in Children : /\ \E n \in Passed(r)' : t = Order[n]
                                    /\ AboutId(FirstPage) \in rows[t]}
  BY <1>1 DEF Snapped
<1>5. AboutId(FirstPage)' = AboutId(FirstPage)
  BY <1>2 DEF AboutId
<1> QED
  BY <1>2, <1>3, <1>4, <1>5 DEF Snapped, Advance

\* What is neither read nor written stays as it is.
LEMMA SnappedStays == ASSUME Inv, NEW r \in Requests, Snapped(r),
                             UNCHANGED <<pages, rows>>,
                             page'[r] = page[r], found'[r] = found[r], step'[r] = step[r],
                             pc'[r] = "done" <=> pc[r] = "done"
                      PROVE  Snapped(r)'
<1>1. FirstPage' = FirstPage
  BY DEF FirstPage
<1>2. AboutId(FirstPage)' = AboutId(FirstPage) /\ Passed(r)' = Passed(r)
  BY <1>1 DEF AboutId, Passed
<1> QED
  BY <1>1, <1>2 DEF Snapped

\* HasTable returns the truth, and a table that is not there is passed by.
LEMMA ReturnSnaps == ASSUME Inv, Tabled, NEW r \in Requests, Snapped(r), pc[r] \in {"load", "store"},
                            NEW has \in {"yes", "no"}, has = "yes" <=> Order[step[r]] \in tables,
                            Return(r, has),
                            UNCHANGED <<pages, rows, page, found>>
                     PROVE  Snapped(r)'
<1>1. CASE has = "yes"
  BY <1>1, SnappedStays DEF Return, Inv, PageTypeOK
<1>2. CASE has = "no"
  <2>1. Order[step[r]] \notin tables /\ Advance(r) /\ step[r] \in 1..3
    BY <1>2 DEF Return, Inv, PageTypeOK
  <2>2. page'[r] = IF step[r] = 1 THEN FirstPage ELSE page[r]
    <3>1. step[r] = 1 => FirstPage = NoPage
      BY <2>1, OrderType DEF Tabled, FirstPage
    <3>2. step[r] = 1 => page[r] = NoPage
      BY <2>1 DEF Snapped, Passed
    <3> QED
      BY <3>1, <3>2
  <2>3. {t \in Children : t = Order[step[r]] /\ AboutId(FirstPage) \in rows[t]} = {}
    BY <2>1 DEF Tabled
  <2> QED
    BY <2>1, <2>2, <2>3, AdvanceSnaps
<1> QED
  BY <1>1, <1>2

\* A handler's step keeps what it has true to the tables.
LEMMA ComputeSnaps == ASSUME Inv, Tabled, Truthful, ~migrated, NEW r \in Requests,
                             pc[r] \in Working => Snapped(r), Compute(r)
                      PROVE  pc'[r] \in Working => Snapped(r)'
<1> USE DEF Inv, PageTypeOK, Working, dataVars
<1>1. CASE LoadHit(r)
  <2>1. memo[Order[step[r]]] \in {"yes", "no"}
        /\ (memo[Order[step[r]]] = "yes" <=> Order[step[r]] \in tables)
    BY <1>1, OrderType DEF LoadHit, Truthful
  <2> QED
    BY <1>1, <2>1, ReturnSnaps DEF LoadHit
<1>2. CASE LoadMiss(r) \/ Probe(r)
  BY <1>2, SnappedStays DEF LoadMiss, Probe
<1>3. CASE Store(r)
  <2>1. answer[r] \in {"yes", "no"} /\ (answer[r] = "yes" <=> Order[step[r]] \in tables)
    BY <1>3 DEF Store, Truthful
  <2> QED
    BY <1>3, <2>1, ReturnSnaps DEF Store
<1>4. CASE Read(r)
  <2>1. Snapped(r) /\ pc[r] # "done" /\ Advance(r) /\ step[r] \in 1..3
    BY <1>4 DEF Read
  <2>2. page'[r] = IF step[r] = 1 THEN FirstPage ELSE page[r]
    BY <1>4 DEF Read
  <2>3. found'[r] = found[r] \cup
                      {t \in Children : t = Order[step[r]] /\ AboutId(FirstPage) \in rows[t]}
    <3>1. CASE step[r] = 1
      BY <1>4, <3>1, OrderType DEF Read
    <3>2. CASE step[r] # 1
      <4>1. page[r] = FirstPage
        BY <2>1, <3>2 DEF Snapped, Passed
      <4>2. Order[step[r]] \in Children
        BY <2>1, <3>2, OrderType
      <4> QED
        BY <1>4, <3>2, <4>1, <4>2 DEF Read
    <3> QED
      BY <3>1, <3>2
  <2> QED
    BY <1>4, <2>1, <2>2, <2>3, AdvanceSnaps DEF Read
<1>5. CASE Fail(r)
  BY <1>5 DEF Fail
<1> QED
  BY <1>1, <1>2, <1>3, <1>4, <1>5 DEF Compute

\* A handler that is done has a snapshot.
LEMMA DoneSnaps == ASSUME Inv, NEW r \in Requests, pc[r] = "done", Snapped(r)
                   PROVE  Response(page[r], found[r]) = Snapshot
<1>1. page[r] = FirstPage
  BY DEF Snapped, Passed
<1>2. found[r] = {t \in Children : AboutId(FirstPage) \in rows[t]}
  BY OrderType DEF Snapped, Passed
<1> QED
  BY <1>1, <1>2 DEF Snapshot

\* The memo stays right as long as no table is made.
LEMMA TruthfulKept == ASSUME Inv, Truthful, [Next]_vars
                      PROVE  Truthful'
<1> USE DEF Truthful, Inv, PageTypeOK
<1>1. ASSUME NEW r \in Requests, Begin(r) \/ Finish(r) \/ LoadMiss(r) \/ Fail(r)
      PROVE  Truthful'
  BY <1>1 DEF Begin, Finish, LoadMiss, Fail, dataVars
<1>2. ASSUME NEW r \in Requests, LoadHit(r) \/ Read(r)
      PROVE  Truthful'
  BY <1>2 DEF LoadHit, Read, Return, Advance, dataVars
<1>3. ASSUME NEW r \in Requests, Probe(r)
      PROVE  Truthful'
  BY <1>3 DEF Probe, dataVars
<1>4. ASSUME NEW r \in Requests, Store(r)
      PROVE  Truthful'
  BY <1>4, OrderType DEF Store, Return, Advance, dataVars
<1>5. CASE Outside
  <2>1. CASE Edit
    BY <2>1 DEF Edit, AddPage, DropPage, RenamePage, AddRows, DropRows, MoveRows,
                Disturb, localVars
  <2>2. CASE Script
    <3>1. SUFFICES ASSUME ~migrated' PROVE Truthful'
      BY DEF Truthful
    <3>2. ~migrated /\ tables' = tables
      BY <2>2, <3>1 DEF Script
    <3> QED
      BY <2>2, <3>2 DEF Script, localVars
  <2> QED
    BY <1>5, <2>1, <2>2 DEF Outside
<1>6. UNCHANGED aboutVars => Truthful'
  BY DEF aboutVars, dataVars, localVars
<1>7. CASE UNCHANGED vars
  BY <1>6, <1>7 DEF vars
<1> QED
  BY <1>1, <1>2, <1>3, <1>4, <1>5, <1>6, <1>7, StepCases DEF Compute

LEMMA FreshKept == ASSUME Inv, Fresh, [Next]_vars
                   PROVE  Fresh'
<1> USE DEF Fresh, Inv, PageTypeOK
<1>1. ASSUME NEW r \in Requests, Begin(r) \/ Compute(r) \/ Finish(r)
      PROVE  Fresh'
  BY <1>1 DEF Begin, Compute, LoadHit, LoadMiss, Probe, Store, Read, Fail, Finish,
              Return, Advance, dataVars
<1>2. CASE Outside
  BY <1>2 DEF Outside, Edit, AddPage, DropPage, RenamePage, AddRows, DropRows, MoveRows,
              Disturb, Script, localVars
<1>3. UNCHANGED aboutVars => Fresh'
  BY DEF aboutVars, localVars
<1>4. CASE UNCHANGED vars
  BY <1>3, <1>4 DEF vars
<1> QED
  BY <1>1, <1>2, <1>3, <1>4, StepCases

LEMMA SnapshotStays == ASSUME UNCHANGED <<pages, rows>>
                       PROVE  Snapshot' = Snapshot
<1>1. FirstPage' = FirstPage
  BY DEF FirstPage
<1> QED
  BY <1>1 DEF Snapshot, AboutId

\* Of a quiet request the books are kept by a step of its own and by any other
\* request's, and there is none under way after an edit.
LEMMA QuietBooksKept == ASSUME QuietInv, [Next]_vars
                        PROVE  QuietBooks'
<1> USE DEF QuietInv
<1> DEFINE Told(q) == at[q] \in Answering /\ status[q] = 200 => body[q] = Snapshot
           Book(q) == (pc[q] \in Working => Snapped(q)) /\ Told(q)
<1>1. ASSUME NEW q \in Requests, Book(q), UNCHANGED <<pages, rows>>,
             UNCHANGED <<pc[q], step[q], page[q], found[q], at[q], status[q], body[q]>>
      PROVE  Book(q)'
  BY <1>1, SnappedStays, SnapshotStays
<1>2. ASSUME NEW r \in Requests, Poll(r) PROVE QuietBooks'
  <2>1. UNCHANGED <<pages, rows, migrated, step, page, found, status, body>>
    BY <1>2 DEF Poll, Begin, Layer!Ask, dataVars
  <2>2. Book(r)'
    <3>1. Passed(r)' = {} /\ page'[r] = NoPage /\ found'[r] = {}
      BY <1>2, <2>1 DEF Poll, Begin, Passed, Fresh, Inv, PageTypeOK
    <3>2. Snapped(r)'
      BY <3>1 DEF Snapped
    <3>3. at'[r] = "handler"
      BY <1>2 DEF Poll, Layer!Ask, Layer!Move, Inv, WireInv, Layer!LayerTypeOK
    <3> QED
      BY <3>2, <3>3 DEF Answering
  <2>3. ASSUME NEW q \in Requests \ {r}, Book(q) PROVE Book(q)'
    <3>1. UNCHANGED <<pc[q], at[q]>>
      BY <1>2 DEF Poll, Begin, Layer!Ask, Layer!Move, Inv, PageTypeOK, WireInv, Layer!LayerTypeOK
    <3> QED
      BY <1>1, <2>1, <2>3, <3>1
  <2>4. \A q \in Requests \ {r} : quiet'[q] = quiet[q]
    BY <1>2 DEF Poll, Begin, Inv, PageTypeOK
  <2> QED
    BY <2>1, <2>2, <2>3, <2>4 DEF QuietBooks
<1>3. ASSUME NEW r \in Requests, Handle(r) PROVE QuietBooks'
  <2>1. UNCHANGED <<pages, rows, migrated, quiet, at, status, body>>
    BY <1>3 DEF Handle, Compute, LoadHit, LoadMiss, Probe, Store, Read, Fail, dataVars, wireVars
  <2>2. ASSUME ~migrated, Book(r) PROVE Book(r)'
    BY <1>3, <2>1, <2>2, ComputeSnaps, SnapshotStays DEF Handle
  <2>3. ASSUME NEW q \in Requests \ {r}, Book(q) PROVE Book(q)'
    <3>1. UNCHANGED <<pc[q], step[q], page[q], found[q]>>
      BY <1>3 DEF Handle, Compute, LoadHit, LoadMiss, Probe, Store, Read, Fail, Return, Advance,
                  Inv, PageTypeOK
    <3> QED
      BY <1>1, <2>1, <2>3, <3>1
  <2> QED
    BY <2>1, <2>2, <2>3 DEF QuietBooks
<1>4. ASSUME NEW r \in Requests, Reply(r) PROVE QuietBooks'
  <2>1. UNCHANGED <<pages, rows, migrated, quiet>>
    BY <1>4 DEF Reply, Finish, dataVars
  <2>2. ASSUME Book(r) PROVE Book(r)'
    <3>1. pc'[r] = "idle"
      BY <1>4 DEF Reply, Finish, Inv, PageTypeOK
    <3>2. CASE pc[r] = "done"
      <4>1. body'[r] = Response(page[r], found[r])
        BY <1>4, <3>2 DEF Reply, Layer!Handled, Inv, WireInv, Layer!LayerTypeOK
      <4> QED
        BY <2>1, <2>2, <3>1, <3>2, <4>1, DoneSnaps, SnapshotStays DEF Working
    <3>3. CASE pc[r] # "done"
      <4>1. status'[r] = 500
        BY <1>4, <3>3 DEF Reply, Layer!Handled, Inv, WireInv, Layer!LayerTypeOK
      <4> QED
        BY <3>1, <4>1 DEF Working
    <3> QED
      BY <3>2, <3>3
  <2>3. ASSUME NEW q \in Requests \ {r}, Book(q) PROVE Book(q)'
    <3>1. UNCHANGED <<pc[q], step[q], page[q], found[q], at[q], status[q], body[q]>>
      BY <1>4 DEF Reply, Finish, Layer!Handled, Layer!Move, Inv, PageTypeOK, WireInv,
                  Layer!LayerTypeOK
    <3> QED
      BY <1>1, <2>1, <2>3, <3>1
  <2> QED
    BY <2>1, <2>2, <2>3 DEF QuietBooks
<1>5. ASSUME NEW r \in Requests, Deliver(r) PROVE QuietBooks'
  <2>1. UNCHANGED <<pages, rows, migrated, quiet, pc, step, page, found>>
    BY <1>5 DEF Deliver, aboutVars, dataVars, localVars
  <2>2. ASSUME Book(r) PROVE Book(r)'
    <3>1. \/ at'[r] = "idle"
          \/ at[r] \in Answering /\ UNCHANGED <<status[r], body[r]>>
      BY <1>5 DEF Deliver, Layer!Middleware, Layer!NotModified, Layer!NotModifiedAny,
                  Layer!Compress, Layer!WriteBody, Layer!Send, Layer!Unheard, Layer!Close,
                  Layer!Move, Answering, Inv, WireInv, Layer!LayerTypeOK
    <3> QED
      BY <2>1, <2>2, <3>1, SnappedStays, SnapshotStays DEF Answering
  <2>3. ASSUME NEW q \in Requests \ {r}, Book(q) PROVE Book(q)'
    <3>1. UNCHANGED <<at[q], status[q], body[q]>>
      BY <1>5 DEF Deliver, Layer!Middleware, Layer!NotModified, Layer!NotModifiedAny,
                  Layer!Compress, Layer!WriteBody, Layer!Send, Layer!Unheard, Layer!Close,
                  Layer!Move, Inv, WireInv, Layer!LayerTypeOK
    <3> QED
      BY <1>1, <2>1, <2>3, <3>1
  <2> QED
    BY <2>1, <2>2, <2>3 DEF QuietBooks
<1>6. CASE Outside
  <2>1. \A r \in Requests : quiet'[r] = FALSE
    BY <1>6 DEF Outside, Edit, AddPage, DropPage, RenamePage, AddRows, DropRows, MoveRows,
                Disturb, Script
  <2> QED
    BY <2>1 DEF QuietBooks
<1>7. CASE UNCHANGED vars
  <2>1. UNCHANGED <<pages, rows, migrated, quiet, pc, step, page, found, at, status, body>>
    BY <1>7 DEF vars, aboutVars, dataVars, localVars, wireVars
  <2> QED
    BY <1>1, <2>1 DEF QuietBooks
<1> QED
  BY <1>2, <1>3, <1>4, <1>5, <1>6, <1>7 DEF Next

LEMMA InitQuiet == Init => QuietInv
<1> SUFFICES ASSUME Init PROVE QuietInv
  OBVIOUS
<1>1. Tabled /\ Truthful /\ Fresh
  <2>1. CASE tables = {} /\ pages = {} /\ rows = [t \in Children |-> {}]
    BY <2>1 DEF Init, AboutInit, Tabled, Truthful, Fresh
  <2>2. CASE tables = Tables
    BY <2>2 DEF Init, AboutInit, Tabled, Truthful, Fresh, Tables
  <2> QED
    BY <2>1, <2>2 DEF Init, AboutInit
<1>2. QuietBooks
  BY DEF Init, AboutInit, Layer!Init, QuietBooks, Working, Answering
<1> QED
  BY <1>1, <1>2, InitInv DEF QuietInv

\* A quiet poll leaves the client with what the tables hold, for any number of
\* clients, whatever the memo, the other requests and the pool are doing.
THEOREM QuietPollsShowTables == Spec => QuietPollShowsTables
<1>1. QuietInv /\ [Next]_vars => QuietInv'
  BY NextInv, TabledKept, TruthfulKept, FreshKept, QuietBooksKept DEF QuietInv
<1>2. QuietInv => [\A r \in Requests :
                      /\ quiet[r] /\ ~migrated
                      /\ status[r] = 200
                      /\ Layer!NotModified(r) \/ Layer!Send(r)
                      => copy'[r] = Snapshot]_vars
  <2> SUFFICES ASSUME QuietInv, NEW r \in Requests, quiet[r], ~migrated, status[r] = 200,
                      Layer!NotModified(r) \/ Layer!Send(r)
               PROVE  copy'[r] = Snapshot
    OBVIOUS
  <2>1. at[r] \in Answering
    BY DEF Layer!NotModified, Layer!Send, Answering
  <2> QED
    BY <2>1, AnswerShowsBody DEF QuietInv, QuietBooks, Inv
<1> QED
  BY <1>1, <1>2, InitQuiet, PTL DEF Spec, QuietPollShowsTables
=============================================================================
