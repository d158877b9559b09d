------------------------- MODULE TuningColumnsProofs -------------------------
(***************************************************************************)
(* What holds of updates of the tuning table for any number of requests,   *)
(* any texts and any operations.                                           *)
(***************************************************************************)
EXTENDS TuningColumns, TLAPS

-----------------------------------------------------------------------------
\* What a payload comes to.

LEMMA PayloadType == ASSUME NEW p \in Payloads
                     PROVE  /\ p["title"] \in Values \cup {Absent}
                            /\ p["description"] \in Values \cup {Absent}
                            /\ p.images \in (Cells \cup {Absent})
  BY DEF Payloads, Cells, Arrays, NonArrays

\* The handler makes of a payload what its sender meant.
LEMMA NormalizeIsMeant == ASSUME NEW p \in Payloads
                          PROVE  Normalize(p) = Meant(p) /\ Normalize(p) \in Values \cup {Absent}
<1> DEFINE t == p["title"]
           d == p["description"]
           said == {c \in Names : p[c] # Absent}
           full == {c \in said : p[c] \notin Empty}
<1>1. t \in Values \cup {Absent} /\ d \in Values \cup {Absent}
  BY PayloadType
<1>2. Absent \notin Empty
  BY TextsAssumption DEF Values
<1>3. /\ "title" \in said <=> t # Absent
      /\ "description" \in said <=> d # Absent
      /\ "title" \in full <=> t # Absent /\ t \notin Empty
      /\ "description" \in full <=> d # Absent /\ d \notin Empty
      /\ said \subseteq {"title", "description"} /\ full \subseteq said
  BY DEF Names
<1> HIDE DEF t, d, said, full
<1>4. Meant(p) = LET from == IF full # {} THEN full ELSE said
                 IN  IF from = {} THEN Absent
                     ELSE IF "description" \in from THEN d ELSE t
  BY DEF Meant, t, d, said, full
<1>5. Normalize(p) = IF t # Absent /\ (d = Absent \/ (d \in Empty /\ t \notin Empty)) THEN t ELSE d
  BY DEF Normalize, t, d
<1>6. full = {} <=> "title" \notin full /\ "description" \notin full
  BY <1>3
<1>7. said = {} <=> "title" \notin said /\ "description" \notin said
  BY <1>3
<1> QED
  BY <1>1, <1>2, <1>3, <1>4, <1>5, <1>6, <1>7

-----------------------------------------------------------------------------
\* The shape of the state.

\* What the script makes of a cell is one a checked column may hold.
LEMMA ConvertType == \A c \in Cells : Convert(c) \in Arrays
  BY DEF Cells, Arrays, NonArrays, Convert

LEMMA OrderType == \A n \in 1..2 : Order[n] \in Names
  BY DEF Order, Names

LEMMA InitType == Init => TypeOK
<1> SUFFICES ASSUME Init PROVE TypeOK
  OBVIOUS
<1>1. column \in Columns /\ cell \in Cells /\ Holds(column, cell) /\ given \in Cells
  <2>1. column \in Columns /\ given = cell
    BY DEF Init
  <2>2. CASE column = "text"
    <3>1. cell \in {"null", "blank", "bare", "broken"}
      BY <2>2 DEF Init
    <3> QED
      BY <2>1, <2>2, <3>1 DEF Cells, Holds
  <2>3. CASE column = "checked"
    <3>1. cell = "empty"
      BY <2>3 DEF Init
    <3> QED
      BY <2>1, <2>3, <3>1 DEF Cells, Arrays, Holds
  <2>4. CASE column \in {"missing", "jsonb"}
    <3>1. cell = "null"
      BY <2>4 DEF Init
    <3> QED
      BY <2>1, <2>4, <3>1 DEF Cells, Holds
  <2> QED
    BY <2>1, <2>2, <2>3, <2>4 DEF Columns
<1>2. /\ columns \in (SUBSET Names) \ {{}}
      /\ row \in [Names -> Values] /\ \A c \in Names \ columns : row[c] = "null"
      /\ meant \in Values
  BY DEF Init, Values, Empty
<1>3. /\ memo \in [Names -> {"unknown", "yes", "no"}]
      /\ op \in [Requests -> Operations]
      /\ pc \in [Requests -> {"unsent", "load", "probe", "store", "send", "sent", "done", "failed"}]
  BY DEF Init
<1>4. step \in [Requests -> 1..2] /\ has \in [Requests -> [Names -> {"unknown", "yes", "no"}]]
  BY DEF Init
<1>5. migrated \in BOOLEAN /\ clean \in [Requests -> BOOLEAN] /\ sound \in BOOLEAN
  BY DEF Init
<1> QED
  BY <1>1, <1>2, <1>3, <1>4, <1>5 DEF TypeOK

LEMMA NextType == TypeOK /\ [Next]_vars => TypeOK'
<1> SUFFICES ASSUME TypeOK, [Next]_vars PROVE TypeOK'
  OBVIOUS
<1> USE DEF TypeOK, Move, imageVars
<1>1. ASSUME NEW r \in Requests, Receive(r) \/ LoadMiss(r) \/ ProbeFails(r) \/ Send(r) \/ Abort(r)
      PROVE  TypeOK'
  <2>1. CASE Receive(r)
    <3>1. clean' \in [Requests -> BOOLEAN]
      BY <2>1 DEF Receive
    <3> QED
      BY <2>1, <3>1 DEF Receive
  <2>2. CASE LoadMiss(r)
    BY <2>2 DEF LoadMiss
  <2>3. CASE ProbeFails(r)
    BY <2>3 DEF ProbeFails
  <2>4. CASE Send(r)
    BY <2>4 DEF Send
  <2>5. CASE Abort(r)
    BY <2>5 DEF Abort
  <2> QED
    BY <1>1, <2>1, <2>2, <2>3, <2>4, <2>5
<1>2. ASSUME NEW r \in Requests, LoadHit(r) PROVE TypeOK'
  <2>1. Order[step[r]] \in Names /\ memo[Order[step[r]]] \in {"yes", "no"}
    BY <1>2, OrderType DEF LoadHit
  <2>2. has' \in [Requests -> [Names -> {"unknown", "yes", "no"}]]
    BY <1>2, <2>1 DEF LoadHit, Return
  <2>3. step' \in [Requests -> 1..2]
    BY <1>2 DEF LoadHit, Return
  <2>4. pc' \in [Requests -> {"unsent", "load", "probe", "store", "send", "sent", "done", "failed"}]
    BY <1>2 DEF LoadHit, Return
  <2>5. UNCHANGED <<columns, row, memo, op, meant, migrated, clean, sound, imageVars>>
    BY <1>2 DEF LoadHit, Return
  <2> QED
    BY <2>2, <2>3, <2>4, <2>5
<1>3. ASSUME NEW r \in Requests, Probe(r) PROVE TypeOK'
  BY <1>3, OrderType DEF Probe
<1>4. ASSUME NEW r \in Requests, Store(r) PROVE TypeOK'
  <2>1. Order[step[r]] \in Names /\ has[r][Order[step[r]]] \in {"unknown", "yes", "no"}
    BY OrderType
  <2>2. /\ memo' \in [Names -> {"unknown", "yes", "no"}]
        /\ has' \in [Requests -> [Names -> {"unknown", "yes", "no"}]]
    BY <1>4, <2>1 DEF Store, Return
  <2>3. step' \in [Requests -> 1..2]
    <3>1. step' = [step EXCEPT ![r] = 2] \/ step' = step
      BY <1>4 DEF Store, Return
    <3> QED
      BY <3>1
  <2>4. pc' \in [Requests -> {"unsent", "load", "probe", "store", "send", "sent", "done", "failed"}]
    BY <1>4 DEF Store, Return
  <2>5. UNCHANGED <<columns, row, op, meant, migrated, clean, sound, imageVars>>
    BY <1>4 DEF Store, Return
  <2> QED
    BY <2>2, <2>3, <2>4, <2>5
<1>5. ASSUME NEW r \in Requests, Execute(r) PROVE TypeOK'
  <2>1. op[r] \in Payloads
    BY TextsAssumption
  <2>2. /\ Meant(op[r]) = Normalize(op[r])
        /\ Normalize(op[r]) \in Values \cup {Absent}
    BY <2>1, NormalizeIsMeant
  <2>3. meant' \in Values /\ sound' \in BOOLEAN
    BY <1>5, <2>2 DEF Execute
  <2>4. \A c \in Written(r) : Normalize(op[r]) \in Values
    BY <2>2 DEF Written, Aligned
  <2>5. row' \in [Names -> Values] /\ \A c \in Names \ columns : row'[c] = "null"
    BY <1>5, <2>4 DEF Execute
  <2>6. cell' \in Cells /\ Holds(column, cell') /\ given' \in Cells
    BY <1>5, <2>1, PayloadType DEF Execute
  <2> QED
    BY <1>5, <2>3, <2>5, <2>6 DEF Execute
<1>6. ASSUME NEW c \in Names, AddColumn(c) PROVE TypeOK'
  BY <1>6 DEF AddColumn
<1>7. CASE RenameColumn
  <2>1. row["title"] \in Values /\ "null" \in Values
    BY DEF Names, Values, Empty
  <2>2. row' \in [Names -> Values] /\ \A c \in Names \ columns' : row'[c] = "null"
    BY <1>7, <2>1 DEF RenameColumn, Names
  <2>3. columns' \in (SUBSET Names) \ {{}}
    BY <1>7 DEF RenameColumn, Names
  <2> QED
    BY <1>7, <2>2, <2>3 DEF RenameColumn
<1>8. CASE Script
  <2>1. Convert(cell) \in Cells /\ Holds("checked", Convert(cell)) /\ "checked" \in Columns
    BY ConvertType DEF Cells, Holds, Columns
  <2> QED
    BY <1>8, <2>1 DEF Script
<1>9. CASE Restart
  BY <1>9 DEF Restart
<1>10. CASE UNCHANGED vars
  BY <1>10 DEF vars
<1> QED
  BY <1>1, <1>2, <1>3, <1>4, <1>5, <1>6, <1>7, <1>8, <1>9, <1>10 DEF Next, Handler

\* The state keeps its shape; a column that is not there holds nothing, and the
\* images are always what their column may hold.
THEOREM TypeCorrect == Spec => []TypeOK
  BY InitType, NextType, PTL DEF Spec

-----------------------------------------------------------------------------
\* What is written is what is read.

\* The columns a request has looked up.
LookedUp(r) ==
    CASE pc[r] \in {"send", "sent"}    -> Names
      [] pc[r] = "store"               -> {Order[n] : n \in 1..step[r]}
      [] pc[r] \in {"load", "probe"}   -> {Order[n] : n \in 1..(step[r] - 1)}
      [] OTHER                         -> {}

InFlight == {"load", "probe", "store", "send"}

\* On the schema the process started with the memo is right.
MemoTruthful ==
    ~migrated => \A c \in Names : memo[c] # "unknown" => (memo[c] = "yes" <=> c \in columns)

\* A request that is not sent yet has both columns before it; one in flight is clean
\* if and only if the schema has not changed since the process started; what a clean request has looked up is true, also if its
\* statement outlives the process.
CleanKnows ==
    \A r \in Requests :
        /\ pc[r] = "unsent" => step[r] = 1
        /\ pc[r] \in InFlight => (clean[r] <=> ~migrated)
        /\ clean[r] => \A c \in LookedUp(r) : has[r][c] = "yes" <=> c \in columns

Inv == TypeOK /\ MemoTruthful /\ CleanKnows /\ WrittenIsRead

\* A request that has not moved and has learnt nothing knows what it knew.
LEMMA KnowsStill == ASSUME NEW r \in Requests, pc'[r] = pc[r], step'[r] = step[r]
                    PROVE  LookedUp(r)' = LookedUp(r)
  BY DEF LookedUp

\* HasColumn returns the truth.
LEMMA ReturnKnows == ASSUME TypeOK, CleanKnows, NEW r \in Requests, pc[r] \in {"load", "store"},
                            NEW v \in {"unknown", "yes", "no"}, Return(r, v),
                            clean[r] => (v = "yes" <=> Order[step[r]] \in columns)
                     PROVE  CleanKnows'
<1> USE DEF TypeOK, Return, Move, InFlight
<1>1. ASSUME NEW q \in Requests \ {r}
      PROVE  LookedUp(q)' = LookedUp(q) /\ has'[q] = has[q] /\ pc'[q] = pc[q]
  BY <1>1, KnowsStill
<1>2. step[r] \in 1..2 /\ Order[1] = "title" /\ Order[2] = "description"
  BY DEF Order
<1>3. \A c \in Names : has'[r][c] = IF c = Order[step[r]] THEN v ELSE has[r][c]
  BY <1>2, OrderType
<1>4. LookedUp(r)' \subseteq LookedUp(r) \cup {Order[step[r]]}
  <2>1. CASE step[r] = 1
    <3>1. pc'[r] = "load" /\ step'[r] = 2
      BY <2>1
    <3> QED
      BY <1>2, <2>1, <3>1 DEF LookedUp
  <2>2. CASE step[r] = 2
    <3>1. pc'[r] = "send"
      BY <2>2
    <3> QED
      BY <1>2, <2>2, <3>1 DEF LookedUp, Names
  <2> QED
    BY <1>2, <2>1, <2>2
<1>5. LookedUp(r)' \subseteq Names
  BY <1>2, OrderType DEF LookedUp
<1>6. ASSUME clean[r] PROVE \A c \in LookedUp(r)' : has'[r][c] = "yes" <=> c \in columns
  BY <1>3, <1>4, <1>5, <1>6 DEF CleanKnows
<1>7. pc[r] \in InFlight
  OBVIOUS
<1> QED
  BY <1>1, <1>6, <1>7 DEF CleanKnows

\* What an update leaves of the row, if it knows the columns.
LEMMA ExecuteWrites == ASSUME Inv, NEW r \in Requests, Execute(r)
                       PROVE  WrittenIsRead'
<1> USE DEF Inv, TypeOK
<1>1. op[r] \in Payloads
  BY TextsAssumption
<1>2. Normalize(op[r]) = Meant(op[r])
  BY <1>1, NormalizeIsMeant
<1>3. UNCHANGED columns
  BY DEF Execute
<1>4. CASE Meant(op[r]) = Absent
  <2>1. Written(r) = {}
    BY <1>2, <1>4 DEF Written, Aligned
  <2>2. \A c \in columns : row'[c] = row[c]
    BY <2>1 DEF Execute
  <2>3. UNCHANGED <<meant, sound>>
    BY <1>4 DEF Execute
  <2> QED
    BY <1>3, <2>2, <2>3 DEF WrittenIsRead, Shown
<1>5. CASE Meant(op[r]) # Absent
  <2>1. meant' = Meant(op[r]) /\ sound' = clean[r]
    BY <1>5 DEF Execute
  <2>2. ASSUME clean[r] PROVE columns \subseteq Written(r)
    <3>1. \A c \in Names : has[r][c] = "yes" <=> c \in columns
      BY <2>2 DEF CleanKnows, LookedUp, Execute
    <3> QED
      BY <1>2, <1>5, <3>1 DEF Written, Aligned
  <2>3. ASSUME clean[r] PROVE \A c \in columns : row'[c] = Normalize(op[r])
    BY <2>2, <2>3 DEF Execute
  <2> QED
    BY <1>2, <1>3, <2>1, <2>3 DEF WrittenIsRead, Shown
<1> QED
  BY <1>4, <1>5

LEMMA InitInv == Init => Inv
<1>1. Init => MemoTruthful
  BY DEF Init, MemoTruthful
<1>3. Init => CleanKnows
  <2> SUFFICES ASSUME Init, NEW r \in Requests
               PROVE  step[r] = 1 /\ pc[r] = "unsent" /\ clean[r] = FALSE
    BY DEF CleanKnows, InFlight
  <2> QED
    BY DEF Init
<1>2. Init => WrittenIsRead
  BY DEF Init, WrittenIsRead, Shown
<1> QED
  BY <1>1, <1>2, <1>3, InitType DEF Inv

LEMMA StoreLooked == ASSUME TypeOK, NEW r \in Requests, Store(r)
                     PROVE  Order[step[r]] \in LookedUp(r)
<1>1. step[r] \in 1..2 /\ pc[r] = "store"
  BY DEF TypeOK, Store
<1>2. LookedUp(r) = {Order[n] : n \in 1..step[r]}
  BY <1>1 DEF LookedUp
<1>3. step[r] \in 1..step[r]
  BY <1>1
<1> QED
  BY <1>2, <1>3

LEMMA MemoKept == ASSUME Inv, [Next]_vars
                  PROVE  MemoTruthful'
<1> USE DEF Inv, TypeOK, MemoTruthful
<1>1. ASSUME NEW r \in Requests, Store(r), ~migrated PROVE MemoTruthful'
  <2> DEFINE d == Order[step[r]]
  <2>1. d \in Names /\ d \in LookedUp(r)
    BY <1>1, OrderType, StoreLooked
  <2>2. clean[r]
    BY <1>1 DEF Store, CleanKnows, InFlight
  <2>3. has[r][d] = "yes" <=> d \in columns
    BY <2>1, <2>2 DEF CleanKnows
  <2> HIDE DEF d
  <2>4. memo' = [memo EXCEPT ![d] = has[r][d]] /\ UNCHANGED <<columns, migrated>>
    BY <1>1 DEF Store, Return, d
  <2> QED
    BY <1>1, <2>1, <2>3, <2>4
<1>2. ASSUME NEW r \in Requests, Handler(r), migrated \/ ~Store(r) PROVE MemoTruthful'
  <2>1. CASE migrated
    <3>1. UNCHANGED migrated
      BY <1>2 DEF Handler, Receive, LoadHit, LoadMiss, Probe, Store, ProbeFails, Send, Abort,
                  Execute, Return
    <3> QED
      BY <2>1, <3>1
  <2>2. CASE ~Store(r)
    <3>1. UNCHANGED <<memo, columns, migrated>>
      BY <1>2, <2>2 DEF Handler, Receive, LoadHit, LoadMiss, Probe, ProbeFails, Send, Abort,
                        Execute, Return
    <3> QED
      BY <3>1
  <2> QED
    BY <1>2, <2>1, <2>2
<1>3. CASE (\E c \in Names : AddColumn(c)) \/ RenameColumn \/ Script \/ Restart
  BY <1>3 DEF AddColumn, RenameColumn, Script, Restart
<1>4. CASE UNCHANGED vars
  BY <1>4 DEF vars
<1> QED
  BY <1>1, <1>2, <1>3, <1>4 DEF Next

\* A step of one request that changes neither the schema nor what is clean leaves
\* the others what they know.
LEMMA OthersKnow == ASSUME TypeOK, CleanKnows, NEW r \in Requests,
                           UNCHANGED <<columns, migrated, clean>>,
                           \A q \in Requests \ {r} :
                               pc'[q] = pc[q] /\ step'[q] = step[q] /\ has'[q] = has[q],
                           pc'[r] # "unsent", pc'[r] \in InFlight => pc[r] \in InFlight,
                           clean[r] => \A c \in LookedUp(r)' :
                                           has'[r][c] = "yes" <=> c \in columns
                    PROVE  CleanKnows'
<1>1. ASSUME NEW q \in Requests \ {r} PROVE LookedUp(q)' = LookedUp(q)
  BY <1>1, KnowsStill
<1> QED
  BY <1>1 DEF CleanKnows

\* What a clean request takes for true is true after every step.
LEMMA CleanKept == ASSUME Inv, [Next]_vars
                   PROVE  CleanKnows'
<1> USE DEF Inv, TypeOK
<1>1. ASSUME NEW r \in Requests, Receive(r) PROVE CleanKnows'
  <2>1. /\ step[r] = 1 /\ pc'[r] = "load" /\ clean'[r] = ~migrated
        /\ UNCHANGED <<step, has, columns, migrated>>
        /\ \A q \in Requests \ {r} : pc'[q] = pc[q] /\ clean'[q] = clean[q]
    BY <1>1 DEF Receive, Move, CleanKnows
  <2>2. \A q \in Requests \ {r} : LookedUp(q)' = LookedUp(q)
    BY <2>1, KnowsStill
  <2>3. LookedUp(r)' = {}
    BY <2>1 DEF LookedUp
  <2>4. ASSUME NEW q \in Requests \ {r}
        PROVE  /\ pc'[q] = "unsent" => step'[q] = 1
               /\ pc'[q] \in InFlight => (clean'[q] <=> ~migrated')
               /\ clean'[q] => \A c \in LookedUp(q)' : has'[q][c] = "yes" <=> c \in columns'
    BY <2>1, <2>2, <2>4 DEF CleanKnows
  <2>5. /\ pc'[r] = "unsent" => step'[r] = 1
        /\ pc'[r] \in InFlight => (clean'[r] <=> ~migrated')
        /\ clean'[r] => \A c \in LookedUp(r)' : has'[r][c] = "yes" <=> c \in columns'
    BY <2>1, <2>3
  <2> QED
    BY <2>4, <2>5 DEF CleanKnows
<1>2. ASSUME NEW r \in Requests, LoadHit(r) PROVE CleanKnows'
  <2> DEFINE d == Order[step[r]]
  <2>1. d \in Names /\ memo[d] \in {"yes", "no"}
    BY <1>2, OrderType DEF LoadHit
  <2>2. clean[r] => ~migrated
    BY <1>2 DEF LoadHit, CleanKnows, InFlight
  <2>3. clean[r] => (memo[d] = "yes" <=> d \in columns)
    BY <2>1, <2>2 DEF MemoTruthful
  <2> QED
    BY <1>2, <2>1, <2>3, ReturnKnows DEF LoadHit
<1>3. ASSUME NEW r \in Requests, Store(r) PROVE CleanKnows'
  <2> DEFINE d == Order[step[r]]
  <2>1. d \in LookedUp(r)
    BY <1>3, StoreLooked
  <2>2. clean[r] => (has[r][d] = "yes" <=> d \in columns)
    BY <2>1 DEF CleanKnows
  <2>3. has[r][d] \in {"unknown", "yes", "no"}
    BY OrderType
  <2> QED
    BY <1>3, <2>2, <2>3, ReturnKnows DEF Store
<1>4. ASSUME NEW r \in Requests, Probe(r) PROVE CleanKnows'
  <2> DEFINE d == Order[step[r]]
  <2>1. d \in Names
    BY OrderType
  <2>2. /\ pc'[r] = "store" /\ pc[r] = "probe" /\ step' = step
        /\ \A q \in Requests \ {r} : pc'[q] = pc[q] /\ has'[q] = has[q]
        /\ UNCHANGED <<columns, migrated, clean>>
    BY <1>4 DEF Probe, Move
  <2>3. \A c \in Names : has'[r][c] = IF c = d THEN (IF c \in columns THEN "yes" ELSE "no")
                                               ELSE has[r][c]
    BY <1>4, <2>1 DEF Probe
  <2>4. LookedUp(r) = {Order[n] : n \in 1..(step[r] - 1)}
        /\ LookedUp(r)' = {Order[n] : n \in 1..step[r]}
    BY <2>2 DEF LookedUp
  <2>5. LookedUp(r)' \subseteq LookedUp(r) \cup {d} /\ LookedUp(r)' \subseteq Names
    <3>1. step[r] = 1 \/ step[r] = 2
      OBVIOUS
    <3>2. CASE step[r] = 1
      BY <2>4, <3>2 DEF Order, Names
    <3>3. CASE step[r] = 2
      BY <2>4, <3>3 DEF Order, Names
    <3> QED
      BY <3>1, <3>2, <3>3
  <2> HIDE DEF d
  <2>6. clean[r] => \A c \in LookedUp(r)' : has'[r][c] = "yes" <=> c \in columns
    BY <2>3, <2>5 DEF CleanKnows
  <2> QED
    BY <2>2, <2>6, OthersKnow DEF InFlight
<1>5. ASSUME NEW r \in Requests, LoadMiss(r) PROVE CleanKnows'
  <2>1. LookedUp(r)' = LookedUp(r)
    BY <1>5 DEF LoadMiss, Move, LookedUp
  <2> QED
    BY <1>5, <2>1, OthersKnow DEF LoadMiss, Move, InFlight, CleanKnows
<1>6. ASSUME NEW r \in Requests, ProbeFails(r) \/ Abort(r) \/ Execute(r) PROVE CleanKnows'
  <2>1. /\ pc'[r] \in {"done", "failed"} /\ UNCHANGED <<columns, migrated, clean, step, has>>
        /\ \A q \in Requests \ {r} : pc'[q] = pc[q]
    BY <1>6 DEF ProbeFails, Abort, Execute, Move
  <2>2. LookedUp(r)' = {}
    BY <2>1 DEF LookedUp
  <2> QED
    BY <2>1, <2>2, OthersKnow DEF InFlight
<1>7. ASSUME NEW r \in Requests, Send(r) PROVE CleanKnows'
  <2>1. /\ pc[r] = "send" /\ pc'[r] = "sent" /\ UNCHANGED <<columns, migrated, clean, step, has>>
        /\ \A q \in Requests \ {r} : pc'[q] = pc[q]
    BY <1>7 DEF Send, Move
  <2>2. LookedUp(r)' = LookedUp(r)
    BY <2>1 DEF LookedUp
  <2> QED
    BY <2>1, <2>2, OthersKnow DEF InFlight, CleanKnows
<1>8. CASE (\E c \in Names : AddColumn(c)) \/ RenameColumn
  BY <1>8 DEF AddColumn, RenameColumn, CleanKnows
<1>9. CASE Restart
  <2>1. \A q \in Requests : /\ pc'[q] \notin InFlight
                            /\ pc'[q] = pc[q] \/ pc'[q] = "failed"
    BY <1>9 DEF Restart, InFlight
  <2>2. UNCHANGED <<columns, step, has, clean>>
    BY <1>9 DEF Restart
  <2>3. \A q \in Requests : LookedUp(q)' \subseteq LookedUp(q)
    BY <2>1, <2>2 DEF LookedUp
  <2> QED
    BY <2>1, <2>2, <2>3 DEF CleanKnows
<1>10. CASE Script \/ UNCHANGED vars
  <2>1. UNCHANGED <<columns, pc, step, has, migrated, clean>>
    BY <1>10 DEF Script, vars
  <2>2. \A q \in Requests : LookedUp(q)' = LookedUp(q)
    BY <2>1 DEF LookedUp
  <2> QED
    BY <2>1, <2>2 DEF CleanKnows
<1> QED
  BY <1>1, <1>2, <1>3, <1>4, <1>5, <1>6, <1>7, <1>8, <1>9, <1>10 DEF Next, Handler

\* What is read stays what was meant.
LEMMA ReadKept == ASSUME Inv, [Next]_vars
                  PROVE  WrittenIsRead'
<1> USE DEF Inv, TypeOK, WrittenIsRead, Shown
<1>1. ASSUME NEW r \in Requests, Handler(r), ~Execute(r) PROVE WrittenIsRead'
  <2>1. UNCHANGED <<row, columns, meant, sound>>
    BY <1>1 DEF Handler, Receive, LoadHit, LoadMiss, Probe, Store, ProbeFails, Send, Abort, Return
  <2> QED
    BY <2>1
<1>2. ASSUME NEW r \in Requests, Execute(r) PROVE WrittenIsRead'
  BY <1>2, ExecuteWrites
<1>3. CASE \E c \in Names : AddColumn(c)
  BY <1>3 DEF AddColumn
<1>4. CASE RenameColumn
  BY <1>4 DEF RenameColumn, Names
<1>5. CASE Script \/ Restart \/ UNCHANGED vars
  BY <1>5 DEF Script, Restart, vars
<1> QED
  BY <1>1, <1>2, <1>3, <1>4, <1>5 DEF Next

LEMMA NextInv == Inv /\ [Next]_vars => Inv'
<1> SUFFICES ASSUME Inv, [Next]_vars PROVE Inv'
  OBVIOUS
<1>1. TypeOK'
  BY NextType DEF Inv
<1> QED
  BY <1>1, MemoKept, CleanKept, ReadKept DEF Inv

\* GET /tuning shows what the last update meant, under either name and from
\* whichever column, if its process was started on the schema it wrote under.
THEOREM WritesAreRead == Spec => []WrittenIsRead
<1>1. Inv => WrittenIsRead
  BY DEF Inv
<1> QED
  BY InitInv, NextInv, <1>1, PTL DEF Spec

-----------------------------------------------------------------------------
\* The images of the row.

\* The cell is what was last written, or what the script made of that; what was in
\* the script's way is not behind it.
Converted ==
    /\ TypeOK
    /\ column = "checked" => given # "broken"
    /\ cell = IF column = "checked" THEN Convert(given) ELSE given

\* An array is converted to itself.
LEMMA ConvertArray == \A c \in Arrays : Convert(c) = c /\ c # "broken"
  BY DEF Arrays, Convert

LEMMA InitConverted == Init => Converted
<1> SUFFICES ASSUME Init PROVE Converted
  OBVIOUS
<1>1. column = "checked" => cell = "empty"
  BY DEF Init
<1> QED
  BY <1>1, InitType, ConvertArray DEF Init, Converted, Arrays

LEMMA NextConverted == Converted /\ [Next]_vars => Converted'
<1> SUFFICES ASSUME Converted, [Next]_vars PROVE Converted'
  OBVIOUS
<1>1. TypeOK'
  BY NextType DEF Converted
<1>2. ASSUME UNCHANGED imageVars PROVE Converted'
  BY <1>1, <1>2 DEF imageVars, Converted
<1>3. ASSUME NEW r \in Requests, Handler(r), ~Execute(r) PROVE UNCHANGED imageVars
  BY <1>3 DEF Handler, Receive, LoadHit, LoadMiss, Probe, Store, ProbeFails, Send, Abort, Return
<1>4. ASSUME NEW r \in Requests, Execute(r) PROVE Converted'
  <2>1. CASE op[r].images = Absent
    BY <1>2, <1>4, <2>1 DEF Execute, imageVars
  <2>2. CASE op[r].images # Absent
    <3>1. /\ Holds(column, op[r].images) /\ column' = column
          /\ cell' = op[r].images /\ given' = op[r].images
      BY <1>4, <2>2 DEF Execute
    <3>2. column = "checked" => op[r].images \in Arrays
      BY <3>1 DEF Holds
    <3> QED
      BY <1>1, <3>1, <3>2, ConvertArray DEF Converted
  <2> QED
    BY <2>1, <2>2
<1>5. CASE (\E c \in Names : AddColumn(c)) \/ RenameColumn \/ Restart \/ UNCHANGED vars
  BY <1>2, <1>5 DEF AddColumn, RenameColumn, Restart, vars
<1>6. CASE Script
  <2>1. column # "checked" /\ cell = given /\ Holds(column, cell) /\ column \in Columns
    BY <1>6 DEF Script, Converted, TypeOK
  <2>2. given # "broken"
    BY <1>6, <2>1 DEF Script, Convertible, Holds, Columns, Arrays, NonArrays
  <2> QED
    BY <1>1, <1>6, <2>1, <2>2 DEF Script, Converted
<1> QED
  BY <1>2, <1>3, <1>4, <1>5, <1>6 DEF Next

\* What a conversion does to the addresses a reader is shown.
LEMMA ConvertShows == \A c \in Cells \ {"broken"} :
                          StringArray(Convert(c)) = CASE c = "bare"       -> {"address"}
                                                      [] c \in NonArrays  -> {"rubbish"}
                                                      [] OTHER            -> StringArray(c)
<1> SUFFICES ASSUME NEW c \in Cells \ {"broken"}
             PROVE  StringArray(Convert(c)) = CASE c = "bare"       -> {"address"}
                                                [] c \in NonArrays  -> {"rubbish"}
                                                [] OTHER            -> StringArray(c)
  OBVIOUS
<1> USE DEF Convert, StringArray, Arrays, NonArrays
<1>1. CASE c \in {"null", "blank", "bare"}
  BY <1>1
<1>2. CASE c \in Arrays
  BY <1>2
<1>3. CASE c \in NonArrays
  BY <1>3
<1> QED
  BY <1>1, <1>2, <1>3 DEF Cells

\* What was last written is what is shown, before the script and after it, but for
\* bare addresses, which the script adds, and for JSON that is no array, which a
\* TEXT column carries into it.
THEOREM WritesKeepImages == Spec => []ImagesKept
<1>1. Converted => ImagesKept
  <2> SUFFICES ASSUME Converted PROVE ImagesKept
    OBVIOUS
  <2>1. CASE column = "checked"
    <3>1. cell = Convert(given) /\ given \in Cells \ {"broken"}
      BY <2>1 DEF Converted, TypeOK
    <3> QED
      BY <2>1, <3>1, ConvertShows DEF ImagesKept
  <2>2. CASE column # "checked"
    BY <2>2 DEF Converted, ImagesKept
  <2> QED
    BY <2>1, <2>2
<1> QED
  BY InitConverted, NextConverted, <1>1, PTL DEF Spec
=============================================================================
