--------------------------- MODULE WorkPostsProofs ---------------------------
(***************************************************************************)
(* What holds of GET /work_post and its memo for every number of requests. *)
(***************************************************************************)
EXTENDS WorkPosts, TLAPS

\* A request that stores has an answer of its key's own kind, and one that has a
\* table looks up, or has looked up, that table's column.
Coherent(r) ==
    /\ pc[r] = "store" => answer[r] \in Answers(key[r])
    /\ pc[r] \in {"load", "probe", "store"} /\ key[r] # "resolve" => table[r] = key[r]
    /\ pc[r] \in {"query", "read", "served"} =>
         key[r] = table[r] /\ table[r] \in Tables /\ answer[r] \in {"yes", "no"}

Kept == TypeOK /\ \A r \in Requests : Coherent(r)

LEMMA TruthType == \A k \in Keys : Truth(k) \in Answers(k)
  BY DEF Truth, Answers, Keys, Tables

\* What an answer to the lookup of r may be, and where it leads.
LEMMA ReturnLeads ==
    ASSUME Kept, NEW r \in Requests, NEW v \in Answers(key[r]), Return(r, v),
           pc[r] \in {"load", "store"}
    PROVE  /\ pc' \in [Requests -> Resting \cup InFlight]
           /\ key' \in [Requests -> Keys]
           /\ answer' \in [Requests -> AnyAnswer]
           /\ table' \in [Requests -> Tables \cup {"none"}]
           /\ \A q \in Requests \ {r} :
                /\ pc'[q] = pc[q] /\ key'[q] = key[q]
                /\ answer'[q] = answer[q] /\ table'[q] = table[q]
           /\ answer'[r] = v
           /\ \/ pc'[r] = "missing"
              \/ /\ key[r] = "resolve" /\ v \in Tables
                 /\ pc'[r] = "load" /\ key'[r] = v /\ table'[r] = v
              \/ /\ key[r] # "resolve" /\ v \in {"yes", "no"}
                 /\ pc'[r] = "query" /\ key'[r] = key[r] /\ table'[r] = table[r]
<1> USE DEF Kept, TypeOK, Keys, Tables, Resting, InFlight
<1>1. key[r] \in Keys /\ v \in AnyAnswer
  BY DEF Answers, AnyAnswer
<1>2. CASE key[r] = "resolve"
  BY <1>1, <1>2 DEF Return, Answers
<1>3. CASE key[r] # "resolve"
  BY <1>1, <1>3 DEF Return, Answers
<1> QED
  BY <1>2, <1>3

LEMMA ReturnKeeps ==
    ASSUME Kept, NEW r \in Requests, NEW v \in Answers(key[r]), Return(r, v),
           pc[r] \in {"load", "store"}
    PROVE  \A q \in Requests : Coherent(q)'
<1> USE ReturnLeads
<1>1. ASSUME NEW q \in Requests \ {r} PROVE Coherent(q)'
  <2>1. Coherent(q)
    BY DEF Kept
  <2>2. /\ pc'[q] = pc[q] /\ key'[q] = key[q]
        /\ answer'[q] = answer[q] /\ table'[q] = table[q]
    OBVIOUS
  <2> QED
    BY <2>1, <2>2 DEF Coherent
<1>2. Coherent(r)'
  <2>1. Coherent(r) /\ key[r] \in Keys
    BY DEF Kept, TypeOK
  <2>2. CASE pc'[r] = "missing"
    BY <2>2 DEF Coherent
  <2>3. CASE v \in Tables /\ pc'[r] = "load" /\ key'[r] = v /\ table'[r] = v
    BY <2>3 DEF Coherent
  <2>4. CASE /\ key[r] # "resolve" /\ v \in {"yes", "no"} /\ answer'[r] = v
             /\ pc'[r] = "query" /\ key'[r] = key[r] /\ table'[r] = table[r]
    BY <2>1, <2>4 DEF Coherent, Keys
  <2> QED
    BY <2>2, <2>3, <2>4
<1> QED
  BY <1>1, <1>2

LEMMA KeptStep == Kept /\ [Next]_vars => Kept'
<1> SUFFICES ASSUME Kept, [Next]_vars PROVE Kept'
  OBVIOUS
<1> USE DEF Kept, TypeOK, Coherent
<1>1. ASSUME NEW r \in Requests, Begin(r) PROVE Kept'
  BY <1>1 DEF Begin, Keys, Resting, InFlight
<1>2. ASSUME NEW r \in Requests, LoadHit(r) PROVE Kept'
  <2>1. memo[key[r]] \in Answers(key[r]) /\ pc[r] = "load"
    BY <1>2 DEF LoadHit
  <2> HIDE DEF Kept, TypeOK, Coherent
  <2>2. Return(r, memo[key[r]]) /\ UNCHANGED <<tables, gallery, memo, before, migrated>>
    BY <1>2 DEF LoadHit
  <2>3. \A q \in Requests : Coherent(q)'
    BY <2>1, <2>2, ReturnKeeps
  <2>4. TypeOK'
    BY <2>1, <2>2, ReturnLeads DEF Kept, TypeOK
  <2> QED
    BY <2>3, <2>4 DEF Kept
<1>3. ASSUME NEW r \in Requests, LoadMiss(r) \/ ProbeFails(r) PROVE Kept'
  BY <1>3 DEF LoadMiss, ProbeFails, Resting, InFlight
<1>4. ASSUME NEW r \in Requests, Probe(r) PROVE Kept'
  <2>1. key[r] \in Keys /\ Truth(key[r]) \in Answers(key[r])
    BY TruthType
  <2>2. answer' \in [Requests -> AnyAnswer]
    BY <1>4, <2>1 DEF Probe, Answers, AnyAnswer
  <2> QED
    BY <1>4, <2>1, <2>2 DEF Probe, Resting, InFlight
<1>5. ASSUME NEW r \in Requests, Store(r) PROVE Kept'
  <2>1. answer[r] \in Answers(key[r]) /\ pc[r] = "store" /\ key[r] \in Keys
    BY <1>5 DEF Store
  <2>2. /\ memo' \in [Keys -> AnyAnswer \cup {"unknown"}]
        /\ \A k \in Keys : memo'[k] \in Answers(k) \cup {"unknown"}
    BY <1>5, <2>1 DEF Store, Answers, AnyAnswer
  <2> HIDE DEF Kept, TypeOK, Coherent
  <2>3. Return(r, answer[r]) /\ UNCHANGED <<tables, gallery, before, migrated>>
    BY <1>5 DEF Store
  <2>4. \A q \in Requests : Coherent(q)'
    BY <2>1, <2>3, ReturnKeeps
  <2>5. TypeOK'
    BY <2>1, <2>2, <2>3, ReturnLeads DEF Kept, TypeOK
  <2> QED
    BY <2>4, <2>5 DEF Kept
<1>6. ASSUME NEW r \in Requests, Query(r) \/ QueryFails(r) \/ ReadRows(r) PROVE Kept'
  BY <1>6 DEF Query, QueryFails, ReadRows, Resting, InFlight
<1>7. CASE Migrate
  BY <1>7 DEF Migrate
<1>8. CASE Restart
  BY <1>8 DEF Restart, Keys, AnyAnswer, Resting
<1>9. CASE UNCHANGED vars
  BY <1>9 DEF vars
<1> QED
  BY <1>1, <1>2, <1>3, <1>4, <1>5, <1>6, <1>7, <1>8, <1>9 DEF Next, Handler

LEMMA AlwaysKept == Spec => []Kept
<1>1. Init => Kept
  <2> SUFFICES ASSUME Init PROVE Kept
    OBVIOUS
  <2>1. memo \in [Keys -> AnyAnswer \cup {"unknown"}] /\ \A k \in Keys : memo[k] = "unknown"
    BY DEF Init
  <2>2. \A r \in Requests : pc[r] = "idle"
    BY DEF Init
  <2>3. tables \subseteq Tables /\ gallery \subseteq tables /\ migrated \in BOOLEAN
    BY DEF Init
  <2>4. /\ pc \in [Requests -> Resting \cup InFlight] /\ key \in [Requests -> Keys]
        /\ answer \in [Requests -> AnyAnswer] /\ table \in [Requests -> Tables \cup {"none"}]
        /\ before \in [Requests -> SUBSET Tables]
    BY DEF Init, Resting, Keys, AnyAnswer
  <2> QED
    BY <2>1, <2>2, <2>3, <2>4 DEF Kept, Coherent, TypeOK
<1> QED
  BY <1>1, KeptStep, PTL DEF Spec

\* The memo answers every key in the key's own terms, and the rest of the state
\* keeps its shape.
THEOREM TypeCorrect == Spec => []TypeOK
<1>1. Kept => TypeOK
  BY DEF Kept
<1> QED
  BY <1>1, AlwaysKept, PTL

-----------------------------------------------------------------------------
\* MemoTruthful and ServesPreferred are strengthened together: while the schema
\* keeps its shape, an answer about to be stored, the table a request carries
\* along and the answers its query is built from are all the truth.
TruthfulRequest(r) ==
    /\ pc[r] = "store" => answer[r] = Truth(key[r])
    /\ pc[r] \in {"load", "probe", "store"} /\ key[r] # "resolve" => table[r] = Truth("resolve")
    /\ pc[r] \in {"query", "read", "served"} =>
         table[r] = Truth("resolve") /\ answer[r] = Truth(table[r])

Truthful ==
    ~migrated => MemoTruthful /\ \A r \in Requests : TruthfulRequest(r)

\* A true answer leaves the request that gets it truthful.
LEMMA ReturnTruthful ==
    ASSUME Kept, NEW r \in Requests, Return(r, Truth(key[r])), pc[r] \in {"load", "store"},
           TruthfulRequest(r), UNCHANGED <<tables, gallery>>,
           NEW q \in Requests, TruthfulRequest(q)
    PROVE  TruthfulRequest(q)'
<1>1. key[r] \in Keys
  BY DEF Kept, TypeOK
<1>2. Truth(key[r]) \in Answers(key[r])
  BY <1>1, TruthType
<1>3. \A k \in Keys : Truth(k)' = Truth(k)
  BY DEF Truth
<1>4. CASE q # r
  <2>1. /\ pc'[q] = pc[q] /\ key'[q] = key[q]
        /\ answer'[q] = answer[q] /\ table'[q] = table[q]
    BY <1>2, <1>4, ReturnLeads
  <2>2. Truth(key[q])' = Truth(key[q]) /\ Truth("resolve")' = Truth("resolve")
        /\ Truth(table[q])' = Truth(table[q])
    BY <2>1 DEF Truth
  <2> QED
    BY <2>1, <2>2 DEF TruthfulRequest
<1>5. CASE q = r
  <2> DEFINE v == Truth(key[r])
  <2> HIDE DEF v
  <2>0. answer'[r] = v /\ v \in Answers(key[r]) /\ Return(r, v)
    BY <1>2, ReturnLeads DEF v
  <2>1. CASE pc'[r] = "missing"
    BY <1>5, <2>1 DEF TruthfulRequest
  <2>2. CASE /\ key[r] = "resolve" /\ v \in Tables
             /\ pc'[r] = "load" /\ key'[r] = v /\ table'[r] = v
    <3>1. table'[r] = Truth("resolve")'
      BY <2>2, <1>3 DEF v, Keys
    <3> QED
      BY <1>5, <2>2, <3>1 DEF TruthfulRequest
  <2>3. CASE /\ key[r] # "resolve" /\ v \in {"yes", "no"}
             /\ pc'[r] = "query" /\ key'[r] = key[r] /\ table'[r] = table[r]
    <3>1. table[r] = Truth("resolve") /\ table[r] = key[r]
      BY <2>3 DEF TruthfulRequest, Kept, Coherent
    <3>2. table'[r] = Truth("resolve")' /\ answer'[r] = Truth(table[r])'
      BY <1>1, <1>3, <2>0, <2>3, <3>1 DEF v, Keys
    <3> QED
      BY <1>5, <2>3, <3>2 DEF TruthfulRequest
  <2> QED
    BY <2>0, <2>1, <2>2, <2>3, ReturnLeads
<1> QED
  BY <1>4, <1>5

LEMMA TruthfulStep == Kept /\ Truthful /\ [Next]_vars => Truthful'
<1> SUFFICES ASSUME Kept, Truthful, [Next]_vars, ~migrated'
             PROVE  MemoTruthful' /\ \A q \in Requests : TruthfulRequest(q)'
  BY DEF Truthful
<1>0. CASE Restart
  BY <1>0 DEF Restart, MemoTruthful, TruthfulRequest
<1> SUFFICES ASSUME ~Restart
             PROVE  MemoTruthful' /\ \A q \in Requests : TruthfulRequest(q)'
  BY <1>0
<1>1. ~migrated /\ UNCHANGED <<tables, gallery>>
  BY DEF Next, Handler, Begin, LoadHit, LoadMiss, Probe, ProbeFails, Store, Query,
         QueryFails, ReadRows, Migrate, vars
<1>2. MemoTruthful /\ \A q \in Requests : TruthfulRequest(q)
  BY <1>1 DEF Truthful
<1>3. \A k \in Keys : memo[k] \in {"unknown", Truth(k)}
  BY <1>1, <1>2 DEF MemoTruthful
<1>4. ASSUME memo' = memo PROVE MemoTruthful'
  BY <1>1, <1>3, <1>4 DEF MemoTruthful, Truth
<1>5. ASSUME NEW r \in Requests,
             Begin(r) \/ LoadMiss(r) \/ ProbeFails(r) \/ QueryFails(r)
             \/ Query(r) \/ ReadRows(r)
      PROVE  MemoTruthful' /\ \A q \in Requests : TruthfulRequest(q)'
  <2>1. memo' = memo
    BY <1>5 DEF Begin, LoadMiss, ProbeFails, QueryFails, Query, ReadRows
  <2>2. ASSUME NEW q \in Requests PROVE TruthfulRequest(q)'
    BY <1>1, <1>2, <1>5 DEF TruthfulRequest, Truth, Kept, TypeOK, Begin, LoadMiss,
                            ProbeFails, QueryFails, Query, ReadRows
  <2> QED
    BY <1>4, <2>1, <2>2
<1>6. ASSUME NEW r \in Requests, LoadHit(r)
      PROVE  MemoTruthful' /\ \A q \in Requests : TruthfulRequest(q)'
  <2>1. memo[key[r]] = Truth(key[r]) /\ pc[r] = "load" /\ memo' = memo
    BY <1>3, <1>6 DEF LoadHit, Kept, TypeOK
  <2>2. Return(r, Truth(key[r]))
    BY <1>6, <2>1 DEF LoadHit
  <2> QED
    BY <1>1, <1>2, <1>4, <2>1, <2>2, ReturnTruthful
<1>7. ASSUME NEW r \in Requests, Probe(r)
      PROVE  MemoTruthful' /\ \A q \in Requests : TruthfulRequest(q)'
  <2>1. memo' = memo /\ pc[r] = "probe" /\ UNCHANGED <<key, table>>
    BY <1>7 DEF Probe
  <2>2. answer'[r] = Truth(key[r]) /\ pc'[r] = "store"
    BY <1>7 DEF Probe, Kept, TypeOK
  <2>3. Truth(key[r])' = Truth(key[r]) /\ Truth("resolve")' = Truth("resolve")
    BY <1>1, <2>1 DEF Truth
  <2>4. TruthfulRequest(r)'
    BY <1>2, <2>1, <2>2, <2>3 DEF TruthfulRequest
  <2>5. ASSUME NEW q \in Requests \ {r} PROVE TruthfulRequest(q)'
    BY <1>1, <1>2, <1>7 DEF Probe, TruthfulRequest, Truth, Kept, TypeOK
  <2> QED
    BY <1>4, <2>1, <2>4, <2>5
<1>8. ASSUME NEW r \in Requests, Store(r)
      PROVE  MemoTruthful' /\ \A q \in Requests : TruthfulRequest(q)'
  <2>1. answer[r] = Truth(key[r]) /\ pc[r] = "store"
    BY <1>2, <1>8 DEF Store, TruthfulRequest
  <2>2. \A k \in Keys : memo'[k] = memo[k] \/ memo'[k] = Truth(k)
    BY <1>8, <2>1 DEF Store, Kept, TypeOK
  <2>3. MemoTruthful'
    BY <1>1, <1>3, <2>2 DEF MemoTruthful, Truth
  <2>4. Return(r, Truth(key[r]))
    BY <1>8, <2>1 DEF Store
  <2> QED
    BY <1>1, <1>2, <2>1, <2>3, <2>4, ReturnTruthful
<1>9. CASE UNCHANGED vars
  BY <1>1, <1>2, <1>4, <1>9 DEF vars, TruthfulRequest, Truth
<1>10. CASE Migrate
  BY <1>10 DEF Migrate
<1> QED
  BY <1>5, <1>6, <1>7, <1>8, <1>9, <1>10 DEF Next, Handler

LEMMA AlwaysTruthful == Spec => []Truthful
<1>1. Init => Truthful
  BY DEF Init, Truthful, MemoTruthful, TruthfulRequest
<1> QED
  BY <1>1, TruthfulStep, AlwaysKept, PTL DEF Spec

\* While the schema keeps its shape the memo holds the truth or nothing, whatever
\* probes fail and however many requests probe at once.
THEOREM StaysTruthful == Spec => []MemoTruthful
<1>1. Truthful => MemoTruthful
  BY DEF Truthful, MemoTruthful
<1> QED
  BY <1>1, AlwaysTruthful, PTL

\* While the schema keeps its shape every answer comes from the preferred table.
THEOREM ServesTruth == Spec => []ServesPreferred
<1>1. Truthful => ServesPreferred
  BY DEF Truthful, TruthfulRequest, ServesPreferred
<1> QED
  BY <1>1, AlwaysTruthful, PTL

-----------------------------------------------------------------------------
\* NeverRejected is strengthened with what stays true of an answer under additive
\* migrations: a table it names exists, and a column it affirms does.
Sound(k, v) ==
    /\ k = "resolve" /\ v \in Tables => v \in tables
    /\ k \in Tables /\ v = "yes" => k \in gallery

GroundedRequest(r) ==
    /\ pc[r] = "store" => Sound(key[r], answer[r])
    /\ pc[r] \in {"load", "probe", "store"} /\ key[r] # "resolve" => table[r] \in tables
    /\ pc[r] = "query" => Acceptable(r)
    /\ pc[r] # "rejected"

GroundedMemo == \A k \in Keys : Sound(k, memo[k])

Grounded == GroundedMemo /\ \A r \in Requests : GroundedRequest(r)

LEMMA TruthSound == TypeOK => \A k \in Keys : Sound(k, Truth(k))
  BY DEF TypeOK, Sound, Truth, Keys, Tables

\* A sound answer leaves the request that gets it grounded.
LEMMA ReturnGrounded ==
    ASSUME Kept, NEW r \in Requests, NEW v \in Answers(key[r]), Return(r, v), Sound(key[r], v),
           pc[r] \in {"load", "store"}, GroundedRequest(r), UNCHANGED <<tables, gallery>>,
           NEW q \in Requests, GroundedRequest(q)
    PROVE  GroundedRequest(q)'
<1>1. CASE q # r
  <2>1. /\ pc'[q] = pc[q] /\ key'[q] = key[q]
        /\ answer'[q] = answer[q] /\ table'[q] = table[q]
    BY <1>1, ReturnLeads
  <2> QED
    BY <2>1 DEF GroundedRequest, Sound, Acceptable
<1>2. CASE q = r
  <2>0. answer'[r] = v
    BY ReturnLeads
  <2>1. CASE pc'[r] = "missing"
    BY <1>2, <2>1 DEF GroundedRequest
  <2>2. CASE /\ key[r] = "resolve" /\ v \in Tables
             /\ pc'[r] = "load" /\ key'[r] = v /\ table'[r] = v
    BY <1>2, <2>2 DEF GroundedRequest, Sound
  <2>3. CASE /\ key[r] # "resolve" /\ v \in {"yes", "no"}
             /\ pc'[r] = "query" /\ key'[r] = key[r] /\ table'[r] = table[r]
    <3>1. table[r] \in tables /\ table[r] = key[r] /\ key[r] \in Tables
      BY <2>3 DEF GroundedRequest, Kept, Coherent, TypeOK, Keys
    <3>2. Acceptable(r)'
      BY <2>0, <2>3, <3>1 DEF Sound, Acceptable
    <3> QED
      BY <1>2, <2>3, <3>2 DEF GroundedRequest
  <2> QED
    BY <2>1, <2>2, <2>3, ReturnLeads
<1> QED
  BY <1>1, <1>2

LEMMA GroundedStep == Kept /\ Grounded /\ [Next]_vars => Grounded'
<1> SUFFICES ASSUME Kept, Grounded, [Next]_vars PROVE Grounded'
  OBVIOUS
<1>1. GroundedMemo /\ \A q \in Requests : GroundedRequest(q)
  BY DEF Grounded
<1>2. ASSUME NEW r \in Requests,
             Begin(r) \/ LoadMiss(r) \/ ProbeFails(r) \/ QueryFails(r) \/ ReadRows(r)
             \/ Query(r)
      PROVE  Grounded'
  <2>1. UNCHANGED <<memo, tables, gallery>>
    BY <1>2 DEF Begin, LoadMiss, ProbeFails, QueryFails, ReadRows, Query
  <2>2. GroundedMemo'
    BY <1>1, <2>1 DEF GroundedMemo, Sound
  <2>3. ASSUME NEW q \in Requests PROVE GroundedRequest(q)'
    BY <1>1, <1>2, <2>1 DEF GroundedRequest, Acceptable, Sound, Kept, TypeOK, Begin,
                            LoadMiss, ProbeFails, QueryFails, ReadRows, Query
  <2> QED
    BY <2>2, <2>3 DEF Grounded
<1>3. ASSUME NEW r \in Requests, LoadHit(r) PROVE Grounded'
  <2>1. /\ memo[key[r]] \in Answers(key[r]) /\ Sound(key[r], memo[key[r]])
        /\ pc[r] = "load" /\ Return(r, memo[key[r]]) /\ UNCHANGED <<memo, tables, gallery>>
    BY <1>1, <1>3 DEF LoadHit, GroundedMemo, Kept, TypeOK
  <2>2. GroundedMemo'
    BY <1>1, <2>1 DEF GroundedMemo, Sound
  <2>3. ASSUME NEW q \in Requests PROVE GroundedRequest(q)'
    BY <1>1, <2>1, ReturnGrounded
  <2> QED
    BY <2>2, <2>3 DEF Grounded
<1>4. ASSUME NEW r \in Requests, Probe(r) PROVE Grounded'
  <2>1. key[r] \in Keys /\ answer'[r] = Truth(key[r]) /\ UNCHANGED <<memo, tables, gallery, key, table>>
    BY <1>4 DEF Probe, Kept, TypeOK
  <2>2. Sound(key[r], answer[r])'
    BY <2>1, TruthSound DEF Kept, Sound
  <2>3. GroundedMemo'
    BY <1>1, <2>1 DEF GroundedMemo, Sound
  <2>4. GroundedRequest(r)'
    BY <1>1, <1>4, <2>1, <2>2 DEF GroundedRequest, Probe, Kept, TypeOK
  <2>5. ASSUME NEW q \in Requests \ {r} PROVE GroundedRequest(q)'
    BY <1>1, <1>4 DEF GroundedRequest, Acceptable, Sound, Probe, Kept, TypeOK
  <2> QED
    BY <2>3, <2>4, <2>5 DEF Grounded
<1>5. ASSUME NEW r \in Requests, Store(r) PROVE Grounded'
  <2>1. /\ key[r] \in Keys /\ answer[r] \in Answers(key[r]) /\ Sound(key[r], answer[r])
        /\ pc[r] = "store" /\ Return(r, answer[r]) /\ UNCHANGED <<tables, gallery>>
    BY <1>1, <1>5 DEF Store, GroundedRequest, Kept, Coherent, TypeOK
  <2>2. \A k \in Keys : memo'[k] = memo[k] \/ (k = key[r] /\ memo'[k] = answer[r])
    BY <1>5 DEF Store, Kept, TypeOK
  <2>3. GroundedMemo'
    BY <1>1, <2>1, <2>2 DEF GroundedMemo, Sound
  <2>4. ASSUME NEW q \in Requests PROVE GroundedRequest(q)'
    BY <1>1, <2>1, ReturnGrounded
  <2> QED
    BY <2>3, <2>4 DEF Grounded
<1>6. CASE Migrate
  BY <1>1, <1>6 DEF Migrate, Grounded, GroundedMemo, GroundedRequest, Acceptable, Sound
<1>7. CASE Restart
  BY <1>7 DEF Restart, Grounded, GroundedMemo, GroundedRequest, Sound, Tables
<1>8. CASE UNCHANGED vars
  BY <1>1, <1>8 DEF vars, Grounded, GroundedMemo, GroundedRequest, Acceptable, Sound
<1> QED
  BY <1>2, <1>3, <1>4, <1>5, <1>6, <1>7, <1>8 DEF Next, Handler

\* A stale memo, and two lookups that straddle a migration, never make the
\* handler send a query the schema rejects, as long as migrations only add.
THEOREM NeverSendsRejected == Spec => []NeverRejected
<1>1. Init => Grounded
  <2> SUFFICES ASSUME Init PROVE Grounded
    OBVIOUS
  <2>1. \A k \in Keys : memo[k] = "unknown"
    BY DEF Init
  <2>2. \A r \in Requests : pc[r] = "idle"
    BY DEF Init
  <2> QED
    BY <2>1, <2>2 DEF Grounded, GroundedMemo, GroundedRequest, Sound, Tables
<1>2. Grounded => NeverRejected
  BY DEF Grounded, GroundedRequest, NeverRejected
<1> QED
  BY <1>1, <1>2, GroundedStep, AlwaysKept, PTL DEF Spec
=============================================================================
