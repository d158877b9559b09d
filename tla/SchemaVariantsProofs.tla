------------------------ MODULE SchemaVariantsProofs ------------------------
(***************************************************************************)
(* What holds of the ladder and its cache for every number of requests,    *)
(* every length of ladder and every family of schema shapes.               *)
(***************************************************************************)
EXTENDS SchemaVariants, TLAPS

\* The shape of the state is kept by every step of every handler and of the
\* environment; the proofs below rest on it.
THEOREM TypeCorrect == Spec => []TypeOK
<1>1. Init => TypeOK
  BY LadderAssumption DEF Init, TypeOK, NoEntry, Resting
<1>2. TypeOK /\ [Next]_vars => TypeOK'
  <2> SUFFICES ASSUME TypeOK, [Next]_vars PROVE TypeOK'
    OBVIOUS
  <2> USE LadderAssumption, SchemasAssumption DEF TypeOK, NoEntry, Resting, InFlight
  <2>1. ASSUME NEW r \in Requests, Begin(r) PROVE TypeOK'
    BY <2>1 DEF Begin
  <2>2. ASSUME NEW r \in Requests, CachedServes(r) PROVE TypeOK'
    BY <2>2 DEF CachedServes, Succeeds
  <2>3. ASSUME NEW r \in Requests, CachedFails(r) PROVE TypeOK'
    BY <2>3 DEF CachedFails, Faults
  <2>4. ASSUME NEW r \in Requests, Evict(r) PROVE TypeOK'
    BY <2>4 DEF Evict
  <2>5. ASSUME NEW r \in Requests, LadderFinds(r) PROVE TypeOK'
    BY <2>5 DEF LadderFinds, Succeeds
  <2>6. ASSUME NEW r \in Requests, LadderFails(r) PROVE TypeOK'
    <3>1. index[r] \in 1..N /\ (index[r] < N => index[r] + 1 \in 1..N)
      OBVIOUS
    <3>2. pc' \in [Requests -> Resting \cup InFlight] /\ index' \in [Requests -> 1..N]
      BY <2>6, <3>1 DEF LadderFails
    <3>3. steady' \in [Requests -> SUBSET (1..N)] /\ settled' \in BOOLEAN
      BY <2>6 DEF LadderFails, Faults
    <3> QED
      BY <2>6, <3>2, <3>3 DEF LadderFails
  <2>7. ASSUME NEW r \in Requests, Store(r) PROVE TypeOK'
    BY <2>7 DEF Store
  <2>8. ASSUME NEW r \in Requests, ReadRows(r) PROVE TypeOK'
    BY <2>8 DEF ReadRows
  <2>9. ASSUME NEW r \in Requests, ReadFails(r) PROVE TypeOK'
    BY <2>9 DEF ReadFails
  <2>10. ASSUME NEW r \in Requests, Cancel(r) PROVE TypeOK'
    BY <2>10 DEF Cancel
  <2>11. CASE Migrate
    BY <2>11 DEF Migrate
  <2>12. CASE Restart
    BY <2>12 DEF Restart
  <2>13. CASE UNCHANGED vars
    BY <2>13 DEF vars
  <2> QED
    BY <2>1, <2>2, <2>3, <2>4, <2>5, <2>6, <2>7, <2>8, <2>9, <2>10, <2>11, <2>12, <2>13
    DEF Next, Handler
<1> QED
  BY <1>1, <1>2, PTL DEF Spec

-----------------------------------------------------------------------------
\* NoSpuriousFailure is not inductive: that the last rung is about to fail says
\* nothing of the rungs before it.  The strengthening follows the walk: while a
\* request's context is alive, steady rungs are accepted by the live schema, a
\* request whose context has ended has none left, and none of the rungs the
\* ladder has passed is steady.
Walked ==
    \A r \in Requests :
        /\ pc[r] \in InFlight => steady[r] \subseteq live
        /\ r \in cancelled => steady[r] = {}
        /\ pc[r] = "ladder" => \A i \in steady[r] : index[r] <= i
        /\ pc[r] = "failed" => steady[r] = {}

\* A failing query strikes its rung off the steady ones.
LEMMA FaultStrikes ==
    ASSUME TypeOK, Walked, NEW r \in Requests, pc[r] \in InFlight, Faults(r)
    PROVE  /\ index[r] \notin steady'[r]
           /\ steady'[r] \subseteq steady[r]
           /\ \A q \in Requests \ {r} : steady'[q] = steady[q]
<1>1. CASE ~Accepted(r) /\ UNCHANGED <<steady, settled>>
  BY <1>1 DEF Accepted, TypeOK, Walked
<1>2. CASE Accepted(r) /\ steady' = [steady EXCEPT ![r] = @ \ {index[r]}]
  BY <1>2 DEF TypeOK
<1> QED
  BY <1>1, <1>2 DEF Faults

\* A request fails only when not one rung was usable throughout it: stale
\* entries, evictions by other requests and migrations in the middle of the walk
\* cost round trips, never the answer.
THEOREM NeverFailsSpuriously == Spec => []NoSpuriousFailure
<1>1. Init => Walked
  BY DEF Init, Walked, InFlight
<1>2. TypeOK /\ TypeOK' /\ Walked /\ [Next]_vars => Walked'
  <2> SUFFICES ASSUME TypeOK, TypeOK', Walked, [Next]_vars PROVE Walked'
    OBVIOUS
  <2> USE DEF Resting, InFlight
  <2>1. ASSUME NEW r \in Requests, Begin(r) PROVE Walked'
    BY <2>1, LadderAssumption DEF Begin, Walked, TypeOK
  <2>2. ASSUME NEW r \in Requests, CachedServes(r) PROVE Walked'
    BY <2>2 DEF CachedServes, Succeeds, Walked, TypeOK
  <2>3. ASSUME NEW r \in Requests, CachedFails(r) PROVE Walked'
    <3>1. pc[r] \in InFlight /\ Faults(r)
      BY <2>3 DEF CachedFails
    <3>2. /\ steady'[r] \subseteq steady[r]
          /\ \A q \in Requests \ {r} : steady'[q] = steady[q]
      BY <3>1, FaultStrikes
    <3> QED
      BY <2>3, <3>2 DEF CachedFails, Walked, TypeOK
  <2>4. ASSUME NEW r \in Requests, Evict(r) PROVE Walked'
    BY <2>4, LadderAssumption DEF Evict, Walked, TypeOK
  <2>5. ASSUME NEW r \in Requests, LadderFinds(r) PROVE Walked'
    BY <2>5 DEF LadderFinds, Succeeds, Walked, TypeOK
  <2>6. ASSUME NEW r \in Requests, LadderFails(r) PROVE Walked'
    <3>1. pc[r] \in InFlight /\ Faults(r)
      BY <2>6 DEF LadderFails
    <3>2. /\ index[r] \notin steady'[r]
          /\ steady'[r] \subseteq steady[r]
          /\ \A q \in Requests \ {r} : steady'[q] = steady[q]
      BY <3>1, FaultStrikes
    <3>3. \A i \in steady'[r] : i \in 1..N /\ index[r] < i
      BY <2>6, <3>2 DEF LadderFails, Walked, TypeOK
    <3>4. CASE index[r] < N
      BY <2>6, <3>2, <3>3, <3>4 DEF LadderFails, Walked, TypeOK
    <3>5. CASE ~(index[r] < N)
      <4>1. steady'[r] = {}
        BY <3>3, <3>5, LadderAssumption DEF TypeOK
      <4> QED
        BY <2>6, <3>2, <3>5, <4>1 DEF LadderFails, Walked, TypeOK
    <3> QED
      BY <3>4, <3>5
  <2>7. ASSUME NEW r \in Requests, Store(r) PROVE Walked'
    BY <2>7 DEF Store, Walked, TypeOK
  <2>8. ASSUME NEW r \in Requests, ReadRows(r) PROVE Walked'
    BY <2>8 DEF ReadRows, Walked, TypeOK
  <2>9. ASSUME NEW r \in Requests, ReadFails(r) PROVE Walked'
    BY <2>9 DEF ReadFails, Walked, TypeOK
  <2>10. ASSUME NEW r \in Requests, Cancel(r) PROVE Walked'
    BY <2>10 DEF Cancel, Walked, TypeOK
  <2>11. CASE Migrate
    BY <2>11 DEF Migrate, Walked, TypeOK
  <2>12. CASE Restart
    BY <2>12 DEF Restart, Walked
  <2>13. CASE UNCHANGED vars
    BY <2>13 DEF vars, Walked
  <2> QED
    BY <2>1, <2>2, <2>3, <2>4, <2>5, <2>6, <2>7, <2>8, <2>9, <2>10, <2>11, <2>12, <2>13
    DEF Next, Handler
<1>3. Walked => NoSpuriousFailure
  BY DEF Walked, NoSpuriousFailure
<1> QED
  BY <1>1, <1>2, <1>3, TypeCorrect, PTL DEF Spec

-----------------------------------------------------------------------------
\* FirstAccepted is strengthened with where each request stands: one that took
\* its rung from the cache took the first one, one that walks the ladder with a
\* live context has passed refused rungs only, and the only request that still
\* evicts is one whose context ended under a rung that works.
Undisturbed ==
    settled =>
        /\ cached # NoEntry => FirstRung(cached)
        /\ \A r \in Requests :
             /\ pc[r] \in {"cached", "store", "read", "served"} => FirstRung(index[r])
             /\ pc[r] = "ladder" /\ r \notin cancelled =>
                  \A j \in live : index[r] <= j
             /\ pc[r] = "evict" => r \in cancelled

\* A query that fails in an undisturbed process was refused by the schema or by
\* its own context.
LEMMA UndisturbedFault ==
    ASSUME NEW r \in Requests, Faults(r), settled'
    PROVE  /\ index[r] \notin live \/ r \in cancelled
           /\ settled
  BY DEF Faults, Accepted

LEMMA UndisturbedStep == TypeOK /\ Undisturbed /\ [Next]_vars => Undisturbed'
<1> SUFFICES ASSUME TypeOK, Undisturbed, [Next]_vars, settled' PROVE Undisturbed'
  BY DEF Undisturbed
<1> USE DEF Undisturbed, FirstRung, TypeOK
<1>1. ASSUME NEW r \in Requests, Begin(r) PROVE Undisturbed'
  <2>1. 1 \in 1..N /\ \A j \in live : j \in 1..N /\ 1 <= j
    BY LadderAssumption, SchemasAssumption
  <2> QED
    BY <1>1, <2>1 DEF Begin, NoEntry
<1>2. ASSUME NEW r \in Requests, CachedServes(r) PROVE Undisturbed'
  BY <1>2 DEF CachedServes, Succeeds
<1>3. ASSUME NEW r \in Requests, CachedFails(r) PROVE Undisturbed'
  <2>1. settled /\ (index[r] \notin live \/ r \in cancelled)
    BY <1>3, UndisturbedFault DEF CachedFails
  <2> QED
    BY <1>3, <2>1 DEF CachedFails
<1>4. ASSUME NEW r \in Requests, Evict(r) PROVE Undisturbed'
  <2>1. \A j \in live : j \in 1..N /\ 1 <= j
    BY SchemasAssumption
  <2> QED
    BY <1>4, <2>1 DEF Evict
<1>5. ASSUME NEW r \in Requests, LadderFinds(r) PROVE Undisturbed'
  BY <1>5 DEF LadderFinds, Succeeds, Accepted
<1>6. ASSUME NEW r \in Requests, LadderFails(r) PROVE Undisturbed'
  <2>1. settled /\ (index[r] \notin live \/ r \in cancelled)
    BY <1>6, UndisturbedFault DEF LadderFails
  <2>2. live \subseteq 1..N /\ index[r] \in 1..N
    BY SchemasAssumption
  <2>3. r \notin cancelled => \A j \in live : index[r] + 1 <= j
    BY <1>6, <2>1, <2>2 DEF LadderFails
  <2> QED
    BY <1>6, <2>1, <2>3 DEF LadderFails
<1>7. ASSUME NEW r \in Requests, Store(r) PROVE Undisturbed'
  BY <1>7 DEF Store
<1>8. ASSUME NEW r \in Requests, ReadRows(r) PROVE Undisturbed'
  BY <1>8 DEF ReadRows
<1>9. ASSUME NEW r \in Requests, ReadFails(r) PROVE Undisturbed'
  BY <1>9 DEF ReadFails
<1>10. ASSUME NEW r \in Requests, Cancel(r) PROVE Undisturbed'
  BY <1>10 DEF Cancel
<1>11. CASE Migrate
  BY <1>11 DEF Migrate
<1>12. CASE Restart
  BY <1>12 DEF Restart
<1>13. CASE UNCHANGED vars
  BY <1>13 DEF vars
<1> QED
  BY <1>1, <1>2, <1>3, <1>4, <1>5, <1>6, <1>7, <1>8, <1>9, <1>10, <1>11, <1>12, <1>13
  DEF Next, Handler

LEMMA AlwaysUndisturbed == Spec => []Undisturbed
<1>1. Init => Undisturbed
  BY DEF Init, Undisturbed
<1> QED
  BY <1>1, UndisturbedStep, TypeCorrect, PTL DEF Spec

\* As long as the schema keeps its shape and no round trip is lost, cache and
\* answers stick to the first rung the schema accepts, however many requests
\* race and expire.
THEOREM KeepsFirstAccepted == Spec => []FirstAccepted
<1>1. Undisturbed => FirstAccepted
  BY DEF Undisturbed, FirstAccepted
<1> QED
  BY <1>1, AlwaysUndisturbed, PTL

\* Requests whose contexts are alive never cost each other the cached rung.
THEOREM KeepsWarm == Spec => WarmStaysWarm
<1>1. ASSUME TypeOK, Undisturbed, [Next]_vars, settled, settled', cancelled = {},
             cached # NoEntry, ~Restart
      PROVE  cached' = cached
  <2>1. FirstRung(cached)
    BY <1>1 DEF Undisturbed
  <2>2. ASSUME NEW r \in Requests, Evict(r) PROVE FALSE
    BY <1>1, <2>2 DEF Undisturbed, Evict
  <2>3. ASSUME NEW r \in Requests, Store(r) PROVE cached' = cached
    <3>1. FirstRung(index[r])
      BY <1>1, <2>3 DEF Undisturbed, Store
    <3>2. index[r] \in 1..N /\ cached \in 0..N
      BY <1>1 DEF TypeOK
    <3>3. index[r] = cached
      BY <2>1, <3>1, <3>2, LadderAssumption DEF FirstRung
    <3> QED
      BY <2>3, <3>3 DEF Store
  <2>4. ASSUME NEW r \in Requests,
               Begin(r) \/ CachedServes(r) \/ CachedFails(r) \/ LadderFinds(r)
               \/ LadderFails(r) \/ ReadRows(r) \/ ReadFails(r) \/ Cancel(r)
        PROVE  cached' = cached
    BY <2>4 DEF Begin, CachedServes, CachedFails, LadderFinds, LadderFails,
                ReadRows, ReadFails, Cancel
  <2>5. Migrate \/ UNCHANGED vars => cached' = cached
    BY DEF Migrate, vars
  <2> QED
    BY <1>1, <2>2, <2>3, <2>4, <2>5 DEF Next, Handler
<1> QED
  BY <1>1, TypeCorrect, AlwaysUndisturbed, PTL DEF Spec, WarmStaysWarm

-----------------------------------------------------------------------------
\* How many steps a request has left at most: a cached query, the eviction, one
\* query a rung, the store and the reading of the rows.
Left(r) ==
    CASE pc[r] = "cached"  -> N + 4
      [] pc[r] = "evict"   -> N + 3
      [] pc[r] = "ladder"  -> N - index[r] + 3
      [] pc[r] = "store"   -> 2
      [] pc[r] = "read"    -> 1
      [] pc[r] \in Resting -> 0

LEMMA LeftType == ASSUME TypeOK, NEW r \in Requests PROVE Left(r) \in 0..(N + 4)
  BY LadderAssumption DEF TypeOK, Left, Resting, InFlight

\* A step of a request is one less.
LEMMA StepAdvances ==
    ASSUME TypeOK, NEW r \in Requests, Handler(r)
    PROVE  Left(r)' < Left(r)
<1> USE LadderAssumption DEF TypeOK, Left, Resting, InFlight
<1>1. CASE CachedServes(r)
  BY <1>1 DEF CachedServes
<1>2. CASE CachedFails(r)
  BY <1>2 DEF CachedFails
<1>3. CASE Evict(r)
  BY <1>3 DEF Evict
<1>4. CASE LadderFinds(r)
  BY <1>4 DEF LadderFinds
<1>5. CASE LadderFails(r)
  BY <1>5 DEF LadderFails
<1>6. CASE Store(r)
  BY <1>6 DEF Store
<1>7. CASE ReadRows(r)
  BY <1>7 DEF ReadRows
<1>8. CASE ReadFails(r)
  BY <1>8 DEF ReadFails
<1> QED
  BY <1>1, <1>2, <1>3, <1>4, <1>5, <1>6, <1>7, <1>8 DEF Handler

\* The steps of others leave it alone, unless they end the process.
LEMMA OthersKeepLeft ==
    ASSUME TypeOK, NEW r \in Requests, NEW q \in Requests \ {r}, Begin(q) \/ Handler(q)
    PROVE  pc'[r] = pc[r] /\ index'[r] = index[r]
  BY DEF TypeOK, Handler, Begin, CachedServes, CachedFails, Evict, LadderFinds,
         LadderFails, Store, ReadRows, ReadFails

\* A request never circles: it takes at most N + 4 steps, each of its steps is
\* one less to take, and nothing that other requests, migrations, cancellations
\* or restarts do adds one, whatever becomes of the cache meanwhile.
THEOREM NeverCircles ==
    Spec => [][ \A r \in Requests :
                   /\ Left(r) \in 0..(N + 4)
                   /\ Handler(r) => Left(r)' < Left(r)
                   /\ pc[r] \in InFlight => Left(r)' <= Left(r) ]_vars
<1>1. ASSUME TypeOK, TypeOK', [Next]_vars, NEW r \in Requests, pc[r] \in InFlight
      PROVE  Left(r)' <= Left(r)
  <2>1. Left(r) \in 0..(N + 4) /\ Left(r)' \in 0..(N + 4)
    BY <1>1, LeftType, LadderAssumption DEF TypeOK, Left, Resting, InFlight
  <2>2. CASE Handler(r)
    BY <2>1, <2>2, <1>1, StepAdvances, LadderAssumption
  <2>3. CASE pc'[r] = pc[r] /\ index'[r] = index[r]
    <3>1. Left(r)' = Left(r)
      BY <1>1, <2>3 DEF Left, TypeOK, Resting, InFlight
    <3> QED
      BY <2>1, <3>1, LadderAssumption
  <2>4. CASE Restart
    <3>1. Left(r)' = 0
      BY <2>4 DEF Restart, Left, Resting
    <3> QED
      BY <2>1, <3>1, LadderAssumption
  <2>5. ~Begin(r)
    BY <1>1 DEF Begin, Resting, InFlight
  <2>6. (\E q \in Requests : Cancel(q)) \/ Migrate \/ UNCHANGED vars
           => pc'[r] = pc[r] /\ index'[r] = index[r]
    BY DEF Cancel, Migrate, vars
  <2> QED
    BY <1>1, <2>2, <2>3, <2>4, <2>5, <2>6, OthersKeepLeft DEF Next
<1>2. TypeOK /\ TypeOK' /\ [Next]_vars =>
        \A r \in Requests : /\ Left(r) \in 0..(N + 4)
                            /\ Handler(r) => Left(r)' < Left(r)
                            /\ pc[r] \in InFlight => Left(r)' <= Left(r)
  BY <1>1, LeftType, StepAdvances
<1> QED
  BY <1>2, TypeCorrect, PTL DEF Spec
=============================================================================
