-------------------------- MODULE AdminAuthProofs --------------------------
(***************************************************************************)
(* What holds of admin tokens for every resolution of the clock, every     *)
(* session length and every choice of secrets.                             *)
(***************************************************************************)
EXTENDS AdminAuth, TLAPS

\* Second counts whole seconds: a tick lies in its second.
LEMMA SecondBounds ==
    ASSUME NEW t \in Nat
    PROVE  /\ Second(t) \in Nat
           /\ TicksPerSecond * Second(t) <= t
           /\ t < TicksPerSecond * Second(t) + TicksPerSecond
  BY ClockAssumption DEF Second

\* An instant whose second is earlier than that of u is earlier than u.
LEMMA EarlierSecond ==
    ASSUME NEW t \in Nat, NEW u \in Nat, Second(t) < Second(u)
    PROVE  t < u
<1>1. Second(t) + 1 <= Second(u) /\ Second(t) \in Nat /\ Second(u) \in Nat
  BY SecondBounds
<1>2. TicksPerSecond * (Second(t) + 1) <= TicksPerSecond * Second(u)
  BY <1>1, ClockAssumption
<1>3. TicksPerSecond * (Second(t) + 1) = TicksPerSecond * Second(t) + TicksPerSecond
  BY <1>1, ClockAssumption
<1> QED
  BY <1>2, <1>3, SecondBounds, ClockAssumption

\* An instant whose second is not earlier than that of u is less than a second
\* earlier than u.
LEMMA LateSecond ==
    ASSUME NEW t \in Nat, NEW u \in Nat, Second(u) <= Second(t)
    PROVE  u < t + TicksPerSecond
<1>1. Second(t) \in Nat /\ Second(u) \in Nat
  BY SecondBounds
<1>2. TicksPerSecond * Second(u) <= TicksPerSecond * Second(t)
  BY <1>1, ClockAssumption
<1> QED
  BY <1>1, <1>2, SecondBounds, ClockAssumption

-----------------------------------------------------------------------------
\* The shape of the state is kept by every step.
THEOREM TypeCorrect == Spec => []TypeOK
<1>1. Init => TypeOK
  BY DEF Init, TypeOK
<1>2. TypeOK /\ [Next]_vars => TypeOK'
  <2> SUFFICES ASSUME TypeOK, [Next]_vars PROVE TypeOK'
    OBVIOUS
  <2> USE DEF TypeOK
  <2>1. CASE Login
    <3> DEFINE token == [exp |-> Second(now + SessionTTL(config)), secret |-> config.secret,
                         at |-> now, ttl |-> SessionTTL(config)]
    <3>1. config.ttl \in Int /\ config.secret \in Secrets
      BY <2>1, ClockAssumption DEF Login, Environments
    <3>2. SessionTTL(config) \in 1..MaxSession
      BY <3>1, ClockAssumption DEF SessionTTL
    <3>3. Second(now + SessionTTL(config)) \in Nat
      BY <3>2, SecondBounds, ClockAssumption
    <3>4. token \in TokenType
      BY <3>1, <3>2, <3>3 DEF TokenType
    <3>5. minted' \subseteq TokenType
      BY <2>1, <3>4 DEF Login
    <3> QED
      BY <2>1, <3>5 DEF Login
  <2>2. ASSUME NEW r \in Requests, Receive(r) PROVE TypeOK'
    <3>1. PICK x \in StaticTokens \cup minted \cup {None},
               a \in StaticTokens \cup minted \cup {None} :
                 provided' = [provided EXCEPT ![r] = Extract(x, a)]
      BY <2>2 DEF Receive
    <3>2. provided' \in [Requests -> StaticTokens \cup TokenType \cup {None}]
      BY <3>1 DEF Extract
    <3> QED
      BY <2>2, <3>2 DEF Receive
  <2>3. ASSUME NEW r \in Requests, Gate(r) PROVE TypeOK'
    <3>1. /\ pc' \in [Requests -> {"idle", "gate", "report", "done"}]
          /\ status' \in [Requests -> {0, 200, 401, 500}]
      BY <2>3 DEF Gate, Refuse
    <3> QED
      BY <2>3, <3>1 DEF Gate
  <2>4. ASSUME NEW r \in Requests, Report(r) PROVE TypeOK'
    BY <2>4 DEF Report
  <2>5. CASE Tick
    BY <2>5 DEF Tick
  <2>6. CASE Restart
    BY <2>6 DEF Restart
  <2>7. CASE UNCHANGED vars
    BY <2>7 DEF vars
  <2> QED
    BY <2>1, <2>2, <2>3, <2>4, <2>5, <2>6, <2>7 DEF Next
<1> QED
  BY <1>1, <1>2, PTL DEF Spec

-----------------------------------------------------------------------------
\* What a token's expiry is, and how each verdict of the gate relates the clock it
\* read to the token's session.  A verdict outlives the moment: the strengthening
\* records that a client presents only tokens that were issued to it.
Issued == \A m \in minted : m.exp = Second(m.at + m.ttl)

LetIn(r) ==
    \/ provided[r] \in StaticTokens /\ provided[r] = config.static
    \/ /\ provided[r] \in minted
       /\ provided[r].secret = config.secret
       /\ gateAt[r] < provided[r].at + provided[r].ttl

KeptOut(r) ==
    provided[r] \in minted /\ provided[r].secret = config.secret =>
        gateAt[r] + TicksPerSecond > provided[r].at + provided[r].ttl

Verdict(r) ==
    /\ provided[r] \in StaticTokens \cup minted \cup {None}
    /\ pc[r] \in {"idle", "gate"} => status[r] = 0
    /\ pc[r] = "report" => status[r] = 0
    /\ pc[r] = "report" \/ status[r] = 200 => LetIn(r)
    /\ status[r] = 401 => KeptOut(r)

Judged == Issued /\ \A r \in Requests : Verdict(r)

\* A token whose expiry has not come is within its session; one whose expiry has
\* come is within a second of its end.
LEMMA ExpiryIsSession ==
    ASSUME TypeOK, Issued, NEW m \in minted
    PROVE  /\ m.exp > Second(now) => now < m.at + m.ttl
           /\ ~(m.exp > Second(now)) => now + TicksPerSecond > m.at + m.ttl
<1>1. m.exp = Second(m.at + m.ttl) /\ m.at + m.ttl \in Nat /\ now \in Nat
  BY ClockAssumption DEF Issued, TypeOK, TokenType
<1>2. Second(now) \in Nat /\ Second(m.at + m.ttl) \in Nat
  BY <1>1, SecondBounds
<1>3. ASSUME m.exp > Second(now) PROVE now < m.at + m.ttl
  BY <1>1, <1>2, <1>3, EarlierSecond
<1>4. ASSUME ~(m.exp > Second(now)) PROVE now + TicksPerSecond > m.at + m.ttl
  <2>1. Second(m.at + m.ttl) <= Second(now)
    BY <1>1, <1>2, <1>4
  <2>2. m.at + m.ttl < now + TicksPerSecond
    BY <1>1, <2>1, LateSecond
  <2> QED
    BY <1>1, <2>2, ClockAssumption
<1> QED
  BY <1>3, <1>4

LEMMA JudgedStep == TypeOK /\ Judged /\ [Next]_vars => Judged'
<1> SUFFICES ASSUME TypeOK, Judged, [Next]_vars PROVE Judged'
  OBVIOUS
<1>0. Issued /\ \A q \in Requests : Verdict(q)
  BY DEF Judged
<1>1. CASE Login
  <2> DEFINE token == [exp |-> Second(now + SessionTTL(config)), secret |-> config.secret,
                       at |-> now, ttl |-> SessionTTL(config)]
  <2>1. minted' = minted \cup {token}
    BY <1>1 DEF Login
  <2>2. Issued'
    BY <1>0, <2>1 DEF Issued, Second
  <2>3. UNCHANGED <<config, pc, provided, status, gateAt>>
    BY <1>1 DEF Login
  <2>4. token \in TokenType
    <3>1. config.ttl \in Int /\ config.secret \in Secrets
      BY <1>1, ClockAssumption DEF Login, Environments, TypeOK
    <3>2. SessionTTL(config) \in 1..MaxSession
      BY <3>1, ClockAssumption DEF SessionTTL
    <3>3. Second(now + SessionTTL(config)) \in Nat
      BY <3>2, SecondBounds, ClockAssumption DEF TypeOK
    <3> QED
      BY <3>1, <3>2, <3>3 DEF TokenType, TypeOK
  <2>5. ASSUME NEW q \in Requests PROVE Verdict(q)'
    <3>1. provided[q] \in minted' => provided[q] \in minted \/ provided[q] = token
      BY <2>1
    <3>2. provided[q] \in minted' => provided[q] \in minted
      BY <1>0, <2>4, <3>1, NamesAssumption DEF Verdict
    <3> QED
      BY <1>0, <2>1, <2>3, <3>2 DEF Verdict, LetIn, KeptOut
  <2> QED
    BY <2>2, <2>5 DEF Judged
<1>2. ASSUME NEW r \in Requests, Receive(r) PROVE Judged'
  <2>1. PICK x \in StaticTokens \cup minted \cup {None},
             a \in StaticTokens \cup minted \cup {None} :
               provided' = [provided EXCEPT ![r] = Extract(x, a)]
    BY <1>2 DEF Receive
  <2>2. Verdict(r)'
    BY <1>2, <2>1 DEF Receive, Verdict, Extract, TypeOK
  <2>3. ASSUME NEW q \in Requests \ {r} PROVE Verdict(q)'
    BY <1>0, <1>2, <2>1 DEF Receive, Verdict, LetIn, KeptOut, TypeOK
  <2>4. Issued'
    BY <1>0, <1>2 DEF Receive, Issued, Second
  <2> QED
    BY <2>2, <2>3, <2>4 DEF Judged
<1>3. ASSUME NEW r \in Requests, Gate(r) PROVE Judged'
  <2>0. /\ pc[r] = "gate" /\ gateAt'[r] = now /\ UNCHANGED <<now, config, minted, provided>>
        /\ status[r] = 0 /\ provided[r] \in StaticTokens \cup minted \cup {None}
    BY <1>0, <1>3 DEF Gate, TypeOK, Verdict
  <2>1. ASSUME Refuse(r, 500) PROVE Verdict(r)'
    BY <2>0, <2>1 DEF Refuse, Verdict, TypeOK
  <2>2. ASSUME Admissible(provided[r]), pc'[r] = "report", UNCHANGED status
        PROVE  Verdict(r)'
    <3>1. LetIn(r)'
      <4>1. CASE config.static # None /\ provided[r] = config.static
        BY <2>0, <4>1 DEF LetIn, TypeOK, Environments
      <4>2. CASE config.secret # None /\ Verified(provided[r], config.secret)
        <5>1. now < provided[r].at + provided[r].ttl
          BY <1>0, <4>2, ExpiryIsSession DEF Verified
        <5> QED
          BY <2>0, <4>2, <5>1 DEF LetIn, Verified
      <4> QED
        BY <2>2, <4>1, <4>2 DEF Admissible
    <3> QED
      BY <2>0, <2>2, <3>1 DEF Verdict
  <2>3. ASSUME ~Admissible(provided[r]), Refuse(r, 401) PROVE Verdict(r)'
    <3>1. KeptOut(r)'
      <4> SUFFICES ASSUME provided[r] \in minted, provided[r].secret = config.secret
                   PROVE  now + TicksPerSecond > provided[r].at + provided[r].ttl
        BY <2>0 DEF KeptOut
      <4>1. config.secret # None
        BY NamesAssumption DEF TypeOK, TokenType
      <4>2. ~(provided[r].exp > Second(now))
        BY <2>3, <4>1 DEF Admissible, Verified
      <4> QED
        BY <1>0, <4>2, ExpiryIsSession
    <3>2. pc'[r] = "done" /\ status'[r] = 401
      BY <2>3 DEF Refuse, TypeOK
    <3> QED
      BY <2>0, <3>1, <3>2 DEF Verdict
  <2>4. Verdict(r)'
    <3>1. CASE ~Configured(config)
      BY <1>3, <2>1, <3>1 DEF Gate
    <3>2. CASE Configured(config) /\ Admissible(provided[r])
      <4>1. pc' = [pc EXCEPT ![r] = "report"] /\ UNCHANGED status
        BY <1>3, <3>2 DEF Gate
      <4>2. pc'[r] = "report"
        BY <4>1 DEF TypeOK
      <4> QED
        BY <2>2, <3>2, <4>1, <4>2
    <3>3. CASE Configured(config) /\ ~Admissible(provided[r])
      BY <1>3, <2>3, <3>3 DEF Gate
    <3> QED
      BY <3>1, <3>2, <3>3
  <2>5. ASSUME NEW q \in Requests \ {r} PROVE Verdict(q)'
    <3>0. \/ Refuse(r, 500) \/ Refuse(r, 401)
          \/ pc' = [pc EXCEPT ![r] = "report"] /\ UNCHANGED status
      BY <1>3 DEF Gate
    <3>1. /\ pc'[q] = pc[q] /\ status'[q] = status[q] /\ gateAt'[q] = gateAt[q]
      BY <1>3, <3>0 DEF Gate, Refuse, TypeOK
    <3> QED
      BY <1>0, <2>0, <3>1 DEF Verdict, LetIn, KeptOut
  <2>6. Issued'
    BY <1>0, <2>0 DEF Issued, Second
  <2> QED
    BY <2>4, <2>5, <2>6 DEF Judged
<1>4. ASSUME NEW r \in Requests, Report(r) PROVE Judged'
  <2>1. \A q \in Requests : Verdict(q)'
    BY <1>0, <1>4 DEF Report, Verdict, LetIn, KeptOut, TypeOK
  <2>2. Issued'
    BY <1>0, <1>4 DEF Report, Issued, Second
  <2> QED
    BY <2>1, <2>2 DEF Judged
<1>5. CASE Restart
  BY <1>0, <1>5 DEF Restart, Judged, Issued, Second, Verdict
<1>6. CASE Tick \/ UNCHANGED vars
  BY <1>0, <1>6 DEF Tick, vars, Judged, Issued, Second, Verdict, LetIn, KeptOut
<1> QED
  BY <1>1, <1>2, <1>3, <1>4, <1>5, <1>6 DEF Next

LEMMA AlwaysJudged == Spec => []Judged
<1>1. Init => Judged
  BY DEF Init, Judged, Issued, Verdict
<1> QED
  BY <1>1, JudgedStep, TypeCorrect, PTL DEF Spec

\* No token is let in past its session, or under another secret than it was signed
\* with, at any resolution of the clock.
THEOREM TokensNeverOutlive == Spec => []NeverOutlives
<1>1. TypeOK /\ Judged => NeverOutlives
  <2> SUFFICES ASSUME TypeOK, Judged, NEW r \in Requests,
                      pc[r] = "report" \/ status[r] = 200
               PROVE  \/ provided[r] \in StaticTokens /\ provided[r] = config.static
                      \/ /\ provided[r] \in minted
                         /\ provided[r].secret = config.secret
                         /\ gateAt[r] < provided[r].at + provided[r].ttl
                         /\ provided[r].ttl <= MaxSession
    BY DEF NeverOutlives
  <2>1. LetIn(r)
    BY DEF Judged, Verdict
  <2>2. provided[r] \in minted => provided[r].ttl <= MaxSession
    BY ClockAssumption DEF TypeOK, TokenType
  <2> QED
    BY <2>1, <2>2 DEF LetIn
<1> QED
  BY <1>1, TypeCorrect, AlwaysJudged, PTL

\* No token of the present secret is refused a second or more before its session
\* ends.
THEOREM TokensNotCutShort == Spec => []NotCutShort
<1>1. Judged => NotCutShort
  BY DEF Judged, Verdict, KeptOut, NotCutShort
<1> QED
  BY <1>1, AlwaysJudged, PTL
=============================================================================
