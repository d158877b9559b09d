----------------------------- MODULE AdminAuth -----------------------------
(***************************************************************************)
(* Admin tokens: issuing, gating and reporting them                        *)
(* (src/internal/auth/auth.go, src/internal/handlers/admin_auth.go).       *)
(*                                                                         *)
(* The server keeps no session: a token carries its own expiry, in whole   *)
(* seconds, under a signature.  Configuration comes from the environment   *)
(* of the process and so changes only when the process is restarted, while *)
(* clients keep their tokens.  Time passes between any two steps, in ticks *)
(* shorter than a second; a handler that verifies twice reads the clock    *)
(* twice.                                                                  *)
(***************************************************************************)
EXTENDS Integers, FiniteSets

CONSTANTS
    Requests,           \* requests to GET /admin/auth/me in flight together
    TicksPerSecond,     \* the clock's resolution
    StaticTokens,       \* the values ADMIN_TOKEN may have
    Secrets,            \* the values JWT_SECRET may have
    None,               \* an unset variable or an absent header
    TTLSettings,        \* the durations, in ticks, ADMIN_SESSION_TTL may parse to
                        \*   (0 when unset or unreadable)
    DefaultSession,     \* the session when the setting is no positive duration
    MaxSession,         \* the longest session a setting can ask for
    MaxNow, MaxTokens   \* bounds for model checking: the clock, tokens issued

ASSUME ClockAssumption ==
    /\ TicksPerSecond \in Nat \ {0}
    /\ MaxNow \in Nat
    /\ TTLSettings \subseteq Int
    /\ MaxSession \in Nat \ {0} /\ DefaultSession \in 1..MaxSession

\* What LoadConfig reads from the environment: the static token, whether there
\* are a username and a password, the signing secret and the session's length.
Environments ==
    [static : StaticTokens \cup {None}, credentials : BOOLEAN,
     secret : Secrets \cup {None}, ttl : TTLSettings]

\* LoadConfig fails when there is no way to authenticate at all.
Configured(c) ==
    c.static # None \/ (c.credentials /\ c.secret # None)

\* Mutant: a setting that is not positive is taken as it is.
SessionTTLAsSet(c) ==
    IF c.ttl > MaxSession THEN MaxSession ELSE c.ttl

\* resolveSessionTTL
SessionTTL(c) ==
    IF c.ttl <= 0 THEN DefaultSession
    ELSE IF c.ttl > MaxSession THEN MaxSession
    ELSE c.ttl

\* A token minted by IssueAccessToken: its claim exp and the secret that signed
\* it; at and ttl, in ticks, are history.
TokenType ==
    [exp : Nat, secret : Secrets, at : Nat, ttl : 1..MaxSession]

\* A static token is not of the minted form.
ASSUME NamesAssumption ==
    /\ None \notin StaticTokens \cup Secrets
    /\ \A t \in StaticTokens \cup {None} : t \notin TokenType

VARIABLES
    now,        \* the clock, in ticks
    config,     \* the environment of the running process
    minted,     \* the tokens issued so far; clients keep them across restarts
    pc,         \* where each request is in its handler
    provided,   \* the token ExtractToken finds in it
    status,     \* the status of its reply
    authType,   \* the auth_type reported to it
    gateAt      \* history: when RequireToken looked at it

vars == <<now, config, minted, pc, provided, status, authType, gateAt>>

Second(t) == t \div TicksPerSecond

Init ==
    /\ now = 0
    /\ config \in Environments
    /\ minted = {}
    /\ pc = [r \in Requests |-> "idle"]
    /\ provided = [r \in Requests |-> None]
    /\ status = [r \in Requests |-> 0]
    /\ authType = [r \in Requests |-> "none"]
    /\ gateAt = [r \in Requests |-> 0]

\* Mutant: a token still passes in the second it expires in.
VerifiedToTheSecond(token, secret) ==
    /\ token \in minted
    /\ token.secret = secret
    /\ token.exp >= Second(now)

\* VerifyAccessToken, at the time it is called: the signature is the secret's and
\* the expiry, in whole seconds, has not come.
Verified(token, secret) ==
    /\ token \in minted
    /\ token.secret = secret
    /\ token.exp > Second(now)

\* Mutant: the issue and the session are rounded separately.
LoginRoundedTwice ==
    /\ Configured(config)
    /\ config.credentials
    /\ config.secret # None
    /\ Cardinality(minted) < MaxTokens
    /\ minted' = minted \cup
         {[exp |-> Second(now) + Second(SessionTTL(config)), secret |-> config.secret,
           at |-> now, ttl |-> SessionTTL(config)]}
    /\ UNCHANGED <<now, config, pc, provided, status, authType, gateAt>>

\* POST /admin/auth/login with the right credentials.  (Any other login changes
\* nothing: 500 unless Configured, 503 without credentials or secret, 401.)
Login ==
    /\ Configured(config)
    /\ config.credentials
    /\ config.secret # None
    /\ Cardinality(minted) < MaxTokens
    /\ minted' = minted \cup
         {[exp |-> Second(now + SessionTTL(config)), secret |-> config.secret,
           at |-> now, ttl |-> SessionTTL(config)]}
    /\ UNCHANGED <<now, config, pc, provided, status, authType, gateAt>>

\* ExtractToken: X-Admin-Token, when present, hides Authorization.
Extract(xAdminToken, authorization) ==
    IF xAdminToken # None THEN xAdminToken ELSE authorization

Receive(r) ==
    /\ pc[r] \in {"idle", "done"}
    /\ pc' = [pc EXCEPT ![r] = "gate"]
    /\ \E x, a \in StaticTokens \cup minted \cup {None} :
         provided' = [provided EXCEPT ![r] = Extract(x, a)]
    /\ status' = [status EXCEPT ![r] = 0]
    /\ authType' = [authType EXCEPT ![r] = "none"]
    /\ UNCHANGED <<now, config, minted, gateAt>>

\* RequireToken writes the refusal itself.
Refuse(r, code) ==
    /\ pc' = [pc EXCEPT ![r] = "done"]
    /\ status' = [status EXCEPT ![r] = code]

Admissible(token) ==
    \/ config.static # None /\ token = config.static
    \/ config.secret # None /\ Verified(token, config.secret)

Gate(r) ==
    /\ pc[r] = "gate"
    /\ gateAt' = [gateAt EXCEPT ![r] = now]
    /\ CASE ~Configured(config) -> Refuse(r, 500)
         [] Configured(config) /\ Admissible(provided[r]) ->
              pc' = [pc EXCEPT ![r] = "report"] /\ UNCHANGED status
         [] OTHER -> Refuse(r, 401)
    /\ UNCHANGED <<now, config, minted, provided, authType>>

\* The handler of /admin/auth/me, past the gate, verifies the token anew to tell
\* what kind it is.
Report(r) ==
    /\ pc[r] = "report"
    /\ authType' = [authType EXCEPT ![r] =
         IF config.secret # None /\ Verified(provided[r], config.secret)
           THEN "bearer" ELSE "static_token"]
    /\ pc' = [pc EXCEPT ![r] = "done"]
    /\ status' = [status EXCEPT ![r] = 200]
    /\ UNCHANGED <<now, config, minted, provided, gateAt>>

Tick ==
    /\ now < MaxNow
    /\ now' = now + 1
    /\ UNCHANGED <<config, minted, pc, provided, status, authType, gateAt>>

\* The process is started again, perhaps with another environment; what it was
\* answering is lost.
Restart ==
    /\ config' \in Environments
    /\ pc' = [r \in Requests |-> "idle"]
    /\ provided' = [r \in Requests |-> None]
    /\ status' = [r \in Requests |-> 0]
    /\ authType' = [r \in Requests |-> "none"]
    /\ gateAt' = [r \in Requests |-> 0]
    /\ UNCHANGED <<now, minted>>

Next ==
    \/ Login
    \/ \E r \in Requests : Receive(r) \/ Gate(r) \/ Report(r)
    \/ Tick
    \/ Restart

Spec == Init /\ [][Next]_vars

-----------------------------------------------------------------------------
\* Properties.

\* The shape of the state.
TypeOK ==
    /\ now \in Nat
    /\ config \in Environments
    /\ minted \subseteq TokenType
    /\ pc \in [Requests -> {"idle", "gate", "report", "done"}]
    /\ provided \in [Requests -> StaticTokens \cup TokenType \cup {None}]
    /\ status \in [Requests -> {0, 200, 401, 500}]
    /\ authType \in [Requests -> {"none", "bearer", "static_token"}]
    /\ gateAt \in [Requests -> Nat]

\* The gate lets a request in only with the configured static token, or with a
\* token signed with the secret of this process, in a real time since its issue
\* shorter than the session it was issued for, itself no longer than MaxSession:
\* rounding the expiry to seconds never makes a token outlive its session, and
\* rotating the secret revokes it.
NeverOutlives ==
    \A r \in Requests :
        pc[r] = "report" \/ status[r] = 200 =>
            \/ provided[r] \in StaticTokens /\ provided[r] = config.static
            \/ /\ provided[r] \in minted
               /\ provided[r].secret = config.secret
               /\ gateAt[r] < provided[r].at + provided[r].ttl
               /\ provided[r].ttl <= MaxSession

\* A token issued under the present secret is refused no earlier than one second
\* before the end of its session.  (A session shorter than a second may be over
\* before it begins.)
NotCutShort ==
    \A r \in Requests :
        /\ status[r] = 401
        /\ provided[r] \in minted
        /\ provided[r].secret = config.secret
        => gateAt[r] + TicksPerSecond > provided[r].at + provided[r].ttl

\* What POSTMAN_AUTH.md says of GET /admin/auth/me: a bearer token that is let in
\* is reported as a bearer token.
BearerIsBearer ==
    \A r \in Requests :
        status[r] = 200 /\ provided[r] \in minted => authType[r] = "bearer"
=============================================================================
