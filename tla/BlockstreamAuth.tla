-------------------------- MODULE BlockstreamAuth --------------------------
(***************************************************************************)
(* The OAuth token shared by every upstream Esplora request                *)
(* (src/lib/esplora/BlockstreamAuth.ts).  One process-wide object caches   *)
(* the token; concurrent request handlers call getAccessToken, share one   *)
(* promise while a fetch is under way, and drop the token when the         *)
(* upstream answers 401 or 403.                                            *)
(*                                                                         *)
(* JavaScript interleaves the handlers only at awaits, so an action is one *)
(* synchronous stretch of code.  Time is an integer clock.                 *)
(***************************************************************************)
EXTENDS Integers

CONSTANTS
    Callers,      \* concurrent request handlers
    JwtLives,     \* lifetimes an issuer may put in a JWT's exp (may be <= 0)
    OpaqueLives,  \* lifetimes an issuer may put in expires_in
    Cooldown,     \* errorCooldownMs
    ExpSkew,      \* TOKEN_EXP_SKEW_MS
    MinLife,      \* the 30 seconds of the opaque-token arithmetic
    MaxTime       \* bound on the clock and on the time of the last failure

ASSUME AuthAssumption ==
    /\ JwtLives \subseteq Int
    /\ OpaqueLives \subseteq Nat
    /\ Cooldown \in Nat
    /\ ExpSkew \in Nat
    /\ MinLife \in Nat \ {0}
    /\ MaxTime \in Nat

VARIABLES
    now,          \* Date.now()
    token,        \* this.token
    expiresAt,    \* this.expiresAt
    inFlight,     \* what the promise in this.inFlight is doing
    wakeAt,       \* when the cooldown timer may fire
    lastErrorAt,  \* this.lastErrorAt, Never while this.lastError is null
    caller,       \* where each handler is in its use of the token
    held,         \* the token a handler puts in its Authorization header
    fetches,      \* ghost: token requests the issuer has not finished
    failedAt      \* ghost: when a fetch last failed

vars == <<now, token, expiresAt, inFlight, wakeAt, lastErrorAt,
          caller, held, fetches, failedAt>>

Never == -1
NoToken == [jwt |-> FALSE, issued |-> Never, exp |-> Never]
Token == [jwt : BOOLEAN, issued : Int, exp : Int]

MaxOf(a, b) == IF a >= b THEN a ELSE b

TypeOK ==
    /\ now \in Nat
    /\ token \in Token
    /\ expiresAt \in Int
    /\ inFlight \in {"none", "cooling", "requesting", "reading"}
    /\ wakeAt \in Int
    /\ lastErrorAt \in Nat \cup {Never}
    /\ caller \in [Callers -> {"idle", "waiting", "holding", "failed"}]
    /\ held \in [Callers -> Token]
    /\ fetches \in Nat
    /\ failedAt \in Nat \cup {Never}

Init ==
    /\ now = 0
    /\ token = NoToken
    /\ expiresAt = 0
    /\ inFlight = "none"
    /\ wakeAt = 0
    /\ lastErrorAt = Never
    /\ caller = [c \in Callers |-> "idle"]
    /\ held = [c \in Callers |-> NoToken]
    /\ fetches = 0
    /\ failedAt = Never

-----------------------------------------------------------------------------
(* getAccessToken, by the branch it takes *)

CachedTokenValid == token # NoToken /\ now < expiresAt
CoolingDown == lastErrorAt # Never /\ now - lastErrorAt < Cooldown

\* A fetch, or a cooldown that leads to one, is already under way: share it.
JoinInFlight(c) ==
    /\ caller[c] = "idle"
    /\ inFlight # "none"
    /\ caller' = [caller EXCEPT ![c] = "waiting"]
    /\ UNCHANGED <<now, token, expiresAt, inFlight, wakeAt, lastErrorAt,
                   held, fetches, failedAt>>

ReturnCached(c) ==
    /\ caller[c] = "idle"
    /\ inFlight = "none"
    /\ CachedTokenValid
    /\ caller' = [caller EXCEPT ![c] = "holding"]
    /\ held' = [held EXCEPT ![c] = token]
    /\ UNCHANGED <<now, token, expiresAt, inFlight, wakeAt, lastErrorAt,
                   fetches, failedAt>>

\* Mutant: the timer is armed with no delay.
DeferFetchAtOnce(c) ==
    /\ caller[c] = "idle"
    /\ inFlight = "none"
    /\ ~CachedTokenValid
    /\ CoolingDown
    /\ inFlight' = "cooling"
    /\ wakeAt' = now
    /\ caller' = [caller EXCEPT ![c] = "waiting"]
    /\ UNCHANGED <<now, token, expiresAt, lastErrorAt, held, fetches, failedAt>>

\* Within the cooldown of a failure the promise first waits out the rest of it.
DeferFetch(c) ==
    /\ caller[c] = "idle"
    /\ inFlight = "none"
    /\ ~CachedTokenValid
    /\ CoolingDown
    /\ inFlight' = "cooling"
    /\ wakeAt' = lastErrorAt + Cooldown
    /\ caller' = [caller EXCEPT ![c] = "waiting"]
    /\ UNCHANGED <<now, token, expiresAt, lastErrorAt, held, fetches, failedAt>>

\* Mutant: the promise in this.inFlight is not looked at.
StartFetchUnguarded(c) ==
    /\ caller[c] = "idle"
    /\ ~CachedTokenValid
    /\ ~CoolingDown
    /\ inFlight' = "requesting"
    /\ fetches' = fetches + 1
    /\ caller' = [caller EXCEPT ![c] = "waiting"]
    /\ UNCHANGED <<now, token, expiresAt, wakeAt, lastErrorAt, held, failedAt>>

StartFetch(c) ==
    /\ caller[c] = "idle"
    /\ inFlight = "none"
    /\ ~CachedTokenValid
    /\ ~CoolingDown
    /\ inFlight' = "requesting"
    /\ fetches' = fetches + 1
    /\ caller' = [caller EXCEPT ![c] = "waiting"]
    /\ UNCHANGED <<now, token, expiresAt, wakeAt, lastErrorAt, held, failedAt>>

\* setTimeout fires no earlier than asked, then fetchToken runs.
CooldownEnds ==
    /\ inFlight = "cooling"
    /\ now >= wakeAt
    /\ inFlight' = "requesting"
    /\ fetches' = fetches + 1
    /\ wakeAt' = 0
    /\ UNCHANGED <<now, token, expiresAt, lastErrorAt, caller, held, failedAt>>

-----------------------------------------------------------------------------
(* fetchToken, from the issuer's answer to the settling of the promise *)

\* The promise settles: this.inFlight is cleared and every handler that
\* awaited it resumes, with the token or with the error.
Settle(outcome, t) ==
    /\ inFlight' = "none"
    /\ fetches' = fetches - 1
    /\ caller' = [c \in Callers |->
                    IF caller[c] = "waiting" THEN outcome ELSE caller[c]]
    /\ held' = [c \in Callers |->
                  IF caller[c] = "waiting" /\ outcome = "holding"
                  THEN t ELSE held[c]]

\* Mutant: the end of the cooldown is stored with the wrong sign.
RecordErrorBackwards ==
    /\ now <= MaxTime
    /\ lastErrorAt' = now - 2 * Cooldown
    /\ failedAt' = now

\* The bound: no failure is considered after MaxTime.
RecordError ==
    /\ now <= MaxTime
    /\ lastErrorAt' = now
    /\ failedAt' = now

ClearError ==
    /\ lastErrorAt' = Never
    /\ UNCHANGED failedAt

\* The response headers arrive before the abort timer; the timer is cleared
\* there, so nothing bounds how long the body takes.
HeadersArrive ==
    /\ inFlight = "requesting"
    /\ inFlight' = "reading"
    /\ UNCHANGED <<now, token, expiresAt, wakeAt, lastErrorAt, caller, held,
                   fetches, failedAt>>

\* Mutant: the failure is recorded but the promise is never rejected.
FetchFailsSilently ==
    /\ inFlight \in {"requesting", "reading"}
    /\ RecordError
    /\ inFlight' = "none"
    /\ fetches' = fetches - 1
    /\ UNCHANGED <<now, token, expiresAt, wakeAt, caller, held>>

\* The abort timer, a connection error, an error status, a body without a
\* usable access_token: all throw before this.token is assigned.
FetchFails ==
    /\ inFlight \in {"requesting", "reading"}
    /\ RecordError
    /\ Settle("failed", NoToken)
    /\ UNCHANGED <<now, token, expiresAt, wakeAt>>

NewToken(jwt, life) == [jwt |-> jwt, issued |-> now, exp |-> now + life]

\* A token whose expiry cannot be read from it: expires_in, less a tenth
\* and never less than MinLife.
OpaqueExpiry(life) == now + MaxOf(life - MaxOf(life \div 10, MinLife), MinLife)

OpaqueTokenArrives(life) ==
    LET t == NewToken(FALSE, life) IN
    /\ inFlight = "reading"
    /\ token' = t
    /\ expiresAt' = OpaqueExpiry(life)
    /\ ClearError
    /\ Settle("holding", t)
    /\ UNCHANGED <<now, wakeAt>>

JwtArrives(life) ==
    LET t == NewToken(TRUE, life) IN
    /\ inFlight = "reading"
    /\ now + life - ExpSkew > now
    /\ token' = t
    /\ expiresAt' = now + life - ExpSkew
    /\ ClearError
    /\ Settle("holding", t)
    /\ UNCHANGED <<now, wakeAt>>

\* this.token is assigned before the expiry is looked at: the throw leaves
\* the rejected token beside the old expiresAt.
ExpiredJwtArrives(life) ==
    LET t == NewToken(TRUE, life) IN
    /\ inFlight = "reading"
    /\ now + life - ExpSkew <= now
    /\ token' = t
    /\ RecordError
    /\ Settle("failed", NoToken)
    /\ UNCHANGED <<now, expiresAt, wakeAt>>

-----------------------------------------------------------------------------
(* The handlers, after getAccessToken (EsploraService.executeRequest) *)

Drop(c) ==
    /\ caller' = [caller EXCEPT ![c] = "idle"]
    /\ held' = [held EXCEPT ![c] = NoToken]

\* Mutant: expiresAt is not reset.
InvalidateTokenKeepsExpiry(c) ==
    /\ caller[c] = "holding"
    /\ token' = NoToken
    /\ Drop(c)
    /\ UNCHANGED <<now, expiresAt, inFlight, wakeAt, lastErrorAt, fetches,
                   failedAt>>

\* 401 or 403 from the upstream: whatever token is cached now is dropped,
\* also one that another handler has fetched since.
InvalidateToken(c) ==
    /\ caller[c] = "holding"
    /\ token' = NoToken
    /\ expiresAt' = 0
    /\ Drop(c)
    /\ UNCHANGED <<now, inFlight, wakeAt, lastErrorAt, fetches, failedAt>>

\* The handler is done, or will try again.
Release(c) ==
    /\ caller[c] \in {"holding", "failed"}
    /\ Drop(c)
    /\ UNCHANGED <<now, token, expiresAt, inFlight, wakeAt, lastErrorAt,
                   fetches, failedAt>>

\* MaxTime bounds the clock, except that a cooldown under way runs out.
Tick ==
    /\ now < MaxTime \/ (inFlight = "cooling" /\ now < wakeAt)
    /\ now' = now + 1
    /\ UNCHANGED <<token, expiresAt, inFlight, wakeAt, lastErrorAt, caller,
                   held, fetches, failedAt>>

GetAccessToken(c) ==
    JoinInFlight(c) \/ ReturnCached(c) \/ DeferFetch(c) \/ StartFetch(c)

FetchToken ==
    \/ HeadersArrive
    \/ FetchFails
    \/ \E life \in OpaqueLives : OpaqueTokenArrives(life)
    \/ \E life \in JwtLives : JwtArrives(life) \/ ExpiredJwtArrives(life)

Next ==
    \/ \E c \in Callers : GetAccessToken(c) \/ InvalidateToken(c) \/ Release(c)
    \/ CooldownEnds
    \/ FetchToken
    \/ Tick

Spec == Init /\ [][Next]_vars

\* The abort timer ends a request whose headers do not come; nothing ends a
\* body that does not.
Fairness ==
    /\ WF_vars(Tick)
    /\ WF_vars(CooldownEnds)
    /\ WF_vars(inFlight = "requesting" /\ (HeadersArrive \/ FetchFails))

FairSpec == Spec /\ Fairness

-----------------------------------------------------------------------------
(* Properties *)

\* However many handlers ask, join, fail and invalidate, the issuer never has
\* two token requests open, and one is open exactly while the shared promise
\* is fetching ("Set inFlight synchronously before any async operation to
\* prevent duplicate fetches").
SingleFetch ==
    fetches = IF inFlight \in {"requesting", "reading"} THEN 1 ELSE 0

\* No token request starts within the cooldown of the last one that failed,
\* whichever handler asks and whatever was invalidated in between ("Back off
\* briefly after a failed fetch to avoid retry storms").
NoRetryStorm ==
    [][fetches' > fetches => failedAt = Never \/ now - failedAt >= Cooldown]_vars

\* The last moment at which the code may hand a token out: the issuer's
\* expiry, or MinLife after issue for an opaque token that lives shorter.
UsableUntil(t) == IF t.jwt THEN t.exp ELSE MaxOf(t.exp, t.issued + MinLife)

\* The inductive invariant behind NoRetryStorm and ServedTokenIsLive.
\* Cooldown: once a fetch is under way the last failure lies a cooldown
\* back, and while the code has forgotten a failure (a success cleared
\* lastError) it does too; the timer is never armed too early.
CooldownInv ==
    /\ failedAt # Never => failedAt <= now
    /\ lastErrorAt \in {Never, failedAt}
    /\ lastErrorAt = Never => failedAt = Never \/ now - failedAt >= Cooldown
    /\ inFlight = "cooling" =>
         failedAt # Never /\ wakeAt >= failedAt + Cooldown
    /\ inFlight \in {"requesting", "reading"} =>
         failedAt = Never \/ now - failedAt >= Cooldown

\* Freshness: the moment up to which the cache answers with this.token is no
\* later than the token may be used, or it has passed; while a promise is
\* under way it has passed.
FreshnessInv ==
    /\ token = NoToken => expiresAt = 0
    /\ token # NoToken => expiresAt <= UsableUntil(token) \/ expiresAt <= now
    /\ inFlight # "none" => expiresAt <= now

AuthInv == SingleFetch /\ CooldownInv /\ FreshnessInv

\* A handler is never given a token that is already past its expiry, although
\* fetchToken stores a token before it has looked at the expiry and
\* invalidateToken may run while a fetch is under way.
ServedTokenIsLive ==
    [][\A c \in Callers :
         caller[c] # "holding" /\ caller'[c] = "holding"
           => held'[c] # NoToken /\ now < UsableUntil(held'[c])]_vars

\* A handler that waits is answered, unless the issuer's body stalls: the
\* shared promise can not be lost in the cooldown or in the request.
WaitersAnswered ==
    \A c \in Callers :
        caller[c] = "waiting"
            ~> caller[c] # "waiting" \/ inFlight = "reading"

\* What the 5 second limit of a token request is for: every handler that
\* waits for the token is answered.
RequestTimesOut ==
    \A c \in Callers :
        caller[c] = "waiting"
            ~> caller[c] # "waiting"
=============================================================================
