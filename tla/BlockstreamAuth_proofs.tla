----------------------- MODULE BlockstreamAuth_proofs -----------------------
(***************************************************************************)
(* What BlockstreamAuth guarantees for any number of handlers, any token   *)
(* lifetimes and any cooldown.                                             *)
(***************************************************************************)
EXTENDS BlockstreamAuth, TLAPS

-----------------------------------------------------------------------------
(* Tokens *)

LEMMA NoTokenType == NoToken \in Token
BY DEF NoToken, Token, Never

LEMMA MaxOfInt ==
    ASSUME NEW a \in Int, NEW b \in Int
    PROVE  MaxOf(a, b) \in Int /\ MaxOf(a, b) >= a /\ MaxOf(a, b) >= b
BY DEF MaxOf

\* The expiry the code gives an opaque token is one it may be used until:
\* its real expiry, or MinLife when that is later.
LEMMA OpaqueExpiryBound ==
    ASSUME NEW life \in Nat, now \in Nat
    PROVE  /\ OpaqueExpiry(life) \in Int
           /\ OpaqueExpiry(life) <= MaxOf(now + life, now + MinLife)
<1> USE AuthAssumption
<1>1. life \div 10 \in Int
  OBVIOUS
<1> DEFINE skew == MaxOf(life \div 10, MinLife)
<1>2. skew \in Int /\ skew >= MinLife
  BY <1>1, MaxOfInt
<1>3. skew >= 0
  BY <1>2
<1> HIDE DEF skew
<1>4. MaxOf(life - skew, MinLife) \in Int
  BY <1>2 DEF MaxOf
<1>5. MaxOf(life - skew, MinLife) <= MaxOf(life, MinLife)
  BY <1>2, <1>3 DEF MaxOf
<1>6. now + MaxOf(life, MinLife) = MaxOf(now + life, now + MinLife)
  BY DEF MaxOf
<1>7. OpaqueExpiry(life) = now + MaxOf(life - skew, MinLife)
  BY DEF OpaqueExpiry, skew
<1>8. MaxOf(life, MinLife) \in Int
  BY DEF MaxOf
<1> QED BY <1>4, <1>5, <1>6, <1>7, <1>8

\* A token the issuer sends now is well typed, is not the absent one, and has
\* the last moment of use its kind gives it.
LEMMA ArrivingToken ==
    ASSUME now \in Nat, NEW life \in Int, NEW b \in BOOLEAN
    PROVE  /\ NewToken(b, life) \in Token
           /\ NewToken(b, life) # NoToken
           /\ UsableUntil(NewToken(b, life)) =
                IF b THEN now + life ELSE MaxOf(now + life, now + MinLife)
<1>1. NewToken(b, life) \in Token
  BY DEF Token, NewToken
<1>2. /\ NewToken(b, life).jwt = b
      /\ NewToken(b, life).exp = now + life
      /\ NewToken(b, life).issued = now
  BY DEF NewToken
<1>3. NoToken.issued = Never
  BY DEF NoToken
<1> QED BY <1>1, <1>2, <1>3 DEF UsableUntil, Never

-----------------------------------------------------------------------------
(* Types *)

LEMMA SettleType ==
    ASSUME TypeOK, NEW outcome \in {"holding", "failed"}, NEW t \in Token,
           Settle(outcome, t)
    PROVE  /\ inFlight' = "none"
           /\ caller' \in [Callers -> {"idle", "waiting", "holding", "failed"}]
           /\ held' \in [Callers -> Token]
BY DEF TypeOK, Settle

\* The variables keep their types in every reachable state.  That fetches is
\* a number and never falls below zero rests on SingleFetch.
LEMMA TypeStep ==
    ASSUME TypeOK, SingleFetch, [Next]_vars
    PROVE  TypeOK'
<1> USE AuthAssumption
<1>1. ASSUME NEW c \in Callers, GetAccessToken(c)  PROVE TypeOK'
  BY <1>1 DEF GetAccessToken, JoinInFlight, ReturnCached, DeferFetch, StartFetch,
              TypeOK, CoolingDown, Never
<1>2. ASSUME NEW c \in Callers, InvalidateToken(c) \/ Release(c)  PROVE TypeOK'
  BY <1>2, NoTokenType DEF InvalidateToken, Release, Drop, TypeOK
<1>3. CASE CooldownEnds
  BY <1>3 DEF CooldownEnds, TypeOK
<1>4. CASE FetchToken
  <2>1. CASE HeadersArrive
    BY <2>1 DEF HeadersArrive, TypeOK
  <2>2. CASE FetchFails
    <3>1. Settle("failed", NoToken) /\ fetches' = 0
      BY <2>2 DEF FetchFails, Settle, SingleFetch
    <3> QED
      BY <2>2, <3>1, SettleType, NoTokenType DEF FetchFails, RecordError, TypeOK
  <2>3. ASSUME NEW life \in OpaqueLives, OpaqueTokenArrives(life)  PROVE TypeOK'
    <3> DEFINE t == NewToken(FALSE, life)
    <3>0. life \in Int
      BY AuthAssumption
    <3>1. t \in Token
      BY <3>0, ArrivingToken DEF TypeOK
    <3>2. Settle("holding", t) /\ fetches' = 0
      BY <2>3 DEF OpaqueTokenArrives, Settle, SingleFetch
    <3>3. OpaqueExpiry(life) \in Int
      BY OpaqueExpiryBound DEF TypeOK
    <3> QED
      BY <2>3, <3>1, <3>2, <3>3, SettleType
         DEF OpaqueTokenArrives, ClearError, TypeOK
  <2>4. ASSUME NEW life \in JwtLives, JwtArrives(life)  PROVE TypeOK'
    <3> DEFINE t == NewToken(TRUE, life)
    <3>0. life \in Int
      BY AuthAssumption
    <3>1. t \in Token
      BY <3>0, ArrivingToken DEF TypeOK
    <3>2. Settle("holding", t) /\ fetches' = 0
      BY <2>4 DEF JwtArrives, Settle, SingleFetch
    <3>3. expiresAt' \in Int
      BY <2>4, <3>0 DEF JwtArrives, TypeOK
    <3>4. now' \in Nat /\ wakeAt' \in Int /\ token' = t /\ lastErrorAt' = Never
          /\ failedAt' = failedAt
      BY <2>4 DEF JwtArrives, ClearError, TypeOK
    <3>5. /\ inFlight' = "none"
          /\ caller' \in [Callers -> {"idle", "waiting", "holding", "failed"}]
          /\ held' \in [Callers -> Token]
      BY <3>1, <3>2, SettleType
    <3> HIDE DEF t
    <3> QED
      BY <3>1, <3>2, <3>3, <3>4, <3>5 DEF TypeOK
  <2>5. ASSUME NEW life \in JwtLives, ExpiredJwtArrives(life)  PROVE TypeOK'
    <3> DEFINE t == NewToken(TRUE, life)
    <3>0. life \in Int
      BY AuthAssumption
    <3>1. t \in Token
      BY <3>0, ArrivingToken DEF TypeOK
    <3>2. Settle("failed", NoToken) /\ fetches' = 0
      BY <2>5 DEF ExpiredJwtArrives, Settle, SingleFetch
    <3> QED
      BY <2>5, <3>1, <3>2, SettleType, NoTokenType
         DEF ExpiredJwtArrives, RecordError, TypeOK
  <2> QED BY <1>4, <2>1, <2>2, <2>3, <2>4, <2>5 DEF FetchToken
<1>5. CASE Tick
  BY <1>5 DEF Tick, TypeOK
<1>6. CASE UNCHANGED vars
  BY <1>6 DEF vars, TypeOK
<1> QED BY <1>1, <1>2, <1>3, <1>4, <1>5, <1>6 DEF Next

-----------------------------------------------------------------------------
(* The parts of the inductive invariant, one step at a time *)

LEMMA SingleFetchStep ==
    ASSUME TypeOK, SingleFetch, [Next]_vars
    PROVE  SingleFetch'
<1>1. ASSUME NEW c \in Callers, GetAccessToken(c)  PROVE SingleFetch'
  BY <1>1 DEF GetAccessToken, JoinInFlight, ReturnCached, DeferFetch, StartFetch,
              SingleFetch
<1>2. ASSUME NEW c \in Callers, InvalidateToken(c) \/ Release(c)  PROVE SingleFetch'
  BY <1>2 DEF InvalidateToken, Release, SingleFetch
<1>3. CASE CooldownEnds
  BY <1>3 DEF CooldownEnds, SingleFetch
<1>4. CASE FetchToken
  <2>1. CASE HeadersArrive
    BY <2>1 DEF HeadersArrive, SingleFetch
  <2>2. CASE ~HeadersArrive
    <3>1. inFlight \in {"requesting", "reading"} /\ inFlight' = "none"
      BY <1>4, <2>2 DEF FetchToken, FetchFails, OpaqueTokenArrives, JwtArrives,
                        ExpiredJwtArrives, Settle
    <3>2. fetches' = fetches - 1
      BY <1>4, <2>2 DEF FetchToken, FetchFails, OpaqueTokenArrives, JwtArrives,
                        ExpiredJwtArrives, Settle
    <3> QED BY <3>1, <3>2 DEF SingleFetch
  <2> QED BY <2>1, <2>2
<1>5. CASE Tick \/ UNCHANGED vars
  BY <1>5 DEF Tick, vars, SingleFetch
<1> QED BY <1>1, <1>2, <1>3, <1>4, <1>5 DEF Next

LEMMA CooldownStep ==
    ASSUME TypeOK, CooldownInv, [Next]_vars
    PROVE  CooldownInv'
<1> USE AuthAssumption DEF Never
<1>1. ASSUME NEW c \in Callers, GetAccessToken(c)  PROVE CooldownInv'
  BY <1>1 DEF GetAccessToken, JoinInFlight, ReturnCached, DeferFetch, StartFetch,
              CoolingDown, TypeOK, CooldownInv
<1>2. ASSUME NEW c \in Callers, InvalidateToken(c) \/ Release(c)  PROVE CooldownInv'
  BY <1>2 DEF InvalidateToken, Release, CooldownInv
<1>3. CASE CooldownEnds
  BY <1>3 DEF CooldownEnds, TypeOK, CooldownInv
<1>4. CASE FetchToken
  <2>1. CASE HeadersArrive
    BY <2>1 DEF HeadersArrive, CooldownInv
  <2>2. CASE ~HeadersArrive
    <3>1. inFlight \in {"requesting", "reading"} /\ inFlight' = "none" /\ now' = now
      BY <1>4, <2>2 DEF FetchToken, FetchFails, OpaqueTokenArrives, JwtArrives,
                        ExpiredJwtArrives, Settle
    <3>2. ClearError \/ RecordError
      BY <1>4, <2>2 DEF FetchToken, FetchFails, OpaqueTokenArrives, JwtArrives,
                        ExpiredJwtArrives
    <3>3. CASE ClearError
      BY <3>1, <3>3 DEF ClearError, CooldownInv
    <3>4. CASE RecordError
      BY <3>1, <3>4 DEF RecordError, TypeOK, CooldownInv
    <3> QED BY <3>2, <3>3, <3>4
  <2> QED BY <2>1, <2>2
<1>5. CASE Tick
  BY <1>5 DEF Tick, TypeOK, CooldownInv
<1>6. CASE UNCHANGED vars
  BY <1>6 DEF vars, CooldownInv
<1> QED BY <1>1, <1>2, <1>3, <1>4, <1>5, <1>6 DEF Next

LEMMA FreshnessStep ==
    ASSUME TypeOK, FreshnessInv, [Next]_vars
    PROVE  FreshnessInv'
<1> USE AuthAssumption
<1>1. ASSUME NEW c \in Callers, GetAccessToken(c)  PROVE FreshnessInv'
  <2>1. now' = now /\ token' = token /\ expiresAt' = expiresAt
    BY <1>1 DEF GetAccessToken, JoinInFlight, ReturnCached, DeferFetch, StartFetch
  <2>2. inFlight' # "none" => expiresAt <= now
    BY <1>1 DEF GetAccessToken, JoinInFlight, ReturnCached, DeferFetch, StartFetch,
                CachedTokenValid, TypeOK, FreshnessInv
  <2> QED BY <2>1, <2>2 DEF FreshnessInv, UsableUntil
<1>2. ASSUME NEW c \in Callers, InvalidateToken(c)  PROVE FreshnessInv'
  BY <1>2 DEF InvalidateToken, TypeOK, FreshnessInv
<1>3. ASSUME NEW c \in Callers, Release(c)  PROVE FreshnessInv'
  BY <1>3 DEF Release, FreshnessInv, UsableUntil
<1>4. CASE CooldownEnds \/ HeadersArrive
  BY <1>4 DEF CooldownEnds, HeadersArrive, FreshnessInv, UsableUntil
<1>5. CASE FetchFails
  BY <1>5 DEF FetchFails, Settle, FreshnessInv, UsableUntil
<1>6. ASSUME NEW life \in OpaqueLives, OpaqueTokenArrives(life)  PROVE FreshnessInv'
  <2> DEFINE t == NewToken(FALSE, life)
  <2>0. life \in Int
    BY AuthAssumption
  <2>1. /\ t \in Token
        /\ t # NoToken
        /\ UsableUntil(t) = MaxOf(now + life, now + MinLife)
    BY <2>0, ArrivingToken DEF TypeOK
  <2>2. token' = t /\ expiresAt' = OpaqueExpiry(life) /\ inFlight' = "none"
    BY <1>6 DEF OpaqueTokenArrives, Settle
  <2>3. OpaqueExpiry(life) <= UsableUntil(t)
    BY <2>1, OpaqueExpiryBound DEF TypeOK
  <2>5. UsableUntil(token') = UsableUntil(t)
    BY <2>2
  <2> QED BY <2>1, <2>2, <2>3, <2>5 DEF FreshnessInv
<1>7. ASSUME NEW life \in JwtLives, JwtArrives(life)  PROVE FreshnessInv'
  <2> DEFINE t == NewToken(TRUE, life)
  <2>0. life \in Int
    BY AuthAssumption
  <2>1. t \in Token /\ t # NoToken /\ UsableUntil(t) = now + life
    BY <2>0, ArrivingToken DEF TypeOK
  <2>2. token' = t /\ expiresAt' = now + life - ExpSkew /\ inFlight' = "none"
    BY <1>7 DEF JwtArrives, Settle
  <2>3. UsableUntil(token') = UsableUntil(t)
    BY <2>2
  <2>4. now + life - ExpSkew <= now + life
    BY <2>0 DEF TypeOK
  <2> HIDE DEF t
  <2> QED BY <2>1, <2>2, <2>3, <2>4 DEF FreshnessInv
<1>8. ASSUME NEW life \in JwtLives, ExpiredJwtArrives(life)  PROVE FreshnessInv'
  <2> DEFINE t == NewToken(TRUE, life)
  <2>0. life \in Int
    BY AuthAssumption
  <2>1. t # NoToken
    BY <2>0, ArrivingToken DEF TypeOK
  <2>2. /\ token' = t /\ expiresAt' = expiresAt
        /\ inFlight' = "none" /\ now' = now
    BY <1>8 DEF ExpiredJwtArrives, Settle
  <2>3. expiresAt <= now
    BY <1>8 DEF ExpiredJwtArrives, FreshnessInv
  <2> QED BY <2>1, <2>2, <2>3 DEF FreshnessInv
<1>9. CASE Tick
  BY <1>9 DEF Tick, TypeOK, FreshnessInv, UsableUntil
<1>10. CASE UNCHANGED vars
  BY <1>10 DEF vars, FreshnessInv, UsableUntil
<1> QED
  BY <1>1, <1>2, <1>3, <1>4, <1>5, <1>6, <1>7, <1>8, <1>9, <1>10
     DEF Next, FetchToken

-----------------------------------------------------------------------------
(* The theorems *)

\* The variables keep their types and the three parts of the invariant hold
\* in every reachable state of getAccessToken, fetchToken and invalidateToken.
THEOREM Invariance == Spec => [](TypeOK /\ AuthInv)
<1>1. Init => TypeOK /\ AuthInv
  BY AuthAssumption, NoTokenType
     DEF Init, TypeOK, AuthInv, SingleFetch, CooldownInv, FreshnessInv, Never
<1>2. TypeOK /\ AuthInv /\ [Next]_vars => (TypeOK /\ AuthInv)'
  BY TypeStep, SingleFetchStep, CooldownStep, FreshnessStep DEF AuthInv
<1>3. QED
  BY <1>1, <1>2, PTL DEF Spec

\* The variables keep their types in every reachable state.
THEOREM TypeCorrect == Spec => []TypeOK
BY Invariance, PTL

\* getAccessToken never has two token requests open at the issuer.
THEOREM AtMostOneFetch == Spec => []SingleFetch
<1>1. TypeOK /\ AuthInv => SingleFetch
  BY DEF AuthInv
<1>2. QED
  BY <1>1, Invariance, PTL

\* No token request starts within errorCooldownMs of the last failed one.
THEOREM RetriesAreSpaced == Spec => NoRetryStorm
<1>1. TypeOK /\ AuthInv /\ [Next]_vars =>
        [fetches' > fetches => failedAt = Never \/ now - failedAt >= Cooldown]_vars
  <2> SUFFICES ASSUME TypeOK, AuthInv, Next, fetches' > fetches
               PROVE  failedAt = Never \/ now - failedAt >= Cooldown
    BY DEF vars
  <2> USE AuthAssumption DEF AuthInv, CooldownInv, TypeOK, Never
  <2>1. CASE \E c \in Callers : GetAccessToken(c)
    BY <2>1 DEF GetAccessToken, JoinInFlight, ReturnCached, DeferFetch, StartFetch,
                CoolingDown
  <2>2. CASE CooldownEnds
    BY <2>2 DEF CooldownEnds
  <2>3. CASE \E c \in Callers : InvalidateToken(c) \/ Release(c)
    BY <2>3 DEF InvalidateToken, Release
  <2>4. CASE FetchToken
    BY <2>4 DEF FetchToken, HeadersArrive, FetchFails, OpaqueTokenArrives,
                JwtArrives, ExpiredJwtArrives, Settle
  <2>5. CASE Tick
    BY <2>5 DEF Tick
  <2> QED BY <2>1, <2>2, <2>3, <2>4, <2>5 DEF Next
<1>2. QED
  BY <1>1, Invariance, PTL DEF Spec, NoRetryStorm

\* getAccessToken never gives a handler a token past the time it may be used,
\* from the cache or from a fetch.
THEOREM TokensAreLive == Spec => ServedTokenIsLive
<1>1. TypeOK /\ AuthInv /\ [Next]_vars =>
        [\A c \in Callers :
           caller[c] # "holding" /\ caller'[c] = "holding"
             => held'[c] # NoToken /\ now < UsableUntil(held'[c])]_vars
  <2> SUFFICES ASSUME TypeOK, AuthInv, Next, NEW c \in Callers,
                      caller[c] # "holding", caller'[c] = "holding"
               PROVE  held'[c] # NoToken /\ now < UsableUntil(held'[c])
    BY DEF vars
  <2> USE AuthAssumption
  <2>1. CASE \E d \in Callers : JoinInFlight(d) \/ DeferFetch(d) \/ StartFetch(d)
                                 \/ InvalidateToken(d) \/ Release(d)
    BY <2>1 DEF JoinInFlight, DeferFetch, StartFetch, InvalidateToken, Release,
                Drop, TypeOK
  <2>2. ASSUME NEW d \in Callers, ReturnCached(d)
        PROVE  held'[c] # NoToken /\ now < UsableUntil(held'[c])
    <3>1. c = d /\ held'[c] = token
      BY <2>2 DEF ReturnCached, TypeOK
    <3>2. UsableUntil(token) \in Int
      BY DEF UsableUntil, MaxOf, TypeOK, Token
    <3>3. token # NoToken /\ now < UsableUntil(token)
      BY <2>2, <3>2 DEF ReturnCached, CachedTokenValid, AuthInv, FreshnessInv, TypeOK
    <3> QED BY <3>1, <3>3
  <2>3. CASE CooldownEnds \/ HeadersArrive \/ Tick
    BY <2>3 DEF CooldownEnds, HeadersArrive, Tick
  <2>4. CASE FetchFails \/ \E life \in JwtLives : ExpiredJwtArrives(life)
    BY <2>4 DEF FetchFails, ExpiredJwtArrives, Settle
  <2>5. ASSUME NEW life \in OpaqueLives, OpaqueTokenArrives(life)
        PROVE  held'[c] # NoToken /\ now < UsableUntil(held'[c])
    <3>1. held'[c] = NewToken(FALSE, life)
      BY <2>5 DEF OpaqueTokenArrives, Settle
    <3>0. life \in Int /\ now \in Nat
      BY DEF TypeOK
    <3>2. /\ NewToken(FALSE, life) # NoToken
          /\ UsableUntil(NewToken(FALSE, life)) = MaxOf(now + life, now + MinLife)
      BY <3>0, ArrivingToken
    <3>3. now < MaxOf(now + life, now + MinLife)
      BY DEF MaxOf, TypeOK
    <3> QED BY <3>1, <3>2, <3>3
  <2>6. ASSUME NEW life \in JwtLives, JwtArrives(life)
        PROVE  held'[c] # NoToken /\ now < UsableUntil(held'[c])
    <3>1. held'[c] = NewToken(TRUE, life) /\ now + life - ExpSkew > now
      BY <2>6 DEF JwtArrives, Settle
    <3>0. life \in Int /\ now \in Nat
      BY DEF TypeOK
    <3>2. /\ NewToken(TRUE, life) # NoToken
          /\ UsableUntil(NewToken(TRUE, life)) = now + life
      BY <3>0, ArrivingToken
    <3>3. now < now + life
      BY <3>0, <3>1
    <3> QED BY <3>1, <3>2, <3>3
  <2> QED
    BY <2>1, <2>2, <2>3, <2>4, <2>5, <2>6 DEF Next, GetAccessToken, FetchToken
<1>2. QED
  BY <1>1, Invariance, PTL DEF Spec, ServedTokenIsLive
=============================================================================
