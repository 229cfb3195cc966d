---------------------------- MODULE EsploraCache ----------------------------
(***************************************************************************)
(* Reading one Esplora endpoint through the cache                          *)
(* (src/lib/esplora/EsploraService.ts).  A request looks in the fresh      *)
(* copy, then (on the endpoints that are tip-gated) whether the stale copy *)
(* may be used because the block tip has not moved, then at the back-off   *)
(* of its endpoint class, and then joins or leads a run of up to           *)
(* MaxRetries upstream calls.  A gated endpoint stores its answer a second *)
(* time, with a longer life and a marker of the tip, when all of it is     *)
(* confirmed.                                                              *)
(*                                                                         *)
(* One run at a time is what the in-flight map is for, but not what it     *)
(* guarantees: a run is joined while its entry is young, is not entered in *)
(* a map that other keys fill, and whichever run of the key ends deletes   *)
(* the entry (EsploraInFlight has the map of all keys).  The token and the *)
(* body of an answer are waited for without a timer.                       *)
(*                                                                         *)
(* Every await is the end of a step, so requests interleave between any    *)
(* two Redis calls.  The clock counts seconds: it advances while a request *)
(* awaits the upstream or sleeps, not while it awaits Redis.  Upstream     *)
(* data is a version number with the seconds the upstream gave it and its  *)
(* body was there, the block tip then and whether all of it is confirmed.  *)
(***************************************************************************)
EXTENDS Integers

CONSTANTS
    Requests,    \* calls of the endpoint's method
    Setups,      \* the situations considered (see Setup)
    Ttl,         \* the endpoint's CACHE_TTL
    TtlConf,     \* the CACHE_TTL of a confirmed-only answer
    TipTtl,      \* CACHE_TTL.TIP_HEIGHT times the stale multiplier
    StaleMult,   \* STALE_TTL_MULTIPLIER
    MaxRetries,  \* maxRetries
    MaxBackoff,  \* the 60 seconds cap of the back-off
    MaxAge,      \* MAX_INFLIGHT_AGE_MS
    None         \* null

\* A situation: whether the endpoint is tip-gated (shouldTipGate: UTXO and
\* transaction lists), whether commands to Redis may fail, whether other keys
\* may fill the in-flight map, whether the upstream takes a token, what a
\* random delay may add in seconds, and the bounds of what is explored of it:
\* which requests are made, the last second of the clock and the last version
\* of the upstream's data.
Setup == [gated : BOOLEAN, redisFails : BOOLEAN, mapFills : BOOLEAN,
          useAuth : BOOLEAN, jitter : SUBSET {0, 1}, clients : SUBSET Requests,
          maxTime : Nat, maxVer : Nat]

\* What the upstream knows, with the second it answered (born) and the second
\* the body was there (at); what Redis keeps under a key and under its marker,
\* with the second it expires at; the run tracked in flight.
Data == [ver : Nat, tip : Nat, conf : BOOLEAN, born : Nat, at : Nat]
Copy == [val : Data, exp : Nat]
Stamp == [tip : Nat, exp : Nat]
Entry == [owner : Requests, startedAt : Nat]

ASSUME CacheAssumption ==
    /\ Setups \subseteq Setup
    /\ Ttl \in Nat /\ TtlConf \in Nat /\ TipTtl \in Nat
    /\ StaleMult \in Nat \ {0}
    /\ MaxRetries \in Nat \ {0}
    /\ MaxBackoff \in Nat
    /\ MaxAge \in Nat
    /\ None \notin Data \cup Copy \cup Stamp \cup Entry

VARIABLES
    setup,        \* the situation; it never changes
    now,          \* Date.now(), in seconds
    chain,        \* the upstream: version and tip, and whether all is confirmed
    fresh,        \* the copy under the cache key
    stale,        \* the copy under cacheKey:stale
    marker,       \* cacheKey:tip
    tipCache,     \* the cached tip hash (its stale copy outlives the fresh one)
    backoffUntil, \* of the endpoint class
    errors,       \* consecutiveErrors of the endpoint class
    entry,        \* the run tracked in flight under the cache key
    pc,           \* where each request is
    awaits,       \* the request whose run a follower awaits
    data,         \* the answer a request has in hand
    seenTip,      \* the tip hash a request has read
    attempt,      \* attempts a run has made
    wakeAt,       \* when a sleeping run resumes
    served,       \* ghost: when the newest answer given was born
    floor,        \* ghost: served, when a request began
    overlapped    \* ghost: two runs of the key have been under way at once

vars == <<setup, now, chain, fresh, stale, marker, tipCache, backoffUntil,
          errors, entry, pc, awaits, data, seenTip, attempt, wakeAt, served,
          floor, overlapped>>

Gated == setup.gated
RedisFails == setup.redisFails
Jitter == setup.jitter
MaxTime == setup.maxTime
MaxVer == setup.maxVer

store == <<fresh, stale, marker, tipCache>>
class == <<backoffUntil, errors>>
flight == <<entry, awaits, overlapped>>
ghosts == <<served, floor>>

\* Where a request may be: running attempts, or at an await on Redis (or at
\* the code between two of them).  A run that waits for the body of the token
\* or of the answer waits without a timer.
AtBody == {"token", "body"}
Running == AtBody \cup {"attempt", "limited", "sleep", "writeFresh", "writeStale"}
AtRedis == {"gateStale", "gateTip", "gateMarker", "decide", "backoff",
            "limited", "writeFresh", "writeStale", "answered", "recacheFresh",
            "recacheStale", "recacheTip", "recacheMarker", "clearMarker", "return"}

TypeOK ==
    /\ setup \in Setups
    /\ now \in Nat
    /\ chain \in [ver : Nat, tip : Nat, conf : BOOLEAN]
    /\ fresh \in Copy \cup {None}
    /\ stale \in Copy \cup {None}
    /\ marker \in Stamp \cup {None}
    /\ tipCache \in Stamp \cup {None}
    /\ backoffUntil \in Nat
    /\ errors \in Nat
    /\ entry \in Entry \cup {None}
    /\ pc \in [Requests -> {"idle", "following"} \cup Running \cup AtRedis]
    /\ awaits \in [Requests -> Requests]
    /\ data \in [Requests -> Data \cup {None}]
    /\ seenTip \in [Requests -> Nat \cup {None}]
    /\ attempt \in [Requests -> 0..MaxRetries]
    /\ wakeAt \in [Requests -> Nat]
    /\ served \in Nat
    /\ floor \in [Requests -> Nat]
    /\ overlapped \in BOOLEAN

Init ==
    /\ setup \in Setups
    /\ now = 0
    /\ chain \in [ver : {0}, tip : {0}, conf : IF Gated THEN BOOLEAN ELSE {TRUE}]
    /\ fresh = None /\ stale = None /\ marker = None /\ tipCache = None
    /\ backoffUntil = 0 /\ errors = 0
    /\ entry = None
    /\ pc = [r \in Requests |-> "idle"]
    /\ awaits = [r \in Requests |-> r]
    /\ data = [r \in Requests |-> None]
    /\ seenTip = [r \in Requests |-> None]
    /\ attempt = [r \in Requests |-> 0]
    /\ wakeAt = [r \in Requests |-> 0]
    /\ served = 0
    /\ floor = [r \in Requests |-> 0]
    /\ overlapped = FALSE

-----------------------------------------------------------------------------
(* Helpers *)

Live(copy) == copy # None /\ now < copy.exp
Write(v, ttl) == [val |-> v, exp |-> now + ttl]

Go(r, where) == pc' = [pc EXCEPT ![r] = where]
StartAttempt(r) == Go(r, IF setup.useAuth THEN "token" ELSE "attempt")
Take(r, v) == data' = [data EXCEPT ![r] = v]

\* A read that fails finds nothing.
Missed(copy) == ~Live(copy) \/ RedisFails

\* A read of a copy that is there answers the request; otherwise it goes on.
Read(r, copy, found, missing) ==
    \/ Live(copy) /\ Take(r, copy.val) /\ Go(r, found)
    \/ Missed(copy) /\ UNCHANGED data /\ Go(r, missing)

\* The promise of a run settles: its leader and its followers go on with the
\* answer, or throw, and the entry of the key goes, whoever's it is.
Settle(r, v) ==
    LET those == {r} \cup {q \in Requests : pc[q] = "following" /\ awaits[q] = r} IN
    /\ data' = [q \in Requests |-> IF q \in those THEN v ELSE data[q]]
    /\ pc' = [q \in Requests |->
                 IF q \notin those THEN pc[q]
                 ELSE IF v = None THEN "return" ELSE "answered"]
    /\ attempt' = [attempt EXCEPT ![r] = 0]
    /\ entry' = None
    /\ awaits' = [q \in Requests |-> IF q \in those THEN q ELSE awaits[q]]

-----------------------------------------------------------------------------
(* fetchWithRetry, up to the upstream *)

\* getFromCache.  The bound: no request is considered after MaxTime.
Lookup(r) ==
    /\ pc[r] = "idle"
    /\ r \in setup.clients
    /\ now <= MaxTime
    /\ floor' = [floor EXCEPT ![r] = served]
    /\ Read(r, fresh, "answered", IF Gated THEN "gateStale" ELSE "decide")
    /\ UNCHANGED <<setup, now, chain, store, class, flight, seenTip, attempt, wakeAt, served>>

\* tryTipGate: the stale copy, the cached tip, the marker.
GateReadsStale(r) ==
    /\ pc[r] = "gateStale"
    /\ Read(r, stale, "gateTip", "decide")
    /\ UNCHANGED <<setup, now, chain, store, class, flight, seenTip, attempt, wakeAt, ghosts>>

GateReadsTip(r) ==
    /\ pc[r] = "gateTip"
    /\ \/ Live(tipCache) /\ seenTip' = [seenTip EXCEPT ![r] = tipCache.tip]
       \/ Missed(tipCache) /\ seenTip' = [seenTip EXCEPT ![r] = None]
    /\ Go(r, "gateMarker")
    /\ UNCHANGED <<setup, now, chain, store, class, flight, data, attempt, wakeAt, ghosts>>

GateOpens(r) ==
    /\ seenTip[r] # None
    /\ Live(marker) /\ marker.tip = seenTip[r]
    /\ data[r].conf

GateReadsMarker(r) ==
    /\ pc[r] = "gateMarker"
    /\ seenTip' = [seenTip EXCEPT ![r] = None]
    /\ \/ GateOpens(r) /\ UNCHANGED data /\ Go(r, "answered")
       \/ /\ ~GateOpens(r) \/ RedisFails
          /\ Take(r, None)
          /\ Go(r, "decide")
    /\ UNCHANGED <<setup, now, chain, store, class, flight, attempt, wakeAt, ghosts>>

\* A run of the key is tracked, and not so old that it is given up.
InFlight == entry # None /\ now - entry.startedAt <= MaxAge

\* Within the back-off no run is joined or led.
Decide(r) ==
    /\ pc[r] = "decide" /\ now < backoffUntil
    /\ Go(r, "backoff")
    /\ UNCHANGED <<setup, now, chain, store, class, flight, data, seenTip, attempt,
                   wakeAt, ghosts>>

Follow(r) ==
    /\ pc[r] = "decide" /\ now >= backoffUntil
    /\ InFlight
    /\ awaits' = [awaits EXCEPT ![r] = entry.owner]
    /\ Go(r, "following")
    /\ UNCHANGED <<setup, now, chain, store, class, entry, overlapped, data, seenTip,
                   attempt, wakeAt, ghosts>>

\* The run is tracked unless other keys fill the map.
Lead(r) ==
    /\ pc[r] = "decide" /\ now >= backoffUntil
    /\ ~InFlight
    /\ \/ entry' = [owner |-> r, startedAt |-> now]
       \/ setup.mapFills /\ entry' = None
    /\ attempt' = [attempt EXCEPT ![r] = 1]
    /\ overlapped' = (overlapped \/ \E q \in Requests : pc[q] \in Running)
    /\ StartAttempt(r)
    /\ UNCHANGED <<setup, now, chain, store, class, awaits, data, seenTip, wakeAt, ghosts>>

\* Within the back-off: the stale copy, or EsploraRateLimitError.
BackoffReadsStale(r) ==
    /\ pc[r] = "backoff"
    /\ Read(r, stale, "answered", "return")
    /\ UNCHANGED <<setup, now, chain, store, class, flight, seenTip, attempt, wakeAt, ghosts>>

-----------------------------------------------------------------------------
(* executeRequest *)

\* 2 ^ n, by doubling.
PowerOfTwo(n) ==
    LET power[k \in 0..n] == IF k = 0 THEN 1 ELSE 2 * power[k - 1] IN power[n]

\* retryDelay is one second and doubles with each sleep; attempts that ended
\* without one leave it as it was.
RetryDelay(n) == {PowerOfTwo(k - 1) : k \in 1..n}

Sleep(r) ==
    /\ Go(r, "sleep")
    /\ \E d \in RetryDelay(attempt[r]), j \in Jitter :
         wakeAt' = [wakeAt EXCEPT ![r] = now + d + j]

Min2(a, b) == IF a <= b THEN a ELSE b

\* buildHeaders has the token.
TokenComes(r) ==
    /\ pc[r] = "token"
    /\ Go(r, "attempt")
    /\ UNCHANGED <<setup, now, chain, store, class, flight, data, seenTip, attempt,
                   wakeAt, ghosts>>

\* 429: the class backs off, whatever this run will do.
RateLimited(r) ==
    /\ pc[r] = "attempt"
    /\ errors' = errors + 1
    /\ \E j \in Jitter : backoffUntil' = now + Min2(PowerOfTwo(errors + 1) + j, MaxBackoff)
    /\ Go(r, "limited")
    /\ UNCHANGED <<setup, now, chain, store, flight, data, seenTip, attempt, wakeAt, ghosts>>

\* After a 429 the stale copy answers; without one the run sleeps, also
\* when that was its last attempt.
LimitedReadsStale(r) ==
    /\ pc[r] = "limited"
    /\ \/ /\ Live(stale)
          /\ Settle(r, stale.val)
          /\ UNCHANGED wakeAt
       \/ /\ Missed(stale)
          /\ Sleep(r)
          /\ UNCHANGED <<data, attempt, entry, awaits>>
    /\ UNCHANGED <<setup, now, chain, store, class, overlapped, seenTip, ghosts>>

\* Mutant: a rejected token does not count as an attempt's end.
AuthRejectedAlways(r) ==
    /\ pc[r] = "attempt" /\ setup.useAuth
    /\ attempt' = [attempt EXCEPT ![r] = @ + 1]
    /\ StartAttempt(r)
    /\ UNCHANGED <<setup, now, chain, store, class, flight, data, seenTip, wakeAt, ghosts>>

\* A rejected token is dropped and the call repeated at once (BlockstreamAuth
\* has the token).
AuthRejected(r) ==
    /\ pc[r] = "attempt" /\ setup.useAuth
    /\ attempt[r] < MaxRetries
    /\ attempt' = [attempt EXCEPT ![r] = @ + 1]
    /\ StartAttempt(r)
    /\ UNCHANGED <<setup, now, chain, store, class, flight, data, seenTip, wakeAt, ghosts>>

\* No token, a timeout, a connection error, an error status, a body that
\* breaks off or is no JSON.
Fails(r) ==
    /\ pc[r] \in {"token", "attempt", "body"}
    /\ \/ /\ attempt[r] < MaxRetries
          /\ Sleep(r)
          /\ Take(r, None)
          /\ UNCHANGED <<attempt, entry, awaits>>
       \/ /\ attempt[r] = MaxRetries
          /\ Settle(r, None)
          /\ UNCHANGED wakeAt
    /\ UNCHANGED <<setup, now, chain, store, class, overlapped, seenTip, ghosts>>

\* Mutant: after a 429 nobody comes back to the run.
WakeIsLost(r) ==
    /\ pc[r] = "sleep" /\ now >= wakeAt[r]
    /\ attempt[r] < MaxRetries
    /\ wakeAt' = [wakeAt EXCEPT ![r] = 0]
    /\ attempt' = [attempt EXCEPT ![r] = @ + 1]
    /\ StartAttempt(r)
    /\ UNCHANGED <<setup, now, chain, store, class, flight, data, seenTip, ghosts>>

Wake(r) ==
    /\ pc[r] = "sleep" /\ now >= wakeAt[r]
    /\ wakeAt' = [wakeAt EXCEPT ![r] = 0]
    /\ \/ /\ attempt[r] < MaxRetries
          /\ attempt' = [attempt EXCEPT ![r] = @ + 1]
          /\ StartAttempt(r)
          /\ UNCHANGED <<data, entry, awaits>>
       \/ attempt[r] = MaxRetries /\ Settle(r, None)
    /\ UNCHANGED <<setup, now, chain, store, class, overlapped, seenTip, ghosts>>

Answer == [ver |-> chain.ver, tip |-> chain.tip, conf |-> chain.conf,
           born |-> now, at |-> now]

\* The headers of a good answer are there, and the abort timer is cleared.
Answers(r) ==
    /\ pc[r] = "attempt"
    /\ Take(r, Answer)
    /\ Go(r, "body")
    /\ UNCHANGED <<setup, now, chain, store, class, flight, seenTip, attempt, wakeAt, ghosts>>

\* So is its body.
Succeeds(r) ==
    /\ pc[r] = "body"
    /\ errors' = 0
    /\ Take(r, [data[r] EXCEPT !.at = now])
    /\ Go(r, "writeFresh")
    /\ UNCHANGED <<setup, now, chain, store, backoffUntil, flight, seenTip, attempt,
                   wakeAt, ghosts>>

-----------------------------------------------------------------------------
(* setCache: two writes, and a failure of either ends it *)

\* Mutant: only the fresh copy is written once there is a stale one.
WriteFreshOnly(r) ==
    /\ pc[r] = "writeFresh"
    /\ fresh' = Write(data[r], Ttl)
    /\ IF stale = None THEN Go(r, "writeStale") /\ UNCHANGED <<data, attempt, entry, awaits>>
                       ELSE Settle(r, data[r])
    /\ UNCHANGED <<setup, now, chain, stale, marker, tipCache, class, overlapped,
                   seenTip, wakeAt, ghosts>>

WriteFresh(r) ==
    /\ pc[r] = "writeFresh"
    /\ \/ /\ fresh' = Write(data[r], Ttl)
          /\ Go(r, "writeStale")
          /\ UNCHANGED <<data, attempt, entry, awaits>>
       \/ /\ RedisFails
          /\ Settle(r, data[r])
          /\ UNCHANGED fresh
    /\ UNCHANGED <<setup, now, chain, stale, marker, tipCache, class, overlapped,
                   seenTip, wakeAt, ghosts>>

\* Mutant: the stale copy is kept for the multiple of its own life.
WriteStaleLonger(r) ==
    /\ pc[r] = "writeStale"
    /\ stale' = Write(data[r], StaleMult * StaleMult * Ttl)
    /\ Settle(r, data[r])
    /\ UNCHANGED <<setup, now, chain, fresh, marker, tipCache, class, overlapped,
                   seenTip, wakeAt, ghosts>>

WriteStale(r) ==
    /\ pc[r] = "writeStale"
    /\ stale' = Write(data[r], StaleMult * Ttl) \/ (RedisFails /\ stale' = stale)
    /\ Settle(r, data[r])
    /\ UNCHANGED <<setup, now, chain, fresh, marker, tipCache, class, overlapped,
                   seenTip, wakeAt, ghosts>>

-----------------------------------------------------------------------------
(* What the gated methods do with an answer, wherever it came from *)

\* All confirmed: setCache again, for longer.  Otherwise the marker goes.
Inspect(r) ==
    /\ pc[r] = "answered"
    /\ Go(r, IF ~Gated THEN "return"
             ELSE IF data[r].conf THEN "recacheFresh" ELSE "clearMarker")
    /\ UNCHANGED <<setup, now, chain, store, class, flight, data, seenTip, attempt, wakeAt, ghosts>>

RecacheFresh(r) ==
    /\ pc[r] = "recacheFresh"
    /\ \/ fresh' = Write(data[r], TtlConf) /\ Go(r, "recacheStale")
       \/ RedisFails /\ UNCHANGED fresh /\ Go(r, "recacheTip")
    /\ UNCHANGED <<setup, now, chain, stale, marker, tipCache, class, flight, data, seenTip,
                   attempt, wakeAt, ghosts>>

RecacheStale(r) ==
    /\ pc[r] = "recacheStale"
    /\ \/ stale' = Write(data[r], StaleMult * TtlConf)
       \/ RedisFails /\ UNCHANGED stale
    /\ Go(r, "recacheTip")
    /\ UNCHANGED <<setup, now, chain, fresh, marker, tipCache, class, flight, data, seenTip,
                   attempt, wakeAt, ghosts>>

RecacheReadsTip(r) ==
    /\ pc[r] = "recacheTip"
    /\ \/ /\ Live(tipCache)
          /\ seenTip' = [seenTip EXCEPT ![r] = tipCache.tip]
          /\ Go(r, "recacheMarker")
       \/ Missed(tipCache) /\ UNCHANGED seenTip /\ Go(r, "return")
    /\ UNCHANGED <<setup, now, chain, store, class, flight, data, attempt, wakeAt, ghosts>>

RecacheMarker(r) ==
    /\ pc[r] = "recacheMarker"
    /\ \/ marker' = [tip |-> seenTip[r], exp |-> now + StaleMult * TtlConf]
       \/ RedisFails /\ UNCHANGED marker
    /\ seenTip' = [seenTip EXCEPT ![r] = None]
    /\ Go(r, "return")
    /\ UNCHANGED <<setup, now, chain, fresh, stale, tipCache, class, flight, data, attempt,
                   wakeAt, ghosts>>

ClearMarker(r) ==
    /\ pc[r] = "clearMarker"
    /\ marker' = None \/ (RedisFails /\ marker' = marker)
    /\ Go(r, "return")
    /\ UNCHANGED <<setup, now, chain, fresh, stale, tipCache, class, flight, data, seenTip,
                   attempt, wakeAt, ghosts>>

\* The method returns data[r], or throws if there is none.
Return(r) ==
    /\ pc[r] = "return"
    /\ served' = IF data[r] # None /\ data[r].born > served
               THEN data[r].born ELSE served
    /\ floor' = [floor EXCEPT ![r] = 0]
    /\ Take(r, None)
    /\ Go(r, "idle")
    /\ UNCHANGED <<setup, now, chain, store, class, flight, seenTip, attempt, wakeAt>>

-----------------------------------------------------------------------------
(* The rest of the world *)

\* Another key of the same class is rate limited, for the first time.
ClassRateLimited ==
    /\ errors = 0 /\ now < MaxTime
    /\ errors' = 1
    /\ \E j \in Jitter : backoffUntil' = now + Min2(2 + j, MaxBackoff)
    /\ UNCHANGED <<setup, now, chain, store, flight, pc, data, seenTip, attempt, wakeAt,
                   ghosts>>

\* getTipHash has stored the upstream's tip.
TipFetched ==
    /\ Gated
    /\ tipCache' = [tip |-> chain.tip, exp |-> now + TipTtl]
    /\ UNCHANGED <<setup, now, chain, fresh, stale, marker, class, flight, pc, data, seenTip,
                   attempt, wakeAt, ghosts>>

\* A transaction of the address enters the mempool, or a block confirms all.
ChainMoves ==
    /\ chain.ver < MaxVer
    /\ \/ chain' = [chain EXCEPT !.ver = @ + 1, !.conf = FALSE]
       \/ chain' = [ver |-> chain.ver + 1, tip |-> chain.tip + 1, conf |-> TRUE]
    /\ UNCHANGED <<setup, now, store, class, flight, pc, data, seenTip, attempt, wakeAt, ghosts>>

\* Redis answers within the second; past MaxTime only sleepers are waited for.
\* While a run waits for a body, time goes on.
Tick ==
    /\ \A r \in Requests : pc[r] \notin AtRedis
    /\ \/ now < MaxTime
       \/ \E r \in Requests : pc[r] = "sleep" /\ now < wakeAt[r]
    /\ now' = now + 1
    /\ UNCHANGED <<setup, chain, store, class, flight, pc, data, seenTip, attempt, wakeAt, ghosts>>

\* The end of the time that is considered.
TimeIsUp ==
    /\ now >= MaxTime
    /\ \A r \in Requests : pc[r] = "idle"
    /\ UNCHANGED vars

FetchWithRetry(r) ==
    \/ Lookup(r) \/ GateReadsStale(r) \/ GateReadsTip(r) \/ GateReadsMarker(r)
    \/ Decide(r) \/ Follow(r) \/ Lead(r) \/ BackoffReadsStale(r) \/ Inspect(r)
    \/ RecacheFresh(r) \/ RecacheStale(r) \/ RecacheReadsTip(r)
    \/ RecacheMarker(r) \/ ClearMarker(r) \/ Return(r)

ExecuteRequest(r) ==
    \/ TokenComes(r) \/ RateLimited(r) \/ LimitedReadsStale(r)
    \/ AuthRejected(r) \/ Fails(r) \/ Wake(r) \/ Answers(r) \/ Succeeds(r)
    \/ WriteFresh(r) \/ WriteStale(r)

Next ==
    \/ \E r \in Requests : FetchWithRetry(r) \/ ExecuteRequest(r)
    \/ ClassRateLimited \/ TipFetched \/ ChainMoves \/ Tick \/ TimeIsUp

Spec == Init /\ [][Next]_vars

\* Redis answers or times out, an upstream call has headers or is aborted,
\* timers fire, and time passes however often requests are made.  That the
\* body of a token or of an answer comes or breaks off is not assumed.
Fairness ==
    /\ SF_vars(Tick)
    /\ \A r \in Requests :
         WF_vars(/\ pc[r] \notin {"idle"} \cup AtBody
                 /\ FetchWithRetry(r) \/ ExecuteRequest(r))

FairSpec == Spec /\ Fairness

-----------------------------------------------------------------------------
(* Properties *)

Returns(r) == pc[r] = "return" /\ pc'[r] = "idle" /\ data[r] # None

\* On an endpoint that is not tip-gated nothing the cache, the back-off and
\* the retries do together makes an answer older than the life of the stale
\* copy: StaleMult times the life the endpoint gives its data.
BoundedStaleness ==
    [][\A r \in Requests : ~Gated /\ Returns(r) =>
         now - data[r].at <= StaleMult * Ttl]_vars

\* The same of a tip-gated endpoint, with its longer life.
GatedStaleness ==
    [][\A r \in Requests : Gated /\ Returns(r) =>
         now - data[r].at <= StaleMult * TtlConf]_vars

\* While writes to Redis succeed and no two runs of the key have been under
\* way at once, time does not run backwards for a client of an endpoint that
\* is not tip-gated: a request that begins after an answer was given gets
\* nothing that the upstream said before that answer, though it may be served
\* by the other copy, by a run it joined, or in the back-off.
MonotonicReads ==
    [][\A r \in Requests :
         ~Gated /\ ~RedisFails /\ ~overlapped /\ Returns(r)
            => data[r].born >= floor[r]]_vars

\* The same whether runs overlap or not: what single flight is there to
\* prevent when a run is slow.
TimeGoesForward ==
    [][\A r \in Requests :
         ~Gated /\ ~RedisFails /\ Returns(r) => data[r].born >= floor[r]]_vars

\* The run that a request leads, or that it awaits, waits for a body.
BodyAwaited(r) ==
    \/ pc[r] \in AtBody
    \/ pc[r] = "following" /\ pc[awaits[r]] \in AtBody

\* A request is answered or throws, unless the run that it leads or follows
\* waits for a body that does not come: nothing else can keep it, whichever
\* runs were given up, not tracked or taken out of the map meanwhile.
RequestsAnswered ==
    \A r \in Requests : pc[r] # "idle" ~> pc[r] = "idle" \/ BodyAwaited(r)

\* "Rate limited - apply exponential backoff with jitter": a run that was
\* told to back off makes no upstream call before the back-off is over.
BacksOff ==
    [][\A r \in Requests : attempt'[r] > attempt[r] => now >= backoffUntil]_vars

\* "tip-gated reuse": the gate answers only with data that is at least as
\* new as the block tip it compares.
GateIsSound ==
    [][\A r \in Requests :
         pc[r] = "gateMarker" /\ GateOpens(r) => data[r].tip >= seenTip[r]]_vars
=============================================================================
