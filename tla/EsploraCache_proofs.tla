------------------------- MODULE EsploraCache_proofs -------------------------
(***************************************************************************)
(* Proofs about EsploraCache, for any number of requests, lives, retries   *)
(* and delays: its types, and what answers clients get of an endpoint that *)
(* is not tip-gated.                                                       *)
(*                                                                         *)
(* How old an answer may be follows from the copies alone (AgeInv): each   *)
(* expires within its life of the fetch, and a request at Redis holds the  *)
(* clock.  That answers never get older for a client needs the runs too    *)
(* (ReadsInv): as long as no two have been under way at once, nobody else  *)
(* stores anything between the answer of a run and the second of its       *)
(* writes, and whoever reads the new fresh copy between the writes is      *)
(* followed only by requests that find that copy as well.                  *)
(*                                                                         *)
(* The types need induction over the natural numbers, for the powers of    *)
(* two of the delays.  The lemmas on Induction and Iterates do it with a   *)
(* set in the place of a predicate, and a function in the place of a rule. *)
(***************************************************************************)
EXTENDS EsploraCache, WellFoundedInduction, TLAPS

-----------------------------------------------------------------------------
(* Types, as far as the answers need them; the rest of them (BookTypes) and  *)
(* the powers of two they are about come at the end.                         *)

Places == {"idle", "following", "attempt", "sleep"} \cup AtBody \cup AtRedis

\* Where a request has an answer in hand, and where it has none if its endpoint
\* is not gated.
Holding == {"body", "writeFresh", "writeStale", "answered", "gateTip", "gateMarker", "recacheFresh",
            "recacheStale", "recacheTip", "recacheMarker", "clearMarker"}
Empty == {"idle", "following", "decide", "backoff", "token", "attempt", "limited", "sleep"}

CacheTypes ==
    /\ setup \in Setups
    /\ now \in Nat
    /\ chain \in [ver : Nat, tip : Nat, conf : BOOLEAN]
    /\ fresh \in Copy \cup {None}
    /\ stale \in Copy \cup {None}
    /\ pc \in [Requests -> Places]
    /\ data \in [Requests -> Data \cup {None}]
    /\ served \in Nat
    /\ floor \in [Requests -> Nat]
    /\ \A r \in Requests : pc[r] \in Holding => data[r] # None

\* Where a request of an endpoint that is not gated may be.
HandsOK(r) ==
    /\ pc[r] \in {"body", "writeFresh", "writeStale", "answered", "return"} \cup Empty
    /\ pc[r] \in Empty => data[r] = None

OneRun == \A q, r \in Requests : pc[q] \in Running /\ pc[r] \in Running => q = r

\* What the endpoint allows an answer to be old.
Life == StaleMult * Ttl

\* A copy is of the past, and expires within a life of its fetch.
CopyOK(copy, life) ==
    copy.val.at <= now /\ copy.val.born <= now /\ copy.exp <= copy.val.at + life

AgeInv ==
    /\ fresh # None => CopyOK(fresh, Ttl)
    /\ stale # None => CopyOK(stale, Life)
    /\ \A r \in Requests :
         /\ HandsOK(r)
         /\ data[r] # None => data[r].at <= now /\ data[r].born <= now
         /\ data[r] # None /\ pc[r] # "body" => now <= data[r].at + Life
         /\ pc[r] \in {"writeFresh", "writeStale"} => data[r].at = now

\* When the upstream gave what the copies hold.
FreshAt == IF fresh = None THEN 0 ELSE fresh.val.born
StaleAt == IF stale = None THEN 0 ELSE stale.val.born
BetweenWrites == \E r \in Requests : pc[r] = "writeStale"

\* The newest data that a client can have been given.
Known == IF BetweenWrites /\ Live(fresh) THEN FreshAt ELSE StaleAt

ReadsInv ==
    /\ StaleAt <= FreshAt
    /\ ~BetweenWrites => FreshAt = StaleAt
    /\ served <= Known
    /\ \A r \in Requests :
         /\ pc[r] = "writeStale" => FreshAt = data[r].born
         /\ pc[r] \in {"body", "writeFresh"} => FreshAt <= data[r].born
         /\ pc[r] \in Empty \cup {"body", "writeFresh", "writeStale"} => floor[r] <= StaleAt
         /\ pc[r] \in {"answered", "return"} /\ data[r] # None =>
              floor[r] <= data[r].born /\ data[r].born <= Known

CacheInv ==
    /\ CacheTypes
    /\ ~overlapped => OneRun
    /\ ~Gated => AgeInv
    /\ ~Gated /\ ~RedisFails /\ ~overlapped => ReadsInv

-----------------------------------------------------------------------------
(* Types *)

\* What is written has an expiry, and what is answered has a fetch time.
LEMMA WriteType ==
    ASSUME now \in Nat, NEW v \in Data, NEW ttl \in Nat
    PROVE  /\ Write(v, ttl) \in Copy /\ Write(v, ttl) # None
           /\ Write(v, ttl).val = v /\ Write(v, ttl).exp = now + ttl
  BY CacheAssumption DEF Write, Copy

\* What Blockstream answers is dated now.
LEMMA AnswerType ==
    ASSUME CacheTypes
    PROVE  Answer \in Data /\ Answer # None /\ Answer.at = now /\ Answer.born = now
  BY CacheAssumption DEF Answer, Data, CacheTypes

\* When its body is there, it is dated so.
LEMMA BodyType ==
    ASSUME CacheTypes, NEW d \in Data
    PROVE  LET b == [d EXCEPT !.at = now] IN
           b \in Data /\ b # None /\ b.at = now /\ b.born = d.born
  BY CacheAssumption DEF Data, CacheTypes

\* The multiples of the lives are lives.
LEMMA LivesAreNat ==
    /\ Ttl \in Nat /\ TtlConf \in Nat /\ Life \in Nat /\ StaleMult * TtlConf \in Nat
    /\ Ttl <= Life
  BY CacheAssumption DEF Life

\* Those who take the outcome of a run.
Those(r) == {r} \cup {q \in Requests : pc[q] = "following" /\ awaits[q] = r}

\* When a run settles, it and its followers take its outcome and leave; the others stay.
LEMMA SettleFacts ==
    ASSUME CacheTypes, NEW r \in Requests, NEW v \in Data \cup {None}, Settle(r, v)
    PROVE  /\ pc' \in [Requests -> Places] /\ data' \in [Requests -> Data \cup {None}]
           /\ \A q \in Requests :
                /\ q \in Those(r) => data'[q] = v
                                     /\ pc'[q] = IF v = None THEN "return" ELSE "answered"
                /\ q \notin Those(r) => data'[q] = data[q] /\ pc'[q] = pc[q]
           /\ r \in Those(r)
  BY DEF CacheTypes, Settle, Places, AtRedis, Those

\* A read takes the copy, or leaves what the request has.
LEMMA ReadFacts ==
    ASSUME CacheTypes, NEW r \in Requests, NEW copy \in Copy \cup {None},
           NEW found \in Places, NEW missing \in Places, Read(r, copy, found, missing)
    PROVE  /\ pc' \in [Requests -> Places] /\ data' \in [Requests -> Data \cup {None}]
           /\ \A q \in Requests \ {r} : pc'[q] = pc[q] /\ data'[q] = data[q]
           /\ \/ Live(copy) /\ data'[r] = copy.val /\ pc'[r] = found
              \/ Missed(copy) /\ data'[r] = data[r] /\ pc'[r] = missing
  BY DEF CacheTypes, Read, Live, Take, Go, Copy

\* The cache starts with its types.
LEMMA TypesStart == Init => CacheTypes
  <1> SUFFICES ASSUME Init PROVE CacheTypes
    OBVIOUS
  <1>1. chain \in [ver : Nat, tip : Nat, conf : BOOLEAN]
    <2>1. ASSUME NEW S \in SUBSET BOOLEAN, chain \in [ver : {0}, tip : {0}, conf : S]
          PROVE  chain \in [ver : Nat, tip : Nat, conf : BOOLEAN]
      BY <2>1
    <2>2. {TRUE} \subseteq BOOLEAN
      OBVIOUS
    <2>3. (IF Gated THEN BOOLEAN ELSE {TRUE}) \in SUBSET BOOLEAN
      BY <2>2
    <2>4. QED  BY <2>1, <2>3 DEF Init
  <1>2. QED  BY <1>1 DEF Init, CacheTypes, Places, Holding

\* A read of one of the copies keeps the types.
LEMMA ReadTypes ==
    ASSUME CacheTypes, NEW r \in Requests, NEW copy \in {fresh, stale},
           NEW found \in Places, NEW missing \in Places \ Holding, pc[r] \notin Holding,
           Read(r, copy, found, missing), UNCHANGED <<setup, now, chain, fresh, stale, served>>,
           floor' \in [Requests -> Nat]
    PROVE  CacheTypes'
  <1>1. copy \in Copy \cup {None} /\ missing \in Places
    BY DEF CacheTypes
  <1>2. /\ pc' \in [Requests -> Places] /\ data' \in [Requests -> Data \cup {None}]
        /\ \A q \in Requests \ {r} : pc'[q] = pc[q] /\ data'[q] = data[q]
        /\ \/ Live(copy) /\ data'[r] = copy.val /\ pc'[r] = found
           \/ Missed(copy) /\ data'[r] = data[r] /\ pc'[r] = missing
    BY <1>1, ReadFacts
  <1>3. Live(copy) => copy.val # None
    BY <1>1, CacheAssumption DEF Live, Copy
  <1>4. QED  BY <1>2, <1>3 DEF CacheTypes

\* Every step of fetchWithRetry keeps them.
LEMMA FetchTypes ==
    ASSUME CacheTypes, NEW r \in Requests, FetchWithRetry(r)
    PROVE  CacheTypes'
  <1>1. CASE Lookup(r)
    <2>1. "answered" \in Places
      BY DEF Places, AtRedis
    <2>2. (IF Gated THEN "gateStale" ELSE "decide") \in Places \ Holding
      BY DEF Places, AtRedis, Holding
    <2>3. QED  BY <1>1, <2>1, <2>2, ReadTypes DEF Lookup, Holding, CacheTypes, store
  <1>2. CASE GateReadsStale(r)
    <2>1. "gateTip" \in Places /\ "decide" \in Places \ Holding
      BY DEF Places, AtRedis, Holding
    <2>2. QED  BY <1>2, <2>1, ReadTypes DEF GateReadsStale, Holding, CacheTypes, store, ghosts
  <1>3. CASE BackoffReadsStale(r)
    <2>1. "answered" \in Places /\ "return" \in Places \ Holding
      BY DEF Places, AtRedis, Holding
    <2>2. QED  BY <1>3, <2>1, ReadTypes DEF BackoffReadsStale, Holding, CacheTypes, store, ghosts
  <1> USE LivesAreNat DEF CacheTypes, store, ghosts
  <1>4. CASE GateReadsTip(r) \/ Decide(r) \/ Follow(r) \/ Lead(r)
    BY <1>4 DEF GateReadsTip, Decide, Follow, Lead, StartAttempt, Go, Places, AtBody, AtRedis,
                Holding
  <1>5. CASE Inspect(r) \/ RecacheReadsTip(r)
    BY <1>5 DEF Inspect, RecacheReadsTip, Go, Places, AtRedis, Holding
  <1>6. CASE GateReadsMarker(r)
    BY <1>6 DEF GateReadsMarker, Go, Take, Places, AtRedis, Holding
  <1>7. CASE RecacheFresh(r) \/ RecacheStale(r)
    <2>1. data[r] \in Data
      BY <1>7 DEF RecacheFresh, RecacheStale, Holding
    <2>2. fresh' \in Copy \cup {None} /\ stale' \in Copy \cup {None}
      BY <1>7, <2>1, WriteType DEF RecacheFresh, RecacheStale
    <2>3. QED  BY <1>7, <2>2 DEF RecacheFresh, RecacheStale, Go, Places, AtRedis, Holding
  <1>8. CASE RecacheMarker(r) \/ ClearMarker(r)
    BY <1>8 DEF RecacheMarker, ClearMarker, Go, Places, AtRedis, Holding
  <1>9. CASE Return(r)
    <2>1. served' \in Nat
      <3>1. CASE data[r] # None
        <4>1. data[r].born \in Nat
          BY <3>1 DEF Data
        <4>2. QED  BY <1>9, <4>1 DEF Return
      <3>2. QED  BY <1>9, <3>1 DEF Return
    <2>2. QED  BY <1>9, <2>1 DEF Return, Go, Take, Places, AtRedis, Holding
  <1>10. QED
    BY <1>1, <1>2, <1>3, <1>4, <1>5, <1>6, <1>7, <1>8, <1>9 DEF FetchWithRetry

\* Every step of executeRequest keeps them.
LEMMA RunTypes ==
    ASSUME CacheTypes, NEW r \in Requests, ExecuteRequest(r)
    PROVE  CacheTypes'
  <1> USE DEF CacheTypes, store, ghosts
  <1>1. ASSUME NEW v \in Data \cup {None}, Settle(r, v),
               setup' = setup, now' = now, chain' = chain,
               fresh' \in Copy \cup {None}, stale' \in Copy \cup {None},
               served' = served, floor' = floor
        PROVE  CacheTypes'
    <2>1. \A q \in Requests : pc'[q] \in Holding => data'[q] # None
      BY <1>1, SettleFacts DEF Holding
    <2>2. QED  BY <1>1, <2>1, SettleFacts
  <1>2. CASE TokenComes(r) \/ RateLimited(r) \/ AuthRejected(r)
    BY <1>2 DEF TokenComes, RateLimited, AuthRejected, StartAttempt, Go, Places, AtBody,
                AtRedis, Holding
  <1>3. CASE LimitedReadsStale(r)
    <2>1. CASE Live(stale) /\ Settle(r, stale.val)
      <3>1. stale.val \in Data
        BY <2>1 DEF Live, Copy
      <3>2. QED  BY <1>1, <1>3, <2>1, <3>1 DEF LimitedReadsStale
    <2>2. CASE Sleep(r) /\ UNCHANGED data
      BY <1>3, <2>2 DEF LimitedReadsStale, Sleep, Go, Places, Holding
    <2>3. QED  BY <1>3, <2>1, <2>2 DEF LimitedReadsStale
  <1>4. CASE Fails(r)
    <2>1. CASE Settle(r, None)
      BY <1>1, <1>4, <2>1 DEF Fails
    <2>2. CASE Sleep(r) /\ Take(r, None)
      BY <1>4, <2>2 DEF Fails, Sleep, Take, Go, Places, Holding
    <2>3. QED  BY <1>4, <2>1, <2>2 DEF Fails
  <1>5. CASE Wake(r)
    <2>1. CASE Settle(r, None)
      BY <1>1, <1>5, <2>1 DEF Wake
    <2>2. CASE StartAttempt(r) /\ UNCHANGED data
      BY <1>5, <2>2 DEF Wake, StartAttempt, Go, Places, AtBody, Holding
    <2>3. QED  BY <1>5, <2>1, <2>2 DEF Wake
  <1>6. CASE Answers(r)
    BY <1>6, AnswerType DEF Answers, Take, Go, Places, AtBody, Holding
  <1>7. CASE WriteFresh(r) \/ WriteStale(r)
    <2>1. data[r] \in Data
      BY <1>7 DEF WriteFresh, WriteStale, Holding
    <2>2. fresh' \in Copy \cup {None} /\ stale' \in Copy \cup {None}
      BY <1>7, <2>1, WriteType, LivesAreNat DEF WriteFresh, WriteStale, Life
    <2>3. CASE Settle(r, data[r])
      BY <1>1, <1>7, <2>1, <2>2, <2>3 DEF WriteFresh, WriteStale
    <2>4. CASE Go(r, "writeStale") /\ UNCHANGED data
      BY <1>7, <2>1, <2>2, <2>4 DEF WriteFresh, WriteStale, Go, Places, AtRedis, Holding
    <2>5. QED  BY <1>7, <2>3, <2>4 DEF WriteFresh, WriteStale
  <1>8. CASE Succeeds(r)
    <2>1. data[r] \in Data
      BY <1>8 DEF Succeeds, Holding
    <2>2. QED  BY <1>8, <2>1, BodyType DEF Succeeds, Take, Go, Places, AtRedis, Holding
  <1>9. QED  BY <1>2, <1>3, <1>4, <1>5, <1>6, <1>7, <1>8 DEF ExecuteRequest

\* The steps that are no request's own.
World == ClassRateLimited \/ TipFetched \/ ChainMoves \/ Tick \/ UNCHANGED vars

\* So does what happens around the requests.
LEMMA WorldTypes == ASSUME CacheTypes, World PROVE CacheTypes'
  <1>1. chain' \in [ver : Nat, tip : Nat, conf : BOOLEAN]
    <2>1. CASE ChainMoves
      <3>1. chain.ver + 1 \in Nat /\ chain.tip + 1 \in Nat
        BY DEF CacheTypes
      <3>2. chain = [ver |-> chain.ver, tip |-> chain.tip, conf |-> chain.conf]
        BY DEF CacheTypes
      <3>3. CASE chain' = [ver |-> chain.ver + 1, tip |-> chain.tip + 1, conf |-> TRUE]
        BY <3>1, <3>3
      <3>4. CASE chain' = [chain EXCEPT !.ver = @ + 1, !.conf = FALSE]
        <4>1. chain' = [ver |-> chain.ver + 1, tip |-> chain.tip, conf |-> FALSE]
          BY <3>2, <3>4
        <4>2. QED  BY <3>1, <4>1 DEF CacheTypes
      <3>5. QED  BY <2>1, <3>3, <3>4 DEF ChainMoves
    <2>2. CASE ~ChainMoves
      BY <2>2 DEF CacheTypes, World, ClassRateLimited, TipFetched, Tick, vars
    <2>3. QED  BY <2>1, <2>2
  <1>2. now' \in Nat
    BY DEF CacheTypes, World, ClassRateLimited, TipFetched, ChainMoves, Tick, vars
  <1>3. UNCHANGED <<setup, fresh, stale, pc, data, served, floor>>
    BY DEF World, ClassRateLimited, TipFetched, ChainMoves, Tick, vars, store, ghosts
  <1>4. QED  BY <1>1, <1>2, <1>3 DEF CacheTypes

\* What a step is: one of the world around, or one of a request.
LEMMA Steps ==
    ASSUME [Next]_vars
    PROVE  World \/ \E r \in Requests : FetchWithRetry(r) \/ ExecuteRequest(r)
  BY DEF Next, World, TimeIsUp

-----------------------------------------------------------------------------
(* One run at a time *)

\* A second run, started while one is under way, is noted.
LEMMA OneRunKept ==
    ASSUME CacheTypes, ~overlapped => OneRun,
           World \/ \E r \in Requests : FetchWithRetry(r) \/ ExecuteRequest(r)
    PROVE  ~overlapped' => OneRun' /\ ~overlapped
  <1>1. CASE World
    BY <1>1 DEF OneRun, World, ClassRateLimited, TipFetched, ChainMoves, Tick, vars, flight
  <1>2. ASSUME NEW r \in Requests, Lead(r) PROVE ~overlapped' => OneRun' /\ ~overlapped
    BY <1>2 DEF OneRun, CacheTypes, Lead, StartAttempt, Go, Running
  <1>3. ASSUME NEW r \in Requests, FetchWithRetry(r), ~Lead(r)
        PROVE  ~overlapped' => OneRun' /\ ~overlapped
    <2>1. \A q \in Requests : pc'[q] \in Running => pc[q] \in Running
      BY <1>3
         DEF CacheTypes, FetchWithRetry, Lookup, GateReadsStale, GateReadsTip, GateReadsMarker,
             Decide, Follow, BackoffReadsStale, Inspect, RecacheFresh, RecacheStale,
             RecacheReadsTip, RecacheMarker, ClearMarker, Return, Read, Go, Running, AtBody
    <2>2. overlapped' = overlapped
      BY <1>3
         DEF FetchWithRetry, Lookup, GateReadsStale, GateReadsTip, GateReadsMarker,
             Decide, Follow, BackoffReadsStale, Inspect, RecacheFresh, RecacheStale,
             RecacheReadsTip, RecacheMarker, ClearMarker, Return, flight
    <2>3. QED  BY <2>1, <2>2 DEF OneRun
  <1>4. ASSUME NEW r \in Requests, ExecuteRequest(r)
        PROVE  ~overlapped' => OneRun' /\ ~overlapped
    <2>1. pc[r] \in Running
      BY <1>4 DEF ExecuteRequest, TokenComes, RateLimited, LimitedReadsStale, AuthRejected,
                  Fails, Wake, Answers, Succeeds, WriteFresh, WriteStale, Running, AtBody
    <2>2. \A q \in Requests : pc'[q] \in Running => pc[q] \in Running
      <3>1. CASE \E v : Settle(r, v)
        BY <3>1 DEF CacheTypes, Settle, Running, AtBody
      <3>2. CASE \A q \in Requests \ {r} : pc'[q] = pc[q]
        BY <2>1, <3>2
      <3>3. QED
        BY <1>4, <3>1, <3>2
           DEF ExecuteRequest, TokenComes, RateLimited, LimitedReadsStale, AuthRejected, Fails,
               Wake, Answers, Succeeds, WriteFresh, WriteStale, Sleep, StartAttempt, Go,
               CacheTypes
    <2>3. overlapped' = overlapped
      BY <1>4 DEF ExecuteRequest, TokenComes, RateLimited, LimitedReadsStale, AuthRejected,
                  Fails, Wake, Answers, Succeeds, WriteFresh, WriteStale, flight
    <2>4. QED  BY <2>2, <2>3 DEF OneRun
  <1>5. QED  BY <1>1, <1>2, <1>3, <1>4

-----------------------------------------------------------------------------
(* The age of what a request has in hand *)

\* Without the gate a request has only these steps outside of a run.
LEMMA PlainFetch ==
    ASSUME CacheTypes, AgeInv, ~Gated, NEW r \in Requests, FetchWithRetry(r)
    PROVE  \/ Lookup(r) \/ BackoffReadsStale(r) \/ Inspect(r) \/ Return(r)
           \/ Decide(r) \/ Follow(r) \/ Lead(r)
  <1>1. pc[r] \in {"body", "writeFresh", "writeStale", "answered", "return"} \cup Empty
    BY DEF AgeInv, HandsOK
  <1>2. QED
    BY <1>1 DEF Empty, FetchWithRetry, GateReadsStale, GateReadsTip, GateReadsMarker,
                RecacheFresh, RecacheStale, RecacheReadsTip, RecacheMarker, ClearMarker

\* A copy that is live is young enough to be given.
LEMMA LiveIsYoung ==
    ASSUME CacheTypes, AgeInv, NEW copy \in {fresh, stale}, Live(copy)
    PROVE  /\ copy.val \in Data /\ copy.val # None /\ copy.val.at \in Nat
           /\ copy.val.at <= now /\ now <= copy.val.at + Life
           /\ copy.val.born \in Nat /\ copy.val.born <= now
  <1>1. copy \in Copy
    BY DEF CacheTypes, Live
  <1>2. /\ copy.val \in Data /\ copy.val.at \in Nat /\ copy.exp \in Nat /\ copy.val # None
        /\ copy.val.born \in Nat
    BY <1>1, CacheAssumption DEF Copy, Data
  <1>3. /\ copy.val.at <= now /\ copy.val.born <= now
        /\ copy.exp <= copy.val.at + Ttl \/ copy.exp <= copy.val.at + Life
    BY DEF AgeInv, CopyOK, Live
  <1>4. now < copy.exp /\ now \in Nat
    BY DEF CacheTypes, Live
  <1>5. QED  BY <1>2, <1>3, <1>4, LivesAreNat

\* What a step of r takes is young enough, and nobody else is concerned.
LEMMA AgeOfOne ==
    ASSUME CacheTypes', AgeInv, NEW r \in Requests,
           UNCHANGED <<now, fresh, stale>>,
           \A q \in Requests \ {r} : pc'[q] = pc[q] /\ data'[q] = data[q],
           HandsOK(r)',
           data'[r] # None => data'[r].at <= now /\ data'[r].born <= now,
           data'[r] # None /\ pc'[r] # "body" => now <= data'[r].at + Life,
           pc'[r] \in {"writeFresh", "writeStale"} => data'[r].at = now
    PROVE  AgeInv'
  BY DEF AgeInv, CopyOK, HandsOK

\* A step of fetchWithRetry keeps the ages of the copies and of the answers.
LEMMA FetchAges ==
    ASSUME CacheTypes, CacheTypes', AgeInv, ~Gated, NEW r \in Requests, FetchWithRetry(r)
    PROVE  AgeInv'
  <1>0. HandsOK(r) /\ now \in Nat
    BY DEF AgeInv, CacheTypes
  <1>1. CASE Lookup(r)
    <2>1. Read(r, fresh, "answered", "decide") /\ {"answered", "decide"} \subseteq Places
      BY <1>1 DEF Lookup, Places, AtRedis
    <2>2. UNCHANGED <<now, fresh, stale>> /\ pc[r] = "idle"
      BY <1>1 DEF Lookup, store
    <2>3. data[r] = None /\ fresh \in Copy \cup {None} /\ stale \in Copy \cup {None}
      BY <1>0, <2>2 DEF HandsOK, Empty, CacheTypes
    <2>4. /\ \A q \in Requests \ {r} : pc'[q] = pc[q] /\ data'[q] = data[q]
          /\ \/ Live(fresh) /\ data'[r] = fresh.val /\ pc'[r] = "answered"
             \/ data'[r] = None /\ pc'[r] = "decide"
      BY <2>1, <2>3, ReadFacts
    <2>5. QED  BY <2>2, <2>4, LiveIsYoung, AgeOfOne DEF HandsOK, Empty
  <1>2. CASE BackoffReadsStale(r)
    <2>1. Read(r, stale, "answered", "return") /\ {"answered", "return"} \subseteq Places
      BY <1>2 DEF BackoffReadsStale, Places, AtRedis
    <2>2. UNCHANGED <<now, fresh, stale>> /\ pc[r] = "backoff"
      BY <1>2 DEF BackoffReadsStale, store
    <2>3. data[r] = None /\ fresh \in Copy \cup {None} /\ stale \in Copy \cup {None}
      BY <1>0, <2>2 DEF HandsOK, Empty, CacheTypes
    <2>4. /\ \A q \in Requests \ {r} : pc'[q] = pc[q] /\ data'[q] = data[q]
          /\ \/ Live(stale) /\ data'[r] = stale.val /\ pc'[r] = "answered"
             \/ data'[r] = None /\ pc'[r] = "return"
      BY <2>1, <2>3, ReadFacts
    <2>5. QED  BY <2>2, <2>4, LiveIsYoung, AgeOfOne DEF HandsOK, Empty
  <1>3. CASE Decide(r) \/ Follow(r) \/ Lead(r)
    <2>1. /\ UNCHANGED <<now, fresh, stale>> /\ data' = data /\ pc[r] = "decide"
          /\ \A q \in Requests \ {r} : pc'[q] = pc[q]
          /\ pc'[r] \in {"backoff", "following", "token", "attempt"}
      BY <1>3 DEF Decide, Follow, Lead, StartAttempt, Go, store, CacheTypes
    <2>2. data[r] = None
      BY <1>0, <2>1 DEF HandsOK, Empty
    <2>3. QED  BY <2>1, <2>2, AgeOfOne DEF HandsOK, Empty
  <1>4. CASE Inspect(r)
    <2>1. /\ UNCHANGED <<now, fresh, stale>> /\ data' = data /\ pc[r] = "answered"
          /\ \A q \in Requests \ {r} : pc'[q] = pc[q]
          /\ pc'[r] = "return"
      BY <1>4 DEF Inspect, Go, store, CacheTypes
    <2>2. data[r] # None =>
            data[r].at <= now /\ data[r].born <= now /\ now <= data[r].at + Life
      BY <2>1 DEF AgeInv
    <2>3. QED  BY <2>1, <2>2, AgeOfOne DEF HandsOK, Empty
  <1>5. CASE Return(r)
    <2>1. /\ UNCHANGED <<now, fresh, stale>>
          /\ \A q \in Requests \ {r} : pc'[q] = pc[q] /\ data'[q] = data[q]
          /\ pc'[r] = "idle" /\ data'[r] = None
      BY <1>5 DEF Return, Go, Take, store, CacheTypes
    <2>2. QED  BY <2>1, AgeOfOne DEF HandsOK, Empty
  <1>6. QED  BY <1>1, <1>2, <1>3, <1>4, <1>5, PlainFetch

\* A run is settled with what is young enough.
LEMMA AgeOfSettled ==
    ASSUME CacheTypes, CacheTypes', AgeInv, NEW r \in Requests,
           NEW v \in Data \cup {None}, Settle(r, v),
           v # None => v.at <= now /\ v.born <= now /\ now <= v.at + Life,
           now' = now,
           fresh' # None => CopyOK(fresh, Ttl)',
           stale' # None => CopyOK(stale, Life)'
    PROVE  AgeInv'
  <1>1. ASSUME NEW q \in Requests
        PROVE  /\ HandsOK(q)'
               /\ data'[q] # None => data'[q].at <= now' /\ data'[q].born <= now'
               /\ data'[q] # None /\ pc'[q] # "body" => now' <= data'[q].at + Life
               /\ pc'[q] \in {"writeFresh", "writeStale"} => data'[q].at = now'
    <2>1. CASE q \in Those(r)
      <3>1. data'[q] = v /\ pc'[q] = IF v = None THEN "return" ELSE "answered"
        BY <2>1, SettleFacts
      <3>2. QED  BY <3>1 DEF HandsOK, Empty
    <2>2. CASE q \notin Those(r)
      <3>1. data'[q] = data[q] /\ pc'[q] = pc[q]
        BY <2>2, SettleFacts
      <3>2. QED  BY <3>1 DEF AgeInv, HandsOK
    <2>3. QED  BY <2>1, <2>2
  <1>2. QED  BY <1>1 DEF AgeInv

\* A step of executeRequest keeps them.
LEMMA RunAges ==
    ASSUME CacheTypes, CacheTypes', AgeInv, ~Gated, NEW r \in Requests, ExecuteRequest(r)
    PROVE  AgeInv'
  <1>0. /\ HandsOK(r) /\ now \in Nat
        /\ fresh # None => CopyOK(fresh, Ttl)
        /\ stale # None => CopyOK(stale, Life)
    BY DEF AgeInv, CacheTypes
  \* Steps after which r has nothing in hand.
  <1>1. ASSUME pc' = [pc EXCEPT ![r] = pc'[r]], UNCHANGED <<now, fresh, stale>>,
               \A q \in Requests \ {r} : data'[q] = data[q],
               data'[r] = None, pc'[r] \in Empty
        PROVE  AgeInv'
    <2>1. \A q \in Requests \ {r} : pc'[q] = pc[q]
      BY <1>1 DEF CacheTypes
    <2>2. HandsOK(r)' /\ pc'[r] \notin {"writeFresh", "writeStale"}
      BY <1>1 DEF HandsOK, Empty
    <2>3. QED  BY <1>1, <2>1, <2>2, AgeOfOne
  \* Steps that settle without storing.
  <1>2. ASSUME NEW v \in Data \cup {None}, Settle(r, v), UNCHANGED <<now, fresh, stale>>,
               v # None => v.at <= now /\ v.born <= now /\ now <= v.at + Life
        PROVE  AgeInv'
    <2>1. (fresh' # None => CopyOK(fresh, Ttl)') /\ (stale' # None => CopyOK(stale, Life)')
      BY <1>0, <1>2 DEF CopyOK
    <2>2. QED  BY <1>2, <2>1, AgeOfSettled
  <1>3. CASE TokenComes(r) \/ RateLimited(r) \/ AuthRejected(r)
    <2>1. pc[r] \in Empty /\ data' = data /\ pc'[r] \in Empty /\ pc' = [pc EXCEPT ![r] = pc'[r]]
      BY <1>3 DEF TokenComes, RateLimited, AuthRejected, StartAttempt, Go, Empty, CacheTypes
    <2>2. data[r] = None
      BY <1>0, <2>1 DEF HandsOK
    <2>3. QED  BY <1>1, <1>3, <2>1, <2>2 DEF TokenComes, RateLimited, AuthRejected, store
  <1>4. CASE LimitedReadsStale(r)
    <2>1. CASE Live(stale) /\ Settle(r, stale.val)
      BY <1>2, <1>4, <2>1, LiveIsYoung DEF LimitedReadsStale, store
    <2>2. CASE Sleep(r) /\ UNCHANGED data
      <3>1. data[r] = None
        BY <1>0, <1>4 DEF LimitedReadsStale, HandsOK, Empty
      <3>2. QED  BY <1>1, <1>4, <2>2, <3>1 DEF LimitedReadsStale, Sleep, Go, store, Empty, CacheTypes
    <2>3. QED  BY <1>4, <2>1, <2>2 DEF LimitedReadsStale
  <1>5. CASE Fails(r)
    <2>1. CASE Settle(r, None)
      BY <1>2, <1>5, <2>1 DEF Fails, store
    <2>2. CASE Sleep(r) /\ Take(r, None)
      BY <1>1, <1>5, <2>2 DEF Fails, Sleep, Take, Go, store, Empty, CacheTypes
    <2>3. QED  BY <1>5, <2>1, <2>2 DEF Fails
  <1>6. CASE Wake(r)
    <2>1. CASE Settle(r, None)
      BY <1>2, <1>6, <2>1 DEF Wake, store
    <2>2. CASE StartAttempt(r) /\ UNCHANGED data
      <3>1. data[r] = None
        BY <1>0, <1>6 DEF Wake, HandsOK, Empty
      <3>2. QED  BY <1>1, <1>6, <2>2, <3>1 DEF Wake, StartAttempt, Go, store, Empty, CacheTypes
    <2>3. QED  BY <1>6, <2>1, <2>2 DEF Wake
  <1>7. CASE Answers(r) \/ Succeeds(r)
    <2>1. /\ UNCHANGED <<now, fresh, stale>> /\ pc'[r] \in {"body", "writeFresh"}
          /\ \A q \in Requests \ {r} : pc'[q] = pc[q] /\ data'[q] = data[q]
      BY <1>7 DEF Answers, Succeeds, Go, Take, store, CacheTypes
    <2>2. HandsOK(r)'
      BY <2>1 DEF HandsOK, Empty
    <2>3. data'[r].at = now /\ data'[r].born <= now
      <3>1. CASE Answers(r)
        BY <1>0, <3>1, AnswerType DEF Answers, Take, CacheTypes
      <3>2. CASE Succeeds(r)
        <4>1. data[r] \in Data /\ data[r].born <= now
          BY <3>2 DEF Succeeds, CacheTypes, Holding, AgeInv
        <4>2. data'[r] = [data[r] EXCEPT !.at = now]
          BY <3>2 DEF Succeeds, Take, CacheTypes
        <4>3. QED  BY <4>1, <4>2, BodyType
      <3>3. QED  BY <1>7, <3>1, <3>2
    <2>4. now <= now /\ now <= now + Life
      BY <1>0, LivesAreNat
    <2>5. QED  BY <2>1, <2>2, <2>3, <2>4, AgeOfOne
  <1>8. CASE WriteFresh(r) \/ WriteStale(r)
    <2>1. /\ data[r] \in Data /\ data[r].at = now /\ data[r].born <= now /\ now' = now
      BY <1>8 DEF WriteFresh, WriteStale, CacheTypes, Holding, AgeInv
    <2>2. now <= now /\ now <= now + Life
      BY <1>0, LivesAreNat
    <2>3. ASSUME NEW ttl \in Nat, NEW c, c = Write(data[r], ttl)
          PROVE  c.val.at <= now /\ c.val.born <= now /\ c.exp <= c.val.at + ttl
      <3>1. c.val = data[r] /\ c.exp = now + ttl
        BY <1>0, <2>1, <2>3, WriteType
      <3>2. now + ttl <= now + ttl
        BY <1>0, <2>3
      <3>3. QED  BY <2>1, <2>2, <3>1, <3>2
    <2>4. fresh' # None => CopyOK(fresh, Ttl)'
      BY <1>0, <1>8, <2>1, <2>3, LivesAreNat DEF WriteFresh, WriteStale, CopyOK
    <2>5. stale' # None => CopyOK(stale, Life)'
      BY <1>0, <1>8, <2>1, <2>3, LivesAreNat DEF WriteFresh, WriteStale, CopyOK, Life
    <2>6. CASE Settle(r, data[r])
      BY <2>1, <2>2, <2>4, <2>5, <2>6, AgeOfSettled
    <2>7. CASE Go(r, "writeStale") /\ UNCHANGED data
      <3>1. /\ pc'[r] = "writeStale" /\ data' = data
            /\ \A q \in Requests \ {r} : pc'[q] = pc[q]
        BY <2>7 DEF Go, CacheTypes
      <3>2. \A q \in Requests : HandsOK(q)'
        BY <3>1 DEF AgeInv, HandsOK, Empty
      <3>3. pc[r] # "body"
        BY <1>8 DEF WriteFresh, WriteStale
      <3>4. QED  BY <2>1, <2>4, <2>5, <3>1, <3>2, <3>3 DEF AgeInv
    <2>8. QED  BY <1>8, <2>6, <2>7 DEF WriteFresh, WriteStale
  <1>9. QED  BY <1>3, <1>4, <1>5, <1>6, <1>7, <1>8 DEF ExecuteRequest

\* A second passes only while nobody has an answer in hand whose body is there.
LEMMA WorldAges ==
    ASSUME CacheTypes, AgeInv, World
    PROVE  AgeInv'
  <1>1. UNCHANGED <<fresh, stale, pc, data>>
    BY DEF World, ClassRateLimited, TipFetched, ChainMoves, Tick, vars, store
  <1>2. CASE Tick
    <2>1. \A r \in Requests : pc[r] \in Empty \cup {"body"}
      BY <1>2 DEF Tick, AtRedis, AgeInv, HandsOK
    <2>2. \A r \in Requests : (data[r] = None \/ pc[r] = "body") /\ HandsOK(r)'
      BY <1>1, <2>1 DEF AgeInv, HandsOK
    <2>3. now' = now + 1 /\ now \in Nat
      BY <1>2 DEF Tick, CacheTypes
    <2>4. /\ fresh # None => fresh.val.at \in Nat /\ fresh.val.born \in Nat
          /\ stale # None => stale.val.at \in Nat /\ stale.val.born \in Nat
          /\ \A r \in Requests :
               data[r] # None => data[r].at \in Nat /\ data[r].born \in Nat
      BY DEF CacheTypes, Copy, Data
    <2>5. (fresh' # None => CopyOK(fresh, Ttl)') /\ (stale' # None => CopyOK(stale, Life)')
      BY <1>1, <2>3, <2>4 DEF AgeInv, CopyOK
    <2>6. ASSUME NEW r \in Requests
          PROVE  /\ data'[r] # None => data'[r].at <= now' /\ data'[r].born <= now'
                 /\ pc'[r] \notin {"writeFresh", "writeStale"}
                 /\ data'[r] # None => pc'[r] = "body"
      BY <1>1, <2>1, <2>2, <2>3, <2>4 DEF AgeInv, Empty
    <2>7. QED  BY <2>2, <2>5, <2>6 DEF AgeInv
  <1>3. CASE ~Tick
    <2>1. now' = now
      BY <1>3 DEF World, ClassRateLimited, TipFetched, ChainMoves, vars
    <2>2. QED  BY <1>1, <2>1 DEF AgeInv, CopyOK, HandsOK
  <1>4. QED  BY <1>2, <1>3

-----------------------------------------------------------------------------
(* Answers do not get older *)

\* The times that the proof compares are numbers.
LEMMA TimesAreNat ==
    ASSUME CacheTypes
    PROVE  /\ FreshAt \in Nat /\ StaleAt \in Nat /\ Known \in Nat /\ served \in Nat /\ now \in Nat
           /\ \A r \in Requests :
                floor[r] \in Nat
                /\ (data[r] # None => data[r].at \in Nat /\ data[r].born \in Nat)
           /\ \A v \in Data : v.at \in Nat /\ v.born \in Nat
  BY DEF CacheTypes, FreshAt, StaleAt, Known, Copy, Data

\* Nobody else is between the writes of a run.
LEMMA WriterIsTheRun ==
    ASSUME OneRun, NEW r \in Requests, pc[r] \in Running
    PROVE  BetweenWrites <=> pc[r] = "writeStale"
  BY DEF OneRun, BetweenWrites, Running

\* A step of r that writes nothing.
LEMMA ReadsOfOne ==
    ASSUME CacheTypes, ReadsInv, NEW r \in Requests,
           UNCHANGED <<now, fresh, stale>>,
           \A q \in Requests \ {r} :
             pc'[q] = pc[q] /\ data'[q] = data[q] /\ floor'[q] = floor[q],
           pc[r] # "writeStale", pc'[r] # "writeStale",
           served' <= Known,
           pc'[r] \in Empty \cup {"body", "writeFresh"} => floor'[r] <= StaleAt,
           pc'[r] \in {"body", "writeFresh"} => FreshAt <= data'[r].born,
           pc'[r] \in {"answered", "return"} /\ data'[r] # None =>
             floor'[r] <= data'[r].born /\ data'[r].born <= Known
    PROVE  ReadsInv'
  <1>1. /\ BetweenWrites' = BetweenWrites /\ FreshAt' = FreshAt /\ StaleAt' = StaleAt
        /\ Live(fresh)' = Live(fresh)
    BY DEF BetweenWrites, FreshAt, StaleAt, Live
  <1>2. Known' = Known
    BY <1>1 DEF Known
  <1>3. QED  BY <1>1, <1>2 DEF ReadsInv

\* What Redis holds is no older than what was given before.
LEMMA CopiesAreNew ==
    ASSUME CacheTypes, ReadsInv
    PROVE  /\ Live(fresh) => FreshAt = fresh.val.born /\ FreshAt = Known
           /\ ~Live(fresh) => Known = StaleAt
           /\ Live(stale) => StaleAt = stale.val.born
           /\ StaleAt <= Known
  BY TimesAreNat DEF ReadsInv, Known, FreshAt, StaleAt, Live

\* A step of fetchWithRetry answers nobody with older data.
LEMMA FetchReads ==
    ASSUME CacheTypes, AgeInv, ReadsInv, ~Gated, ~RedisFails,
           NEW r \in Requests, FetchWithRetry(r)
    PROVE  ReadsInv'
  <1>0. /\ fresh \in Copy \cup {None} /\ stale \in Copy \cup {None} /\ HandsOK(r)
        /\ served <= Known
    BY DEF CacheTypes, ReadsInv, AgeInv
  <1>1. CASE Lookup(r)
    <2>1. Read(r, fresh, "answered", "decide") /\ {"answered", "decide"} \subseteq Places
      BY <1>1 DEF Lookup, Places, AtRedis
    <2>2. UNCHANGED <<now, fresh, stale, served>> /\ pc[r] = "idle"
      BY <1>1 DEF Lookup, store
    <2>3. /\ \A q \in Requests \ {r} : pc'[q] = pc[q] /\ data'[q] = data[q]
          /\ \/ Live(fresh) /\ data'[r] = fresh.val /\ pc'[r] = "answered"
             \/ ~Live(fresh) /\ pc'[r] = "decide"
      BY <1>0, <2>1, ReadFacts DEF Missed
    <2>4. floor'[r] = served /\ \A q \in Requests \ {r} : floor'[q] = floor[q]
      BY <1>1 DEF Lookup, CacheTypes
    <2>5. QED  BY <1>0, <2>2, <2>3, <2>4, CopiesAreNew, TimesAreNat, ReadsOfOne DEF Empty
  <1>2. CASE BackoffReadsStale(r)
    <2>1. Read(r, stale, "answered", "return") /\ {"answered", "return"} \subseteq Places
      BY <1>2 DEF BackoffReadsStale, Places, AtRedis
    <2>2. UNCHANGED <<now, fresh, stale, served, floor>> /\ pc[r] = "backoff"
      BY <1>2 DEF BackoffReadsStale, store, ghosts
    <2>3. data[r] = None /\ floor[r] <= StaleAt
      BY <1>0, <2>2 DEF HandsOK, Empty, ReadsInv
    <2>4. /\ \A q \in Requests \ {r} : pc'[q] = pc[q] /\ data'[q] = data[q]
          /\ \/ Live(stale) /\ data'[r] = stale.val /\ pc'[r] = "answered"
             \/ data'[r] = None /\ pc'[r] = "return"
      BY <1>0, <2>1, <2>3, ReadFacts
    <2>5. QED  BY <1>0, <2>2, <2>3, <2>4, CopiesAreNew, TimesAreNat, ReadsOfOne DEF Empty
  <1>3. CASE Decide(r) \/ Follow(r) \/ Lead(r)
    <2>1. /\ UNCHANGED <<now, fresh, stale, data, served, floor>> /\ pc[r] = "decide"
          /\ \A q \in Requests \ {r} : pc'[q] = pc[q]
          /\ pc'[r] \in {"backoff", "following", "token", "attempt"}
      BY <1>3 DEF Decide, Follow, Lead, StartAttempt, Go, store, ghosts, CacheTypes
    <2>2. floor[r] <= StaleAt
      BY <2>1 DEF ReadsInv, Empty
    <2>3. QED  BY <1>0, <2>1, <2>2, ReadsOfOne
  <1>4. CASE Inspect(r)
    <2>1. /\ UNCHANGED <<now, fresh, stale, data, served, floor>> /\ pc[r] = "answered"
          /\ \A q \in Requests \ {r} : pc'[q] = pc[q]
          /\ pc'[r] = "return"
      BY <1>4 DEF Inspect, Go, store, ghosts, CacheTypes
    <2>2. data[r] # None => floor[r] <= data[r].born /\ data[r].born <= Known
      BY <2>1 DEF ReadsInv
    <2>3. QED  BY <1>0, <2>1, <2>2, ReadsOfOne DEF Empty
  <1>5. CASE Return(r)
    <2>1. /\ UNCHANGED <<now, fresh, stale>> /\ pc[r] = "return"
          /\ \A q \in Requests \ {r} :
               pc'[q] = pc[q] /\ data'[q] = data[q] /\ floor'[q] = floor[q]
          /\ pc'[r] = "idle" /\ data'[r] = None /\ floor'[r] = 0
      BY <1>5 DEF Return, Go, Take, store, CacheTypes
    <2>2. served' <= Known
      BY <1>0, <1>5, <2>1 DEF Return, ReadsInv
    <2>3. QED  BY <2>1, <2>2, TimesAreNat, ReadsOfOne
  <1>6. QED  BY <1>1, <1>2, <1>3, <1>4, <1>5, PlainFetch

\* A run is settled with what is then the newest data.
LEMMA ReadsOfSettled ==
    ASSUME CacheTypes, OneRun, ReadsInv, NEW r \in Requests, pc[r] \in Running,
           CacheTypes', NEW v \in Data \cup {None}, Settle(r, v),
           UNCHANGED <<served, floor>>,
           FreshAt' = StaleAt', Known <= StaleAt',
           v # None => StaleAt <= v.born /\ v.born <= StaleAt'
    PROVE  ReadsInv'
  <1>1. /\ \A q \in Those(r) : pc[q] \in Running \cup {"following"}
        /\ Those(r) \subseteq Requests
    BY DEF Those
  <1>2. ~BetweenWrites' /\ \A q \in Requests : pc'[q] \notin {"body", "writeFresh", "writeStale"}
    <2>1. ASSUME NEW q \in Requests PROVE pc'[q] \notin {"body", "writeFresh", "writeStale"}
      <3>1. CASE q \in Those(r)
        BY <3>1, SettleFacts
      <3>2. CASE q \notin Those(r)
        BY <3>2, SettleFacts DEF OneRun, Running, AtBody
      <3>3. QED  BY <3>1, <3>2
    <2>2. QED  BY <2>1 DEF BetweenWrites
  <1>3. Known' = StaleAt' /\ StaleAt <= Known
    BY <1>2, CopiesAreNew DEF Known
  <1>4. /\ StaleAt \in Nat /\ Known \in Nat /\ StaleAt' \in Nat /\ served \in Nat
        /\ \A q \in Requests : floor[q] \in Nat /\ (data[q] # None => data[q].born \in Nat)
        /\ v # None => v.born \in Nat
    <2>1. StaleAt' \in Nat
      BY DEF CacheTypes, StaleAt, Copy, Data
    <2>2. QED  BY <2>1, TimesAreNat
  <1>5. ASSUME NEW q \in Requests
        PROVE  /\ pc'[q] \in Empty \cup {"body", "writeFresh", "writeStale"} =>
                    floor'[q] <= StaleAt'
               /\ pc'[q] \in {"answered", "return"} /\ data'[q] # None =>
                    floor'[q] <= data'[q].born /\ data'[q].born <= Known'
    <2>1. CASE q \in Those(r)
      <3>1. data'[q] = v /\ pc'[q] = IF v = None THEN "return" ELSE "answered"
        BY <2>1, SettleFacts
      <3>2. floor[q] <= StaleAt
        BY <1>1, <2>1 DEF ReadsInv, Running, AtBody, Empty
      <3>3. QED  BY <1>3, <1>4, <3>1, <3>2 DEF Empty
    <2>2. CASE q \notin Those(r)
      <3>1. data'[q] = data[q] /\ pc'[q] = pc[q]
        BY <2>2, SettleFacts
      <3>2. /\ pc[q] \in Empty \cup {"body", "writeFresh", "writeStale"} => floor[q] <= StaleAt
            /\ pc[q] \in {"answered", "return"} /\ data[q] # None =>
                 floor[q] <= data[q].born /\ data[q].born <= Known
        BY DEF ReadsInv
      <3>3. QED  BY <1>3, <1>4, <3>1, <3>2
    <2>3. QED  BY <2>1, <2>2
  <1>6. StaleAt' <= FreshAt' /\ served' <= Known'
    BY <1>3, <1>4 DEF ReadsInv
  <1>7. QED  BY <1>2, <1>5, <1>6 DEF ReadsInv

\* A step of executeRequest neither stores older data nor answers with it.
LEMMA RunReads ==
    ASSUME CacheTypes, CacheTypes', OneRun, AgeInv, ReadsInv, ~Gated, ~RedisFails,
           NEW r \in Requests, ExecuteRequest(r)
    PROVE  ReadsInv'
  <1>0. /\ served <= Known /\ StaleAt <= FreshAt /\ StaleAt <= Known
        /\ pc[r] \in Empty \cup {"body", "writeFresh", "writeStale"} => floor[r] <= StaleAt
    BY CopiesAreNew DEF ReadsInv
  \* Steps that go on.
  <1>1. ASSUME pc' = [pc EXCEPT ![r] = pc'[r]], UNCHANGED <<now, fresh, stale, served, floor>>,
               \A q \in Requests \ {r} : data'[q] = data[q],
               pc[r] \in Empty \cup {"body"}, pc'[r] \in Empty \cup {"body", "writeFresh"},
               pc'[r] \in {"body", "writeFresh"} => FreshAt <= data'[r].born
        PROVE  ReadsInv'
    <2>1. \A q \in Requests \ {r} : pc'[q] = pc[q] /\ data'[q] = data[q] /\ floor'[q] = floor[q]
      BY <1>1 DEF CacheTypes
    <2>2. /\ pc[r] # "writeStale" /\ pc'[r] \notin {"writeStale", "answered", "return"}
          /\ floor'[r] <= StaleAt
      BY <1>0, <1>1 DEF Empty
    <2>3. QED  BY <1>0, <1>1, <2>1, <2>2, ReadsOfOne
  \* Steps that settle without storing.
  <1>2. ASSUME NEW v \in Data \cup {None}, Settle(r, v), pc[r] \in Running \ {"writeStale"},
               UNCHANGED <<now, fresh, stale, served, floor>>, v # None => v.born = StaleAt
        PROVE  ReadsInv'
    <2>1. ~BetweenWrites
      BY <1>2, WriterIsTheRun
    <2>2. FreshAt = StaleAt /\ Known = StaleAt
      BY <2>1 DEF ReadsInv, Known
    <2>3. FreshAt' = FreshAt /\ StaleAt' = StaleAt
      BY <1>2 DEF FreshAt, StaleAt
    <2>4. QED  BY <1>2, <2>2, <2>3, ReadsOfSettled, TimesAreNat
  <1>3. CASE TokenComes(r) \/ RateLimited(r) \/ AuthRejected(r)
    <2>1. /\ pc[r] \in Empty /\ data' = data /\ pc'[r] \in Empty \ {"body", "writeFresh"}
          /\ pc' = [pc EXCEPT ![r] = pc'[r]] /\ UNCHANGED <<now, fresh, stale, served, floor>>
      BY <1>3 DEF TokenComes, RateLimited, AuthRejected, StartAttempt, Go, store, ghosts, Empty,
                  CacheTypes
    <2>2. QED  BY <1>1, <2>1
  <1>4. CASE LimitedReadsStale(r)
    <2>1. CASE Live(stale) /\ Settle(r, stale.val)
      <3>1. stale.val \in Data /\ stale.val.born = StaleAt
        BY <2>1, LiveIsYoung, CopiesAreNew
      <3>2. QED  BY <1>2, <1>4, <2>1, <3>1 DEF LimitedReadsStale, store, ghosts, Running
    <2>2. CASE Sleep(r) /\ UNCHANGED data
      BY <1>1, <1>4, <2>2 DEF LimitedReadsStale, Sleep, Go, store, ghosts, Empty, CacheTypes
    <2>3. QED  BY <1>4, <2>1, <2>2 DEF LimitedReadsStale
  <1>5. CASE Fails(r)
    <2>1. CASE Settle(r, None)
      BY <1>2, <1>5, <2>1 DEF Fails, store, ghosts, Running, AtBody
    <2>2. CASE Sleep(r) /\ Take(r, None)
      <3>1. /\ pc[r] \in Empty \cup {"body"} /\ pc' = [pc EXCEPT ![r] = pc'[r]]
            /\ pc'[r] = "sleep" /\ \A q \in Requests \ {r} : data'[q] = data[q]
            /\ UNCHANGED <<now, fresh, stale, served, floor>>
        BY <1>5, <2>2 DEF Fails, Sleep, Take, Go, store, ghosts, Empty, CacheTypes
      <3>2. QED  BY <1>1, <3>1 DEF Empty
    <2>3. QED  BY <1>5, <2>1, <2>2 DEF Fails
  <1>6. CASE Wake(r)
    <2>1. CASE Settle(r, None)
      BY <1>2, <1>6, <2>1 DEF Wake, store, ghosts, Running
    <2>2. CASE StartAttempt(r) /\ UNCHANGED data
      <3>1. /\ pc[r] \in Empty /\ pc' = [pc EXCEPT ![r] = pc'[r]]
            /\ pc'[r] \in {"token", "attempt"} /\ UNCHANGED <<now, fresh, stale, served, floor>>
        BY <1>6, <2>2 DEF Wake, StartAttempt, Go, store, ghosts, Empty, CacheTypes
      <3>2. QED  BY <1>1, <2>2, <3>1 DEF Empty
    <2>3. QED  BY <1>6, <2>1, <2>2 DEF Wake
  <1>7. CASE Answers(r) \/ Succeeds(r)
    <2>1. /\ pc[r] \in Empty \cup {"body"} /\ pc' = [pc EXCEPT ![r] = pc'[r]]
          /\ pc'[r] \in {"body", "writeFresh"} /\ \A q \in Requests \ {r} : data'[q] = data[q]
          /\ UNCHANGED <<now, fresh, stale, served, floor>>
      BY <1>7 DEF Answers, Succeeds, Go, Take, store, ghosts, Empty, CacheTypes
    <2>2. FreshAt <= data'[r].born
      <3>1. CASE Answers(r)
        <4>1. data'[r].born = now
          BY <3>1, AnswerType DEF Answers, Take, CacheTypes
        <4>2. FreshAt <= now
          BY TimesAreNat DEF FreshAt, AgeInv, CopyOK
        <4>3. QED  BY <4>1, <4>2
      <3>2. CASE Succeeds(r)
        <4>1. data[r] \in Data /\ FreshAt <= data[r].born
          BY <3>2 DEF Succeeds, CacheTypes, Holding, ReadsInv
        <4>2. data'[r] = [data[r] EXCEPT !.at = now]
          BY <3>2 DEF Succeeds, Take, CacheTypes
        <4>3. QED  BY <4>1, <4>2, BodyType
      <3>3. QED  BY <1>7, <3>1, <3>2
    <2>3. QED  BY <1>1, <2>1, <2>2
  <1>8. CASE WriteFresh(r)
    <2>1. /\ data[r] \in Data /\ FreshAt <= data[r].born /\ now' = now /\ ~BetweenWrites
          /\ FreshAt = StaleAt
      BY <1>8, WriterIsTheRun DEF WriteFresh, CacheTypes, Holding, AgeInv, ReadsInv, Running
    <2>2. /\ fresh' = Write(data[r], Ttl) /\ UNCHANGED <<stale, data, served, floor>>
          /\ pc'[r] = "writeStale" /\ \A q \in Requests \ {r} : pc'[q] = pc[q]
      BY <1>8 DEF WriteFresh, Go, CacheTypes, ghosts
    <2>3. FreshAt' = data[r].born /\ StaleAt' = StaleAt /\ BetweenWrites'
      BY <2>1, <2>2, WriteType, LivesAreNat, TimesAreNat DEF FreshAt, StaleAt, BetweenWrites
    <2>4. StaleAt <= data[r].born /\ data[r].born \in Nat
      BY <2>1, TimesAreNat
    <2>5. Known' \in {data[r].born, StaleAt} /\ Known = StaleAt /\ StaleAt <= Known'
      BY <2>1, <2>3, <2>4, TimesAreNat DEF Known
    <2>6. ASSUME NEW q \in Requests
          PROVE  /\ pc'[q] = "writeStale" => FreshAt' = data'[q].born
                 /\ pc'[q] \in {"body", "writeFresh"} => FreshAt' <= data'[q].born
                 /\ pc'[q] \in Empty \cup {"body", "writeFresh", "writeStale"} =>
                      floor'[q] <= StaleAt'
                 /\ pc'[q] \in {"answered", "return"} /\ data'[q] # None =>
                      floor'[q] <= data'[q].born /\ data'[q].born <= Known'
      <3>1. CASE q = r
        BY <1>0, <1>8, <2>1, <2>2, <2>3, <3>1 DEF WriteFresh
      <3>2. CASE q # r
        <4>1. pc[q] \notin {"body", "writeFresh", "writeStale"}
          BY <1>8, <3>2 DEF WriteFresh, OneRun, Running, AtBody
        <4>2. /\ pc[q] \in Empty => floor[q] <= StaleAt
              /\ pc[q] \in {"answered", "return"} /\ data[q] # None =>
                   floor[q] <= data[q].born /\ data[q].born <= StaleAt
          BY <2>5 DEF ReadsInv
        <4>3. data[q] # None => data[q].born \in Nat
          BY TimesAreNat
        <4>4. StaleAt \in Nat
          BY TimesAreNat
        <4>5. QED  BY <2>2, <2>3, <2>4, <2>5, <3>2, <4>1, <4>2, <4>3, <4>4
      <3>3. QED  BY <3>1, <3>2
    <2>7. StaleAt' <= FreshAt' /\ served' <= Known'
      <3>1. StaleAt \in Nat /\ served \in Nat /\ served <= StaleAt /\ served' = served
        BY <1>0, <2>2, <2>5, TimesAreNat
      <3>2. QED  BY <2>3, <2>4, <2>5, <3>1
    <2>8. QED  BY <2>3, <2>6, <2>7 DEF ReadsInv
  <1>9. CASE WriteStale(r)
    <2>1. /\ data[r] \in Data /\ data[r].born = FreshAt /\ pc[r] \in Running
      BY <1>9 DEF WriteStale, CacheTypes, Holding, ReadsInv, Running
    <2>2. /\ stale' = Write(data[r], Life) /\ fresh' = fresh /\ UNCHANGED <<served, floor>>
          /\ Settle(r, data[r])
      BY <1>9 DEF WriteStale, ghosts, Life
    <2>3. StaleAt' = data[r].born /\ FreshAt' = FreshAt
      BY <2>1, <2>2, WriteType, LivesAreNat, TimesAreNat DEF StaleAt, FreshAt
    <2>4. Known <= FreshAt
      BY <1>0, TimesAreNat DEF Known
    <2>5. QED  BY <1>0, <2>1, <2>2, <2>3, <2>4, ReadsOfSettled, TimesAreNat
  <1>10. QED  BY <1>3, <1>4, <1>5, <1>6, <1>7, <1>8, <1>9 DEF ExecuteRequest

\* What happens around the requests does not touch the copies.
LEMMA WorldReads ==
    ASSUME CacheTypes, ReadsInv, World
    PROVE  ReadsInv'
  <1>1. UNCHANGED <<fresh, stale, pc, data, served, floor>>
    BY DEF World, ClassRateLimited, TipFetched, ChainMoves, Tick, vars, store, ghosts
  <1>2. FreshAt' = FreshAt /\ StaleAt' = StaleAt /\ BetweenWrites' = BetweenWrites
    BY <1>1 DEF FreshAt, StaleAt, BetweenWrites
  <1>3. CASE Tick
    <2>1. ~BetweenWrites
      BY <1>3 DEF Tick, AtRedis, BetweenWrites
    <2>2. Known' = Known
      BY <1>2, <2>1 DEF Known
    <2>3. QED  BY <1>1, <1>2, <2>2 DEF ReadsInv
  <1>4. CASE ~Tick
    <2>1. now' = now
      BY <1>4 DEF World, ClassRateLimited, TipFetched, ChainMoves, vars
    <2>2. Known' = Known
      BY <1>1, <1>2, <2>1 DEF Known, Live
    <2>3. QED  BY <1>1, <1>2, <2>2 DEF ReadsInv
  <1>5. QED  BY <1>3, <1>4

-----------------------------------------------------------------------------
(* All steps *)

\* The cache starts in its invariant.
LEMMA CacheStarts == Init => CacheInv
  <1> SUFFICES ASSUME Init PROVE CacheInv
    OBVIOUS
  <1>1. CacheTypes
    BY TypesStart
  <1>2. OneRun /\ AgeInv
    BY DEF Init, OneRun, Running, AtBody, AgeInv, HandsOK, Empty
  <1>3. ReadsInv
    BY DEF Init, ReadsInv, BetweenWrites, Known, FreshAt, StaleAt, Empty
  <1>4. QED  BY <1>1, <1>2, <1>3 DEF CacheInv

\* Every step keeps the invariant of the cache.
LEMMA CacheKeeps == CacheInv /\ [Next]_vars => CacheInv'
  <1> SUFFICES ASSUME CacheInv, [Next]_vars PROVE CacheInv'
    OBVIOUS
  <1>0. CacheTypes /\ (~overlapped => OneRun)
    BY DEF CacheInv
  <1>1. CacheTypes'
    BY <1>0, Steps, FetchTypes, RunTypes, WorldTypes
  <1>2. ~overlapped' => OneRun' /\ ~overlapped
    BY <1>0, Steps, OneRunKept
  <1>3. setup' = setup
    <2>1. CASE World
      BY <2>1 DEF World, ClassRateLimited, TipFetched, ChainMoves, Tick, vars
    <2>2. ASSUME NEW r \in Requests, FetchWithRetry(r) PROVE setup' = setup
      BY <2>2 DEF FetchWithRetry, Lookup, GateReadsStale, GateReadsTip, GateReadsMarker, Decide,
                  Follow, Lead, BackoffReadsStale, Inspect, RecacheFresh, RecacheStale, RecacheReadsTip,
                  RecacheMarker, ClearMarker, Return
    <2>3. ASSUME NEW r \in Requests, ExecuteRequest(r) PROVE setup' = setup
      BY <2>3 DEF ExecuteRequest, TokenComes, RateLimited, LimitedReadsStale, AuthRejected,
                  Fails, Wake, Answers, Succeeds, WriteFresh, WriteStale
    <2>4. QED  BY <2>1, <2>2, <2>3, Steps
  <1>4. Gated' = Gated /\ RedisFails' = RedisFails
    BY <1>3 DEF Gated, RedisFails
  <1>5. ASSUME ~Gated PROVE AgeInv'
    <2>1. AgeInv
      BY <1>5 DEF CacheInv
    <2>2. QED  BY <1>0, <1>1, <1>5, <2>1, Steps, FetchAges, RunAges, WorldAges
  <1>6. ASSUME ~Gated, ~RedisFails, ~overlapped' PROVE ReadsInv'
    <2>1. AgeInv /\ ReadsInv /\ OneRun
      BY <1>2, <1>6 DEF CacheInv
    <2>2. QED  BY <1>0, <1>1, <1>6, <2>1, Steps, FetchReads, RunReads, WorldReads
  <1>7. QED  BY <1>1, <1>2, <1>4, <1>5, <1>6 DEF CacheInv

\* The inductive invariant holds in every state: two runs of the key under way at
\* once are noted; and if the endpoint is not tip-gated, every copy and every answer
\* in hand is within its life, and, as long as no two runs have been under way at
\* once, none was born before what a client has been given.
THEOREM CacheInvariance == Spec => []CacheInv
  BY CacheStarts, CacheKeeps, PTL DEF Spec

\* An answer of an endpoint that is not tip-gated is never older than the life of
\* its stale copy, whatever the cache, the back-off and the retries did to it.
THEOREM AnswersAreYoung == Spec => BoundedStaleness
  <1>1. CacheInv /\ [Next]_vars =>
          [\A r \in Requests : ~Gated /\ Returns(r) =>
             now - data[r].at <= StaleMult * Ttl]_vars
    <2> SUFFICES ASSUME CacheInv, NEW r \in Requests, ~Gated, Returns(r)
                 PROVE  now - data[r].at <= StaleMult * Ttl
      OBVIOUS
    <2>1. now <= data[r].at + Life /\ data[r].at \in Nat /\ now \in Nat
      BY TimesAreNat DEF CacheInv, AgeInv, Returns
    <2>2. QED  BY <2>1, LivesAreNat DEF Life
  <1>2. QED  BY <1>1, CacheInvariance, PTL DEF Spec, BoundedStaleness

\* While writes to Redis succeed and no two runs of the key have been under way at
\* once, a request that begins after an answer was given is not given an older one.
THEOREM AnswersGetNoOlder == Spec => MonotonicReads
  <1>1. CacheInv /\ [Next]_vars =>
          [\A r \in Requests : ~Gated /\ ~RedisFails /\ ~overlapped /\ Returns(r) =>
             data[r].born >= floor[r]]_vars
    <2> SUFFICES ASSUME CacheInv, NEW r \in Requests, ~Gated, ~RedisFails, ~overlapped,
                        Returns(r)
                 PROVE  data[r].born >= floor[r]
      OBVIOUS
    <2>1. /\ floor[r] <= data[r].born /\ data[r].born \in Nat /\ floor[r] \in Nat
      BY TimesAreNat DEF CacheInv, ReadsInv, Returns
    <2>2. QED  BY <2>1
  <1>2. QED  BY <1>1, CacheInvariance, PTL DEF Spec, MonotonicReads

-----------------------------------------------------------------------------
(* The rest of the types *)

\* What is left of the types, with what makes them inductive: a request that is
\* about to write a marker has read a tip.
BookTypes ==
    /\ marker \in Stamp \cup {None}
    /\ tipCache \in Stamp \cup {None}
    /\ backoffUntil \in Nat
    /\ errors \in Nat
    /\ seenTip \in [Requests -> Nat \cup {None}]
    /\ attempt \in [Requests -> 0..MaxRetries]
    /\ wakeAt \in [Requests -> Nat]
    /\ entry \in Entry \cup {None}
    /\ awaits \in [Requests -> Requests]
    /\ overlapped \in BOOLEAN
    /\ \A r \in Requests : pc[r] = "recacheMarker" => seenTip[r] \in Nat

\* Induction without an operator for the predicate: sets of numbers stand for it.
Below == {p \in Nat \X Nat : p[1] < p[2]}

\* A set of numbers that is not empty has a least element, because < is well
\* founded.
LEMMA LeastNat ==
    ASSUME NEW T, T \subseteq Nat, T # {}
    PROVE  \E n \in T : \A m \in T : n <= m
  <1>1. IsWellFoundedOn(Below, Nat)
    BY NatLessThanWellFounded DEF OpToRel, Below
  <1>2. PICK n \in T : \A m \in T : ~(<<m, n>> \in Below)
    BY ONLY <1>1, T \subseteq Nat, T # {}, WFMin
  <1>3. ASSUME NEW m \in T PROVE n <= m
    <2>1. m \in Nat /\ n \in Nat  OBVIOUS
    <2>2. m < n => <<m, n>> \in Below  BY <2>1 DEF Below
    <2>3. QED  BY <2>1, <2>2, <1>2
  <1>4. QED  BY <1>3

\* A set that has 0, and has n when it has n - 1, has the numbers up to N.
LEMMA Induction ==
    ASSUME NEW N \in Nat, NEW T, 0 \in T, \A n \in 1..N : n - 1 \in T => n \in T
    PROVE  0..N \subseteq T
  <1> DEFINE Bad == {n \in 0..N : n \notin T}
  <1>1. SUFFICES ASSUME Bad # {} PROVE FALSE  OBVIOUS
  <1>2. PICK n \in Bad : \A m \in Bad : n <= m
    <2>1. Bad \subseteq Nat  OBVIOUS
    <2> HIDE DEF Bad
    <2>2. QED  BY <1>1, <2>1, LeastNat
  <1>3. n # 0 /\ n \in 1..N  BY <1>2
  <1>4. n - 1 \notin Bad  BY <1>2, <1>3
  <1>5. QED  BY <1>3, <1>4, <1>2

\* A recursive definition over 0..N, as what satisfies its equations: its first
\* value, and what step makes of n and of the value before.
Iterations(N, S, first, step) ==
  {f \in [0..N -> S] : f[0] = first /\ \A n \in 1..N : f[n] = step[<<n, f[n - 1]>>]}

\* Such a function exists, so that the one the definition chooses satisfies them.
LEMMA Iterates ==
    ASSUME NEW N \in Nat, NEW S, NEW first \in S, NEW step \in [(1..N) \X S -> S]
    PROVE  Iterations(N, S, first, step) # {}
  <1> DEFINE Runs(f, n) == f[0] = first /\ \A k \in 1..n : f[k] = step[<<k, f[k - 1]>>]
             T == {n \in 0..N : \E f \in [0..n -> S] : Runs(f, n)}
  <1>1. 0 \in T
    <2> DEFINE f == [k \in 0..0 |-> first]
    <2>1. Runs(f, 0)
      <3>1. f[0] = first  OBVIOUS
      <3>2. 1..0 = {}  OBVIOUS
      <3>3. QED  BY <3>1, <3>2
    <2>2. f \in [0..0 -> S]  OBVIOUS
    <2> HIDE DEF f
    <2>3. \E h \in [0..0 -> S] : Runs(h, 0)  BY <2>1, <2>2
    <2>4. QED  BY <2>3
  <1>2. ASSUME NEW n \in 1..N, n - 1 \in T  PROVE n \in T
    <2>1. PICK f \in [0..(n - 1) -> S] : Runs(f, n - 1)  BY <1>2
    <2> DEFINE g == [k \in 0..n |-> IF k = n THEN step[<<n, f[n - 1]>>] ELSE f[k]]
    <2>2. g \in [0..n -> S]  OBVIOUS
    <2>3. ASSUME NEW k \in 1..n PROVE g[k] = step[<<k, g[k - 1]>>]
      <3>1. CASE k = n
        <4>1. n - 1 \in 0..n /\ n - 1 # n /\ n \in 0..n  OBVIOUS
        <4>2. g[n] = step[<<n, f[n - 1]>>] /\ g[n - 1] = f[n - 1]  BY <4>1
        <4>3. QED  BY <3>1, <4>2
      <3>2. CASE k # n
        <4>1. k \in 1..(n - 1) /\ k - 1 \in 0..(n-1) /\ k - 1 # n BY <3>2
        <4>2. QED  BY <4>1, <2>1
      <3>3. QED  BY <3>1, <3>2
    <2>4. g[0] = first  BY <2>1
    <2>5. Runs(g, n)  BY <2>3, <2>4
    <2> HIDE DEF g
    <2>6. \E h \in [0..n -> S] : Runs(h, n)  BY <2>2, <2>5
    <2>7. QED  BY <2>6
  <1>3. 0..N \subseteq T
    <2> HIDE DEF T
    <2>1. QED BY <1>1, <1>2, Induction
  <1>4. N \in T  BY <1>3
  <1>5. QED  BY <1>4 DEF Iterations

\* The powers of two of the delays are numbers.
LEMMA PowerIsNat == ASSUME NEW n \in Nat PROVE PowerOfTwo(n) \in Nat
  <1> DEFINE power == CHOOSE p : p = [k \in 0..n |-> IF k = 0 THEN 1 ELSE 2 * p[k - 1]]
             step == [p \in (1..n) \X Nat |-> 2 * p[2]]
  <1>1. PICK f : f \in Iterations(n, Nat, 1, step)
    <2>1. 1 \in Nat /\ step \in [(1..n) \X Nat -> Nat]
      OBVIOUS
    <2> HIDE DEF step
    <2>2. QED  BY <2>1, Iterates
  <1>2. f \in [0..n -> Nat] /\ f[0] = 1 /\ \A k \in 1..n : f[k] = step[<<k, f[k - 1]>>]
    <2> HIDE DEF step
    <2>1. QED  BY <1>1 DEF Iterations
  <1>3. ASSUME NEW k \in 0..n PROVE f[k] = IF k = 0 THEN 1 ELSE 2 * f[k - 1]
    <2>1. CASE k = 0
      BY <1>2, <2>1
    <2>2. CASE k # 0
      <3>1. k \in 1..n /\ f[k - 1] \in Nat
        BY <1>2, <2>2
      <3>2. f[k] = step[<<k, f[k - 1]>>] /\ step[<<k, f[k - 1]>>] = 2 * f[k - 1]
        BY <1>2, <3>1
      <3>3. QED  BY <2>2, <3>2
    <2>3. QED  BY <2>1, <2>2
  <1>4. f = [k \in 0..n |-> IF k = 0 THEN 1 ELSE 2 * f[k - 1]]
    BY <1>2, <1>3
  <1>5. power = [k \in 0..n |-> IF k = 0 THEN 1 ELSE 2 * power[k - 1]]
    BY <1>4
  <1> HIDE DEF power
  <1>6. 0..n \subseteq {k \in 0..n : power[k] \in Nat}
    <2> DEFINE T == {k \in 0..n : power[k] \in Nat}
    <2>1. 0 \in T
      BY <1>5
    <2>2. \A k \in 1..n : k - 1 \in T => k \in T
      BY <1>5
    <2> HIDE DEF T
    <2>3. 0..n \subseteq T
      BY <2>1, <2>2, Induction
    <2>4. QED  BY <2>3 DEF T
  <1>7. power[n] \in Nat
    BY <1>6
  <1>8. QED  BY <1>7 DEF PowerOfTwo, power

\* So is the jitter.
LEMMA JitterIsNat == ASSUME CacheTypes PROVE Jitter \subseteq Nat
  BY CacheAssumption DEF CacheTypes, Jitter, Setup

\* How long a class backs off.
LEMMA BackoffIsNat ==
    ASSUME CacheTypes, NEW p \in Nat, NEW j \in Jitter
    PROVE  now + Min2(p + j, MaxBackoff) \in Nat
  BY CacheAssumption, JitterIsNat DEF CacheTypes, Min2

\* The time at which a run wakes up is a number.
LEMMA SleepTypes ==
    ASSUME CacheTypes, BookTypes, NEW r \in Requests, Sleep(r)
    PROVE  wakeAt' \in [Requests -> Nat]
  <1>1. PICK d \in RetryDelay(attempt[r]), j \in Jitter :
          wakeAt' = [wakeAt EXCEPT ![r] = now + d + j]
    BY DEF Sleep
  <1>2. PICK k \in 1..attempt[r] : d = PowerOfTwo(k - 1)
    BY <1>1 DEF RetryDelay
  <1>3. k - 1 \in Nat
    BY <1>2
  <1>4. d \in Nat /\ j \in Nat /\ now \in Nat
    BY <1>2, <1>3, PowerIsNat, JitterIsNat DEF CacheTypes
  <1>5. QED  BY <1>1, <1>4 DEF BookTypes

\* Of the steps of a request, the one that reads the tip is the one that goes on
\* to write the marker.
LEMMA FetchBooks ==
    ASSUME CacheTypes, BookTypes, NEW r \in Requests, FetchWithRetry(r)
    PROVE  BookTypes'
  <1> USE CacheAssumption, LivesAreNat DEF CacheTypes, BookTypes, store, class, flight, ghosts
  <1>1. CASE Lookup(r) \/ GateReadsStale(r) \/ BackoffReadsStale(r)
    <2>1. \A q \in Requests : pc'[q] = "recacheMarker" => pc[q] = "recacheMarker"
      BY <1>1 DEF Lookup, GateReadsStale, BackoffReadsStale, Read, Go
    <2>2. QED  BY <1>1, <2>1 DEF Lookup, GateReadsStale, BackoffReadsStale
  <1>2. CASE GateReadsTip(r)
    BY <1>2 DEF GateReadsTip, Go, Live, Stamp
  <1>3. CASE GateReadsMarker(r)
    BY <1>3 DEF GateReadsMarker, Go
  <1>4. CASE Decide(r) \/ Follow(r)
    BY <1>4 DEF Decide, Follow, InFlight, Entry, Go
  <1>5. CASE Inspect(r) \/ RecacheFresh(r) \/ RecacheStale(r) \/ Return(r)
    <2>1. \A q \in Requests : pc'[q] = "recacheMarker" => pc[q] = "recacheMarker"
      BY <1>5 DEF Inspect, RecacheFresh, RecacheStale, Return, Go
    <2>2. QED  BY <1>5, <2>1 DEF Inspect, RecacheFresh, RecacheStale, Return
  <1>6. CASE RecacheReadsTip(r)
    BY <1>6 DEF RecacheReadsTip, Go, Live, Stamp
  <1>7. CASE RecacheMarker(r)
    <2>1. seenTip[r] \in Nat
      BY <1>7 DEF RecacheMarker
    <2>2. marker' \in Stamp \cup {None}
      BY <1>7, <2>1 DEF RecacheMarker, Stamp
    <2>3. QED  BY <1>7, <2>2 DEF RecacheMarker, Go
  <1>8. CASE ClearMarker(r)
    BY <1>8 DEF ClearMarker, Go
  <1>9. CASE Lead(r)
    <2>1. entry' \in Entry \cup {None} /\ overlapped' \in BOOLEAN
      BY <1>9 DEF Lead, Entry
    <2>2. QED  BY <1>9, <2>1 DEF Lead, StartAttempt, Go
  <1>10. QED
    BY <1>1, <1>2, <1>3, <1>4, <1>5, <1>6, <1>7, <1>8, <1>9 DEF FetchWithRetry

\* Every step of executeRequest keeps the rest of the types.
LEMMA RunBooks ==
    ASSUME CacheTypes, BookTypes, NEW r \in Requests, ExecuteRequest(r)
    PROVE  BookTypes'
  <1> USE CacheAssumption DEF store, class, flight, ghosts
  <1>0. marker' = marker /\ tipCache' = tipCache /\ seenTip' = seenTip
    BY DEF ExecuteRequest, TokenComes, RateLimited, LimitedReadsStale, AuthRejected, Fails, Wake,
           Answers, Succeeds, WriteFresh, WriteStale
  <1>1. \A q \in Requests : pc'[q] = "recacheMarker" => pc[q] = "recacheMarker"
    BY DEF ExecuteRequest, TokenComes, RateLimited, LimitedReadsStale, AuthRejected, Fails, Wake,
           Answers, Succeeds, WriteFresh, WriteStale, Settle, Sleep, StartAttempt, Go, CacheTypes
  <1>2. attempt' \in [Requests -> 0..MaxRetries]
    BY DEF ExecuteRequest, TokenComes, RateLimited, LimitedReadsStale, AuthRejected, Fails, Wake,
           Answers, Succeeds, WriteFresh, WriteStale, Settle, BookTypes
  <1>3. wakeAt' \in [Requests -> Nat]
    <2>1. CASE Sleep(r)
      BY <2>1, SleepTypes
    <2>2. CASE wakeAt' = wakeAt \/ wakeAt' = [wakeAt EXCEPT ![r] = 0]
      BY <2>2 DEF BookTypes
    <2>3. Sleep(r) \/ wakeAt' = wakeAt \/ wakeAt' = [wakeAt EXCEPT ![r] = 0]
      BY DEF ExecuteRequest, TokenComes, RateLimited, LimitedReadsStale, AuthRejected, Fails, Wake,
             Answers, Succeeds, WriteFresh, WriteStale
    <2>4. QED  BY <2>1, <2>2, <2>3
  <1>4. errors' \in Nat /\ backoffUntil' \in Nat
    <2>1. CASE RateLimited(r)
      <3>1. PICK j \in Jitter :
              backoffUntil' = now + Min2(PowerOfTwo(errors + 1) + j, MaxBackoff)
        BY <2>1 DEF RateLimited
      <3>2. errors + 1 \in Nat
        BY DEF BookTypes
      <3>3. PowerOfTwo(errors + 1) \in Nat
        BY <3>2, PowerIsNat
      <3>4. QED  BY <2>1, <3>1, <3>2, <3>3, BackoffIsNat DEF RateLimited
    <2>2. CASE ~RateLimited(r)
      <3>1. errors' \in {errors, 0} /\ backoffUntil' = backoffUntil
        BY <2>2 DEF ExecuteRequest, TokenComes, LimitedReadsStale, AuthRejected, Fails, Wake,
               Answers, Succeeds, WriteFresh, WriteStale
      <3>2. QED  BY <3>1 DEF BookTypes
    <2>3. QED  BY <2>1, <2>2
  <1>5. entry' \in Entry \cup {None} /\ awaits' \in [Requests -> Requests]
        /\ overlapped' \in BOOLEAN
    BY DEF ExecuteRequest, TokenComes, RateLimited, LimitedReadsStale, AuthRejected, Fails, Wake,
           Answers, Succeeds, WriteFresh, WriteStale, Settle, BookTypes, flight
  <1>6. QED  BY <1>0, <1>1, <1>2, <1>3, <1>4, <1>5 DEF BookTypes

\* So does what happens around the requests.
LEMMA WorldBooks == ASSUME CacheTypes, BookTypes, World PROVE BookTypes'
  <1>1. UNCHANGED <<marker, pc, seenTip, attempt, wakeAt, entry, awaits, overlapped>>
    BY DEF World, ClassRateLimited, TipFetched, ChainMoves, Tick, vars, store, flight
  <1>2. tipCache' \in Stamp \cup {None}
    <2>1. CASE TipFetched
      BY <2>1, CacheAssumption DEF TipFetched, Stamp, CacheTypes
    <2>2. CASE ~TipFetched
      BY <2>2 DEF World, ClassRateLimited, ChainMoves, Tick, vars, store, BookTypes
    <2>3. QED  BY <2>1, <2>2
  <1>3. errors' \in Nat /\ backoffUntil' \in Nat
    <2>1. CASE ClassRateLimited
      <3>1. PICK j \in Jitter : backoffUntil' = now + Min2(2 + j, MaxBackoff)
        BY <2>1 DEF ClassRateLimited
      <3>2. QED  BY <2>1, <3>1, BackoffIsNat DEF ClassRateLimited
    <2>2. CASE ~ClassRateLimited
      BY <2>2 DEF World, TipFetched, ChainMoves, Tick, vars, class, BookTypes
    <2>3. QED  BY <2>1, <2>2
  <1>4. QED  BY <1>1, <1>2, <1>3 DEF BookTypes

\* The cache keeps its types: what is written under a key has an expiry, a request
\* that writes a marker has read a tip, no run makes more attempts than it may, and
\* no back-off or sleep is more than a natural number of seconds.
THEOREM CacheTypeCorrect == Spec => []TypeOK
  <1>1. Init => BookTypes
    <2> SUFFICES ASSUME Init PROVE BookTypes
      OBVIOUS
    <2>1. awaits \in [Requests -> Requests] /\ entry = None /\ overlapped \in BOOLEAN
      BY DEF Init
    <2>2. /\ backoffUntil \in Nat /\ errors \in Nat
          /\ attempt \in [Requests -> 0..MaxRetries] /\ wakeAt \in [Requests -> Nat]
      BY CacheAssumption DEF Init
    <2>3. /\ marker = None /\ tipCache = None /\ seenTip \in [Requests -> Nat \cup {None}]
          /\ \A r \in Requests : pc[r] # "recacheMarker"
      BY DEF Init
    <2>4. QED  BY <2>1, <2>2, <2>3 DEF BookTypes
  <1>2. CacheInv /\ BookTypes /\ [Next]_vars => BookTypes'
    BY Steps, FetchBooks, RunBooks, WorldBooks DEF CacheInv
  <1>3. CacheInv /\ BookTypes => TypeOK
    BY DEF CacheInv, CacheTypes, BookTypes, TypeOK, Places, Running, AtBody, AtRedis
  <1>4. QED  BY <1>1, <1>2, <1>3, CacheInvariance, PTL DEF Spec
=============================================================================
