---------------------------- MODULE EsploraProxy ----------------------------
(***************************************************************************)
(* All the Esplora routes at once (src/routes/esplora.ts) on top of the    *)
(* methods of src/lib/esplora/EsploraService.ts.  A route checks its       *)
(* question and hands it to a method; the method names the URL to ask, the *)
(* key to cache under and the way to fetch.  The requests then meet in     *)
(* what they share: the cache, the stale copies, the map of runs in flight *)
(* and the back-off of each class of endpoints.                            *)
(*                                                                         *)
(* EsploraCache and EsploraInFlight look at one endpoint closely, with its *)
(* clock and ages.  Here a copy may be missed by any read (it expired, or  *)
(* Redis failed), a back-off may end at any time, and an entry of the map  *)
(* may be given up at any time: what is left is who gets whose answer, and *)
(* what becomes of the errors.  Paths and keys are tuples of their parts,  *)
(* so a hash stands for what it was made from.                             *)
(***************************************************************************)
EXTENDS Naturals, Sequences

CONSTANTS
    Requests,    \* the calls of the routes
    Questions,   \* what clients may ask
    MaxRetries,  \* maxRetries of most methods
    None         \* undefined, or null

Network == {"bitcoin", "liquid", "testnet", "liquidtestnet"}
Liquid == {"liquid", "liquidtestnet"}

\* What the router of esplora.ts knows.
Routes ==
    {"txStatus", "tx", "txHex", "txRaw", "addressUtxo", "scripthashUtxo", "tipHeight",
     "tipHash", "addressTxs", "addressTxsConfirmed", "addressTxsMempool",
     "scripthashTxs", "scripthashTxsConfirmed", "scripthashTxsMempool", "blockHeader",
     "blockHeight", "broadcast", "feeEstimates", "stats", "waterfalls",
     "liquidServerRecipient", "liquidWaterfallsV2"}

ASSUME ProxyAssumption ==
    /\ MaxRetries \in Nat \ {0}
    /\ None \notin Questions
    /\ \A q \in Questions :
          /\ DOMAIN q = {"route", "net", "arg", "last", "form"}
          /\ q.route \in Routes
          /\ q.net \in Network \cup {"invalid", None}
          /\ q.form \in {"json", "text", "other"}

-----------------------------------------------------------------------------
(* What a route decides before its first await: to answer at once, or to *)
(* call a method.                                                          *)

Reply(status) == [how |-> "reply", status |-> status]

\* A call of fetchWithRetry, fetchTextWithRetry or fetchBufferWithRetry.
Fetch(how, key, url) ==
    [how |-> how, key |-> key, url |-> url, tries |-> MaxRetries, auth |-> TRUE]

\* A call that is sent on without cache and without retries.
Forward(url, auth) == [how |-> "forward", url |-> url, auth |-> auth]

\* getBaseUrl: the networks under test live beside the real ones.
getBaseUrl(net) ==
    CASE net = "bitcoin"       -> <<"bitcoinUrl">>
      [] net = "testnet"       -> <<"bitcoinUrl", "testnet">>
      [] net = "liquid"        -> <<"liquidUrl">>
      [] net = "liquidtestnet" -> <<"liquidUrl", "liquidtestnet">>

\* getBreezLiquidRootUrl does not look at which of the two it is.
getBreezLiquidRootUrl(net) == <<"breezLiquidUrl">>

-----------------------------------------------------------------------------
(* The methods of the service: the key and the URL of each                 *)

getTxStatus(txid, net) ==
    Fetch("json", <<"tx", net, txid>>, getBaseUrl(net) \o <<"tx", txid, "status">>)

getTx(txid, net) ==
    Fetch("json", <<"txfull", net, txid>>, getBaseUrl(net) \o <<"tx", txid>>)

getTxHex(txid, net) ==
    Fetch("text", <<"txhex", net, txid>>, getBaseUrl(net) \o <<"tx", txid, "hex">>)

getTxRaw(txid, net) ==
    Fetch("buffer", <<"txraw", net, txid>>, getBaseUrl(net) \o <<"tx", txid, "raw">>)

getAddressUtxos(address, net) ==
    Fetch("json", <<"utxo", net, address>>,
          getBaseUrl(net) \o <<"address", address, "utxo">>)

getScripthashUtxos(hash, net) ==
    Fetch("json", <<"scripthash_utxo", net, hash>>,
          getBaseUrl(net) \o <<"scripthash", hash, "utxo">>)

getTipHeight(net) ==
    Fetch("text", <<"tip", net>>, getBaseUrl(net) \o <<"blocks", "tip", "height">>)

getTipHash(net) ==
    Fetch("text", <<"tiphash", net>>, getBaseUrl(net) \o <<"blocks", "tip", "hash">>)

getBlockHashByHeight(height, net) ==
    Fetch("text", <<"block_height", net, height>>,
          getBaseUrl(net) \o <<"block-height", height>>)

\* The page of a list is part of its key as it is of its URL.
Page(last) == IF last = None THEN <<>> ELSE <<last>>
Chain(last) == IF last = None THEN <<>> ELSE <<"chain", last>>

\* Mutant: the pages of a list share a key.
AddressTxsOnePage(address, net, last) ==
    Fetch("json", <<"addr_txs", net, address>>,
          getBaseUrl(net) \o <<"address", address, "txs">> \o Chain(last))

getAddressTxs(address, net, last) ==
    Fetch("json", <<"addr_txs", net, address>> \o Page(last),
          getBaseUrl(net) \o <<"address", address, "txs">> \o Chain(last))

getScripthashTxs(hash, net, last) ==
    Fetch("json", <<"scripthash_txs", net, hash>> \o Page(last),
          getBaseUrl(net) \o <<"scripthash", hash, "txs">> \o Chain(last))

getScripthashTxsConfirmed(hash, net) ==
    Fetch("json", <<"scripthash_txs_confirmed", net, hash>>,
          getBaseUrl(net) \o <<"scripthash", hash, "txs", "chain">>)

getScripthashTxsMempool(hash, net) ==
    Fetch("json", <<"scripthash_txs_mempool", net, hash>>,
          getBaseUrl(net) \o <<"scripthash", hash, "txs", "mempool">>)

getAddressTxsConfirmed(address, net) ==
    Fetch("json", <<"addr_txs_confirmed", net, address>>,
          getBaseUrl(net) \o <<"address", address, "txs", "chain">>)

getAddressTxsMempool(address, net) ==
    Fetch("json", <<"addr_txs_mempool", net, address>>,
          getBaseUrl(net) \o <<"address", address, "txs", "mempool">>)

broadcastTx(txHex, net) ==
    [how |-> "broadcast", key |-> <<"broadcast", net>>,
     url |-> getBaseUrl(net) \o <<"tx">>, auth |-> TRUE]

getFeeEstimates(net) ==
    Fetch("json", <<"fees", net>>, getBaseUrl(net) \o <<"fee-estimates">>)

getBlockHeader(hash, net) ==
    Fetch("text", <<"block_header", net, hash>>,
          getBaseUrl(net) \o <<"block", hash, "header">>)

fetchWaterfalls(query, net) ==
    Forward((IF net \in Liquid THEN getBreezLiquidRootUrl(net) ELSE getBaseUrl(net))
                \o <<"waterfalls", "waterfalls", query>>,
            net \notin Liquid)

fetchLiquidWaterfallsV2(query, net) ==
    Forward(getBreezLiquidRootUrl(net) \o <<"v2", "waterfalls", query>>, FALSE)

\* One try, and no token: the Breez key goes along instead.
getLiquidServerRecipient(net) ==
    [Fetch("json", <<"server_recipient", net>>,
           getBreezLiquidRootUrl(net) \o <<"v1", "server_recipient">>)
        EXCEPT !.tries = 1, !.auth = FALSE]

-----------------------------------------------------------------------------
(* The routes                                                              *)

\* resolveNetwork, with the fallback of the route.
resolveNetwork(q, fallback) == IF q.net = None THEN fallback ELSE q.net
isValidNetwork(net) == net \in Network

\* isValidTxid and its kin: an argument of the wrong form is "invalid".
isValidTxid(txid) == txid # "invalid"
isValidScripthash(hash) == hash # "invalid"
isValidBlockHash(hash) == hash # "invalid"
isValidAddress(address) == address # "invalid"
isValidHeight(height) == height # "invalid"
isValidTxHex(hex) == hex # "invalid"
isValidLastSeen(last) == last = None \/ isValidTxid(last)
validateWaterfallsQuery(query) == query # "invalid"

\* ensureNetwork and the checks of a route come before the call.
Checked(q, fallback, valid, call) ==
    IF isValidNetwork(resolveNetwork(q, fallback)) /\ valid THEN call ELSE Reply(400)

On(q) == resolveNetwork(q, "liquid")

txStatus(q) == Checked(q, "liquid", isValidTxid(q.arg), getTxStatus(q.arg, On(q)))
tx(q) == Checked(q, "liquid", isValidTxid(q.arg), getTx(q.arg, On(q)))
txHex(q) == Checked(q, "liquid", isValidTxid(q.arg), getTxHex(q.arg, On(q)))
txRaw(q) == Checked(q, "liquid", isValidTxid(q.arg), getTxRaw(q.arg, On(q)))

addressUtxo(q) ==
    Checked(q, "liquid", isValidAddress(q.arg), getAddressUtxos(q.arg, On(q)))

scripthashUtxo(q) ==
    Checked(q, "liquid", isValidScripthash(q.arg), getScripthashUtxos(q.arg, On(q)))

tipHeight(q) == Checked(q, "liquid", TRUE, getTipHeight(On(q)))
tipHash(q) == Checked(q, "liquid", TRUE, getTipHash(On(q)))

addressTxs(q) ==
    Checked(q, "liquid", isValidAddress(q.arg) /\ isValidLastSeen(q.last),
            getAddressTxs(q.arg, On(q), q.last))

addressTxsConfirmed(q) ==
    Checked(q, "liquid", isValidAddress(q.arg), getAddressTxsConfirmed(q.arg, On(q)))

addressTxsMempool(q) ==
    Checked(q, "liquid", isValidAddress(q.arg), getAddressTxsMempool(q.arg, On(q)))

scripthashTxs(q) ==
    Checked(q, "liquid", isValidScripthash(q.arg) /\ isValidLastSeen(q.last),
            getScripthashTxs(q.arg, On(q), q.last))

scripthashTxsConfirmed(q) ==
    Checked(q, "liquid", isValidScripthash(q.arg), getScripthashTxsConfirmed(q.arg, On(q)))

scripthashTxsMempool(q) ==
    Checked(q, "liquid", isValidScripthash(q.arg), getScripthashTxsMempool(q.arg, On(q)))

blockHeader(q) ==
    Checked(q, "liquid", isValidBlockHash(q.arg), getBlockHeader(q.arg, On(q)))

blockHeight(q) ==
    Checked(q, "liquid", isValidHeight(q.arg), getBlockHashByHeight(q.arg, On(q)))

\* The content type is looked at first; "other" is neither JSON nor text.
broadcast(q) ==
    IF q.form = "other" THEN Reply(415)
    ELSE Checked(q, "liquid", isValidTxHex(q.arg), broadcastTx(q.arg, On(q)))

feeEstimates(q) ==
    Checked(q, "bitcoin", TRUE, getFeeEstimates(resolveNetwork(q, "bitcoin")))

\* stats answers from memory.
stats(q) == Reply(200)

waterfalls(q) ==
    Checked(q, "liquid", validateWaterfallsQuery(q.arg), fetchWaterfalls(q.arg, On(q)))

liquidServerRecipient(q) ==
    Checked(q, "liquid", On(q) \in Liquid, getLiquidServerRecipient(On(q)))

liquidWaterfallsV2(q) ==
    Checked(q, "liquid", validateWaterfallsQuery(q.arg) /\ On(q) \in Liquid,
            fetchLiquidWaterfallsV2(q.arg, On(q)))

Handle(q) ==
    CASE q.route = "txStatus" -> txStatus(q)
      [] q.route = "tx" -> tx(q)
      [] q.route = "txHex" -> txHex(q)
      [] q.route = "txRaw" -> txRaw(q)
      [] q.route = "addressUtxo" -> addressUtxo(q)
      [] q.route = "scripthashUtxo" -> scripthashUtxo(q)
      [] q.route = "tipHeight" -> tipHeight(q)
      [] q.route = "tipHash" -> tipHash(q)
      [] q.route = "addressTxs" -> addressTxs(q)
      [] q.route = "addressTxsConfirmed" -> addressTxsConfirmed(q)
      [] q.route = "addressTxsMempool" -> addressTxsMempool(q)
      [] q.route = "scripthashTxs" -> scripthashTxs(q)
      [] q.route = "scripthashTxsConfirmed" -> scripthashTxsConfirmed(q)
      [] q.route = "scripthashTxsMempool" -> scripthashTxsMempool(q)
      [] q.route = "blockHeader" -> blockHeader(q)
      [] q.route = "blockHeight" -> blockHeight(q)
      [] q.route = "broadcast" -> broadcast(q)
      [] q.route = "feeEstimates" -> feeEstimates(q)
      [] q.route = "stats" -> stats(q)
      [] q.route = "waterfalls" -> waterfalls(q)
      [] q.route = "liquidServerRecipient" -> liquidServerRecipient(q)
      [] q.route = "liquidWaterfallsV2" -> liquidWaterfallsV2(q)

-----------------------------------------------------------------------------
(* What the requests share                                                 *)

VARIABLES
    pc,         \* where each request is
    ask,        \* its question
    plan,       \* what its route and its method made of it
    leader,     \* whose run a request awaits
    attempt,    \* attempts its own run has made
    got,        \* what its method has in hand
    answer,     \* what the client was sent
    fresh,      \* the copies under their keys
    stale,      \* the copies under key:stale
    inFlight,   \* inFlightRequests: a key and the request that leads its run
    backedOff,  \* the classes of endpoints within their back-off
    limited,    \* ghost: kinds and networks the upstream answered 429 to
    accepted    \* ghost: the broadcasts whose transaction the upstream took

vars == <<pc, ask, plan, leader, attempt, got, answer, fresh, stale, inFlight, backedOff,
          limited, accepted>>
copies == <<fresh, stale>>
ghosts == <<limited, accepted>>

\* What the upstream sends with a 200: the answer to a URL, which a method
\* that parses it may find unsound.
Body == [url : {Handle(q).url : q \in {p \in Questions : Handle(p).how # "reply"}},
         sound : BOOLEAN]

\* Errors: EsploraRateLimitError, an EsploraHttpError with its status, any other.
RateLimit == 429
Other == 0
HttpErrors == {401, 404, 500}
Errors == HttpErrors \cup {RateLimit, Other}

Fetched == {q \in Questions : Handle(q).how \in {"json", "text", "buffer"}}
Keys == {Handle(q).key : q \in Fetched}

\* getStatKey: the kind of endpoint and the network.
\* Mutant: the network is left out.
StatKeyOfKind(key) == SubSeq(key, 1, 1)

getStatKey(key) == SubSeq(key, 1, 2)

\* What may be limited: the kind and the network of a key.
Limitable == {Handle(q).key :
                 q \in {p \in Questions : Handle(p).how \notin {"reply", "forward"}}}
Classes == {getStatKey(k) : k \in Limitable}

Class(r) == getStatKey(plan[r].key)

\* What a 429 is about, whatever the service makes of it.
Endpoint(r) == <<plan[r].key[1], plan[r].key[2]>>

TypeOK ==
    /\ pc \in [Requests -> {"new", "lookup", "gate", "decide", "backoff", "call",
                            "limited", "follow", "after", "post", "forward", "end"}]
    /\ ask \in [Requests -> Questions \cup {None}]
    /\ \A r \in Requests : plan[r] = IF ask[r] = None THEN None ELSE Handle(ask[r])
    /\ leader \in [Requests -> Requests \cup {None}]
    /\ attempt \in [Requests -> 0..MaxRetries - 1]
    /\ got \in [Requests -> Body \cup {None}]
    /\ answer \in [Requests -> [status : Nat, body : Body \cup {None}, limited : BOOLEAN]
                                \cup {None}]
    /\ DOMAIN fresh \subseteq Keys /\ \A k \in DOMAIN fresh : fresh[k] \in Body
    /\ DOMAIN stale \subseteq Keys /\ \A k \in DOMAIN stale : stale[k] \in Body
    /\ DOMAIN inFlight \subseteq Keys /\ \A k \in DOMAIN inFlight : inFlight[k] \in Requests
    /\ backedOff \subseteq Classes
    /\ limited \subseteq {<<k[1], k[2]>> : k \in Limitable}
    /\ accepted \subseteq Requests

Init ==
    /\ pc = [r \in Requests |-> "new"]
    /\ ask = [r \in Requests |-> None]
    /\ plan = [r \in Requests |-> None]
    /\ leader = [r \in Requests |-> None]
    /\ attempt = [r \in Requests |-> 0]
    /\ got = [r \in Requests |-> None]
    /\ answer = [r \in Requests |-> None]
    /\ fresh = <<>> /\ stale = <<>> /\ inFlight = <<>>
    /\ backedOff = {}
    /\ limited = {} /\ accepted = {}

-----------------------------------------------------------------------------
(* Answers                                                                 *)

Go(r, where) == pc' = [pc EXCEPT ![r] = where]

Sent(status, body) == [status |-> status, body |-> body, limited |-> FALSE]
TooMany == [status |-> 503, body |-> None, limited |-> TRUE]

\* handleEsploraError.
handleEsploraError(e) ==
    CASE e = RateLimit -> TooMany
      [] e \in 400..499 /\ e # RateLimit -> Sent(e, None)
      [] e >= 500 -> Sent(502, None)
      [] OTHER -> Sent(500, None)

\* The catch of broadcast: a client that does not want JSON gets the status
\* of the upstream as it is.
BroadcastError(q, e) ==
    IF q.form = "json" THEN handleEsploraError(e)
    ELSE CASE e = RateLimit -> TooMany
           [] e \in HttpErrors -> Sent(e, None)
           [] OTHER -> Sent(500, None)

End(r, a) ==
    /\ Go(r, "end")
    /\ answer' = [answer EXCEPT ![r] = a]

\* Methods that go on after their fetch: the tip height is parsed, a list
\* that is all confirmed is stored again.
Recaches == {"scripthash_utxo", "addr_txs", "scripthash_txs"}
GoesOn(r) == plan[r].key[1] \in Recaches \cup {"tip"}

\* A map with an entry under k, and without.
With(f, k, v) == [x \in DOMAIN f \cup {k} |-> IF x = k THEN v ELSE f[x]]
Others(f, k) == [x \in DOMAIN f \ {k} |-> f[x]]

\* The promise of the run of r is settled: r and those who follow it take
\* what it returned, or what it threw, and r deletes the entry of its key.
Party(r) == {r} \cup {f \in Requests : pc[f] = "follow" /\ leader[f] = r}

Resolve(r, body) ==
    /\ got' = [x \in Requests |-> IF x \in Party(r) /\ GoesOn(x) THEN body ELSE got[x]]
    /\ attempt' = [attempt EXCEPT ![r] = 0]
    /\ pc' = [x \in Requests |-> IF x \notin Party(r) THEN pc[x]
                                 ELSE IF GoesOn(x) THEN "after" ELSE "end"]
    /\ answer' = [x \in Requests |-> IF x \in Party(r) /\ ~GoesOn(x)
                                     THEN Sent(200, body) ELSE answer[x]]
    /\ inFlight' = Others(inFlight, plan[r].key)

Reject(r, e) ==
    /\ pc' = [x \in Requests |-> IF x \in Party(r) THEN "end" ELSE pc[x]]
    /\ answer' = [x \in Requests |-> IF x \in Party(r) THEN handleEsploraError(e)
                                     ELSE answer[x]]
    /\ attempt' = [attempt EXCEPT ![r] = 0]
    /\ inFlight' = Others(inFlight, plan[r].key)
    /\ UNCHANGED got

\* A request that has its answer without a run of its own.
Serve(r, body) ==
    IF GoesOn(r) THEN /\ Go(r, "after")
                      /\ got' = [got EXCEPT ![r] = body]
                      /\ UNCHANGED answer
                 ELSE /\ End(r, Sent(200, body))
                      /\ UNCHANGED got

\* setCache writes the fresh copy and then the stale one; Redis may fail at
\* either.  EsploraCache takes the two apart.
setCache(k, body) ==
    \/ UNCHANGED copies
    \/ fresh' = With(fresh, k, body) /\ UNCHANGED stale
    \/ fresh' = With(fresh, k, body) /\ stale' = With(stale, k, body)

-----------------------------------------------------------------------------
(* A request arrives                                                       *)

Asks(r, q) ==
    /\ pc[r] = "new"
    /\ ask' = [ask EXCEPT ![r] = q]
    /\ plan' = [plan EXCEPT ![r] = Handle(q)]
    /\ UNCHANGED <<leader, attempt, got, copies, inFlight, backedOff, ghosts>>

\* Refused by a check of the route, or answered from memory.
AnsweredAtOnce(r, q) ==
    /\ Asks(r, q)
    /\ Handle(q).how = "reply"
    /\ End(r, Sent(Handle(q).status, None))

StartsFetch(r, q) ==
    /\ Asks(r, q)
    /\ q \in Fetched
    /\ Go(r, "lookup")
    /\ UNCHANGED answer

StartsForward(r, q) ==
    /\ Asks(r, q)
    /\ Handle(q).how = "forward"
    /\ Go(r, "forward")
    /\ UNCHANGED answer

\* broadcastTx looks at the back-off of its class and goes for its token.
StartsBroadcast(r, q) ==
    /\ Asks(r, q)
    /\ Handle(q).how = "broadcast"
    /\ IF getStatKey(Handle(q).key) \in backedOff THEN End(r, TooMany)
       ELSE Go(r, "post") /\ UNCHANGED answer

-----------------------------------------------------------------------------
(* fetchWithRetry and its twins, up to the upstream                        *)

\* shouldTipGate.  Only fetchWithRetry, not its twins, has the gate.
Gated == {"scripthash_utxo", "addr_txs", "scripthash_txs", "addr_txs_confirmed",
          "scripthash_txs_confirmed"}

Hit(r, store) ==
    /\ plan[r].key \in DOMAIN store
    /\ Serve(r, store[plan[r].key])

Miss(r, next) == Go(r, next) /\ UNCHANGED <<got, answer>>

\* getFromCache.
Lookup(r) ==
    /\ pc[r] = "lookup"
    /\ \/ Hit(r, fresh)
       \/ Miss(r, IF plan[r].key[1] \in Gated THEN "gate" ELSE "decide")
    /\ UNCHANGED <<ask, plan, leader, attempt, copies, inFlight, backedOff, ghosts>>

\* tryTipGate: the stale copy, or on.  EsploraCache says which.
Gate(r) ==
    /\ pc[r] = "gate"
    /\ Hit(r, stale) \/ Miss(r, "decide")
    /\ UNCHANGED <<ask, plan, leader, attempt, copies, inFlight, backedOff, ghosts>>

InBackoff(r) ==
    /\ pc[r] = "decide"
    /\ Class(r) \in backedOff
    /\ Go(r, "backoff")
    /\ UNCHANGED <<ask, plan, leader, attempt, got, answer, copies, inFlight, backedOff, ghosts>>

\* The stale copy, or the error.
StaleInBackoff(r) ==
    /\ pc[r] = "backoff"
    /\ \/ Hit(r, stale)
       \/ End(r, TooMany) /\ UNCHANGED got
    /\ UNCHANGED <<ask, plan, leader, attempt, copies, inFlight, backedOff, ghosts>>

\* Join the run of the key.
Joins(r) ==
    /\ pc[r] = "decide"
    /\ Class(r) \notin backedOff
    /\ plan[r].key \in DOMAIN inFlight
    /\ leader' = [leader EXCEPT ![r] = inFlight[plan[r].key]]
    /\ Go(r, "follow")
    /\ UNCHANGED <<ask, plan, attempt, got, answer, copies, inFlight, backedOff, ghosts>>

\* Lead a run.  If the map has no room for it, it is as one given up at once
\* (EsploraInFlight).
Leads(r) ==
    /\ pc[r] = "decide"
    /\ Class(r) \notin backedOff
    /\ plan[r].key \notin DOMAIN inFlight
    /\ inFlight' = With(inFlight, plan[r].key, r)
    /\ Go(r, "call")
    /\ UNCHANGED <<ask, plan, leader, attempt, got, answer, copies, backedOff, ghosts>>

-----------------------------------------------------------------------------
(* executeRequest and its twins                                            *)

Tries(r) == attempt[r] + 1

\* Mutant: one attempt too many.
LastTryOffByOne(r) == attempt[r] = plan[r].tries

LastTry(r) == Tries(r) = plan[r].tries
Counts(r) == attempt' = [attempt EXCEPT ![r] = Tries(r)]

\* A 200 whose body can be read.  Only getTipHeight looks at what it says.
CallAnswers(r) ==
    /\ pc[r] = "call"
    /\ \E body \in [url : {plan[r].url},
                   sound : IF plan[r].key[1] = "tip" THEN BOOLEAN ELSE {TRUE}] :
          setCache(plan[r].key, body) /\ Resolve(r, body)
    /\ UNCHANGED <<ask, plan, leader, backedOff, ghosts>>

\* 429: the class backs off, and the run looks for a stale copy.
CallLimited(r) ==
    /\ pc[r] = "call"
    /\ backedOff' = backedOff \cup {Class(r)}
    /\ limited' = limited \cup {Endpoint(r)}
    /\ Go(r, "limited")
    /\ UNCHANGED <<ask, plan, leader, attempt, got, answer, copies, inFlight, accepted>>

StaleAfterLimit(r) ==
    /\ pc[r] = "limited"
    /\ \/ /\ plan[r].key \in DOMAIN stale
          /\ Resolve(r, stale[plan[r].key])
       \/ /\ LastTry(r)
          /\ Reject(r, RateLimit)
       \/ /\ ~LastTry(r)
          /\ Counts(r)
          /\ Go(r, "call")
          /\ UNCHANGED <<got, answer, inFlight>>
    /\ UNCHANGED <<ask, plan, leader, copies, backedOff, ghosts>>

\* Any other status, no token, no answer: the next attempt, or the error of
\* this one.  A 401 of a call with a token drops the token on the way
\* (BlockstreamAuth), except in executeTextRequest.
CallFails(r) ==
    /\ pc[r] = "call"
    /\ \/ ~LastTry(r) /\ Counts(r) /\ UNCHANGED <<pc, got, answer, inFlight>>
       \/ LastTry(r) /\ \E e \in HttpErrors \cup {Other} : Reject(r, e)
    /\ UNCHANGED <<ask, plan, leader, copies, backedOff, ghosts>>

-----------------------------------------------------------------------------
(* After the fetch                                                         *)

\* A list that is all confirmed is stored a second time.
Recache(r) ==
    /\ pc[r] = "after"
    /\ plan[r].key[1] \in Recaches
    /\ setCache(plan[r].key, got[r])
    /\ End(r, Sent(200, got[r]))
    /\ UNCHANGED <<ask, plan, leader, attempt, got, inFlight, backedOff, ghosts>>

\* getTipHeight parses what it got, and deletes what is no number.
ParseTip(r) ==
    /\ pc[r] = "after"
    /\ plan[r].key[1] = "tip"
    /\ got[r].sound
    /\ End(r, Sent(200, got[r]))
    /\ UNCHANGED <<ask, plan, leader, attempt, got, copies, inFlight, backedOff, ghosts>>

RejectTip(r) ==
    /\ pc[r] = "after"
    /\ plan[r].key[1] = "tip"
    /\ ~got[r].sound
    /\ \/ UNCHANGED copies
       \/ fresh' = Others(fresh, plan[r].key) /\ stale' = Others(stale, plan[r].key)
    /\ End(r, handleEsploraError(Other))
    /\ UNCHANGED <<ask, plan, leader, attempt, got, inFlight, backedOff, ghosts>>

-----------------------------------------------------------------------------
(* broadcastTx                                                             *)

\* Mutant: a call that is lost is made again.
PostLostAgain(r) ==
    /\ pc[r] = "post"
    /\ accepted' \in {accepted, accepted \cup {r}}
    /\ UNCHANGED <<pc, ask, plan, leader, attempt, got, answer, copies, inFlight, backedOff, limited>>

\* A 200: the answer is a transaction id, or the route fails although the
\* transaction was taken.
PostAnswers(r) ==
    /\ pc[r] = "post"
    /\ accepted' = accepted \cup {r}
    /\ \E sound \in BOOLEAN :
          End(r, IF sound THEN Sent(200, [url |-> plan[r].url, sound |-> TRUE])
                 ELSE BroadcastError(ask[r], Other))
    /\ UNCHANGED <<ask, plan, leader, attempt, got, copies, inFlight, backedOff, limited>>

PostLimited(r) ==
    /\ pc[r] = "post"
    /\ backedOff' = backedOff \cup {Class(r)}
    /\ limited' = limited \cup {Endpoint(r)}
    /\ End(r, BroadcastError(ask[r], RateLimit))
    /\ UNCHANGED <<ask, plan, leader, attempt, got, copies, inFlight, accepted>>

\* The upstream refuses the transaction, also one it has already.
PostRefused(r) ==
    /\ pc[r] = "post"
    /\ \E e \in HttpErrors : End(r, BroadcastError(ask[r], e))
    /\ UNCHANGED <<ask, plan, leader, attempt, got, copies, inFlight, backedOff, ghosts>>

\* No token, no connection, no answer in time: the transaction may have
\* arrived all the same.
PostLost(r) ==
    /\ pc[r] = "post"
    /\ accepted' \in {accepted, accepted \cup {r}}
    /\ End(r, BroadcastError(ask[r], Other))
    /\ UNCHANGED <<ask, plan, leader, attempt, got, copies, inFlight, backedOff, limited>>

-----------------------------------------------------------------------------
(* fetchWaterfalls and fetchLiquidWaterfallsV2: status and body are sent on *)

Forwarded(r) ==
    /\ pc[r] = "forward"
    /\ \/ End(r, Sent(200, [url |-> plan[r].url, sound |-> TRUE]))
       \/ \E status \in HttpErrors \cup {RateLimit} : End(r, Sent(status, None))
       \/ End(r, handleEsploraError(Other))
    /\ UNCHANGED <<ask, plan, leader, attempt, got, copies, inFlight, backedOff, ghosts>>

-----------------------------------------------------------------------------
(* Time                                                                    *)

BackoffEnds(c) ==
    /\ c \in backedOff
    /\ backedOff' = backedOff \ {c}
    /\ UNCHANGED <<pc, ask, plan, leader, attempt, got, answer, copies, inFlight, ghosts>>

\* pruneInFlight: an entry is given up as stuck, its run goes on.
EntryGivenUp(k) ==
    /\ k \in DOMAIN inFlight
    /\ inFlight' = Others(inFlight, k)
    /\ UNCHANGED <<pc, ask, plan, leader, attempt, got, answer, copies, backedOff, ghosts>>

Next ==
    \/ \E r \in Requests :
          \/ \E q \in Questions : AnsweredAtOnce(r, q) \/ StartsFetch(r, q)
                                   \/ StartsForward(r, q) \/ StartsBroadcast(r, q)
          \/ Lookup(r) \/ Gate(r) \/ InBackoff(r) \/ StaleInBackoff(r)
          \/ Joins(r) \/ Leads(r)
          \/ CallAnswers(r) \/ CallLimited(r) \/ StaleAfterLimit(r) \/ CallFails(r)
          \/ Recache(r) \/ ParseTip(r) \/ RejectTip(r)
          \/ PostAnswers(r) \/ PostLimited(r) \/ PostRefused(r) \/ PostLost(r)
          \/ Forwarded(r)
    \/ \E c \in backedOff : BackoffEnds(c)
    \/ \E k \in DOMAIN inFlight : EntryGivenUp(k)

Spec == Init /\ [][Next]_vars

-----------------------------------------------------------------------------
(* Properties                                                              *)

\* A client that gets a 200 gets the answer to its own question: that of its
\* network, its argument and its page, as the upstream gave it to that URL,
\* though it may come from a copy or from the run of another request; and a
\* tip height is a number.
AnswersTheQuestion ==
    \A r \in Requests :
        pc[r] = "end" /\ answer[r].status = 200 /\ plan[r].how # "reply" =>
            /\ answer[r].body.url = plan[r].url
            /\ plan[r].how = "text" /\ plan[r].key[1] = "tip" => answer[r].body.sound

\* "Rate limited" is said only of a class of endpoints that the upstream did
\* limit: the back-off of one network or one kind of endpoint does not refuse
\* the requests of another.
RateLimitedIsTrue ==
    \A r \in Requests :
        pc[r] = "end" /\ answer[r].limited => Endpoint(r) \in limited

\* A broadcast that is refused (by the route, by the upstream or by the
\* back-off) was not taken by the upstream: the client may correct it and
\* send it again.  broadcastTx does not retry for this reason.
RefusedIsNotAccepted ==
    \A r \in Requests :
        pc[r] = "end" /\ ask[r].route = "broadcast"
            /\ (answer[r].limited \/ answer[r].status \in 400..499)
        => r \notin accepted
=============================================================================
