# dgen-server in TLA+

This directory models the parts of dgen-server whose correctness depends on order: requests that interleave at
their awaits, timers that race answers, caches that outlive what they copy, sockets that close at the wrong moment.
Each module is written from the source; `PROJECT.json` gives, for every definition, the lines it stands for.

## 1. The system

dgen-server is one Node/Bun process (Fastify, `src/index.ts`) in front of one Redis (KeyDB). There are no worker
threads: handlers interleave only at an `await`, and every module below takes the code between two awaits as one
step. Payments themselves have moved to a wallet in the browser ("moved to browser SDK", `src/index.ts`); the server
keeps accounts, proxies the Blockstream Esplora API, relays webhooks to browsers, publishes exchange rates and holds
WebSockets open.

| component | state it keeps | operations | what makes it hard | what makes it correct |
|---|---|---|---|---|
| token cache, `lib/esplora/BlockstreamAuth.ts` | token, expiry, promise in flight, last error | getAccessToken, fetchToken, invalidateToken | callers share one promise; a cool-down defers fetches; a 401 of another request drops the token | one fetch at a time, failed fetches spaced, no dead token served, every caller answered |
| single-flight map, `lib/esplora/EsploraService.ts` | cache key -> promise, start time | track, join, prune, cap | entries are given up at their age, not made when the map is full, deleted by runs that lost them; bodies are read without a timer | only live runs are joined, the map is capped, followers are answered |
| cache, back-off, tip gate, same file | fresh and stale copies, marker and tip in Redis, back-off per class | fetchWithRetry, executeRequest, setCache, the methods that call them | two copies written apart; retries that sleep; 429 and 401; runs that overlap; a gate that revives old copies | bounded age, no client goes back in time while runs do not overlap, every request ends but for a stalled body |
| Esplora routes, `routes/esplora.ts` and the methods behind them | copies and runs by key, back-offs by class | a route per method, broadcast, forwarded calls | 22 routes share copies, runs and back-offs | each client gets the answer to its own question; a refusal is true |
| WebSocket manager, `lib/websocket/WebSocketManager.ts` | connections, userConnections, store.sockets, timers | connect, login, messages, close, heartbeat, clean-ups, shutdown | logins await while sockets close; several clean-ups walk the same map | the indexes agree, limits hold, pending connections end |
| webhook relay, `routes/webhook.ts` | two Redis keys per call | notify polls, respond posts | the answer races the last poll; key and expiry are two commands, and the first may fail unseen | no answer that was stored is lost, a polling call ends |
| rates, `lib/rates.ts` | current provider, sockets, fallback, polling, timers | connect, socket events, polling, getFx | error and close of one socket both act; late opens; overlapping connects; handshakes without a timeout | the feed is always on its way to a source |
| accounts, `lib/register.ts`, `routes/users.ts` | `user:<id>`, `user:<name>`, `email:<address>`, codes | register, update, 2fa, forgot, reset, request, verify | whole records are read, then written some awaits later, without a lock | names resolve, accounts are found by their names, names and addresses are unique |
| Redis access, `lib/db.ts` | clients, retry counts | g, s, t, scripts | s swallows failures; WATCH on a shared connection | a write is known to have been made |
| ledger, `lib/payments.ts`, `routes/payments.ts`, `lib/invoices.ts` | balances, funds, invoices, payments | debit, credit, take, authorize | check and debit are apart; invoices rewritten whole | no money from nothing, none lost |
| payment events, `lib/services/PaymentEventHandler.ts` | balances, invoices | handlePaymentEvent (no caller) | balance read and written apart | each event counted once |
| price over HTTP, `lib/rates.ts`, `lib/utils/httpRetry.ts` | the interval, the passes under way | fetchRate, start, stop | the interval does not wait; providers are asked twice | passes do not pile up, and the price they store is of a bounded age |
| contacts, connected apps, `routes/users.ts` | lists, sets and records in Redis | contacts, updateApp, deleteApp | several keys, written one after another; the record of an app is shared by all users | the keys agree but for named races |
| items, `routes/items.ts` | a list and a record per item | list, create, del, sort | a listing removes what it finds no record for, a sort pushes what its client sends | a stored item stays listed but for named reasons |
| map of places, `lib/locations.ts` | the places and the date of the last round | getLocations on its timer | two writes, restarts between them | no change is passed over |
| message limiter, `lib/security/RateLimiter.ts`; login limiter, `lib/middleware/security.ts` | instants or counters per key | check, reset, clean-ups | boundaries of windows, lockouts and clean-ups | limits hold, and nobody is kept out |
| breaker and retries, `lib/errors` | state, failures, recovery instant | executeWithRetry, execute (nothing constructs them) | calls end after the state has changed | no call before the recovery time |
| caches, pool | maps | get, set | no users | |
| start and shutdown, `index.ts`, `lib/app.ts` | routes, tasks | startServer, signal handlers | requests during shutdown | parts stop in a safe order |
| lnurl, nostr, wallet, shop, mail, metrics, logging | none or counters | routes and helpers | outside services | formats |

How they interact. A request for chain data goes through `fetchWithRetry`: cache, gate, single-flight map, then
`executeRequest`, which asks `getAccessToken` for a token and calls `invalidateToken` on a 401. The webhook relay writes
its request to Redis and hands an event to `sockets.emit`; the WebSocket manager fills `store.sockets`. The WebSocket
login and the auth hook of every route read the user record that the account handlers write. `BackgroundTaskManager`
starts the loop of the rates. All of them share one Redis connection.

Retained but unreachable: the routes of payments, funds, ecash and nostr are commented out in `src/index.ts`, and
`handlePaymentEvent`, `scheduleReconnect` and `cleanupRates` have no callers. Nothing constructs a `RetryManager`, nor, outside it, a
`CircuitBreaker`. They are still listed as components. The ledger is modelled, since the code is kept to be used again and the invoice routes
that feed it are live; the breaker, since it is code whose correctness depends on order, for the day it is used.

## 2. Modules

| module | models | composed with |
|---|---|---|
| `BlockstreamAuth` | the token cache and its callers | `BlockstreamAuth_proofs` |
| `EsploraInFlight` | the single-flight map, with ages and the cap, for several keys | `EsploraInFlight_proofs` |
| `EsploraCache` | cache, back-off, retries and tip gate, for one key, with the entry of that key in the single-flight map: its age, a map that others fill, foreign deletes | `EsploraCache_proofs` |
| `WebSocketManager` | connections and their indexes | `Sockets_proofs` |
| `WebhookRelay` | notify and respond, with the event that `sockets.emit` hands on | `Sockets_proofs` |
| `RatesFeed` | providers, fallback, polling and the loop of the fx rates | `Guards_proofs` |
| `Accounts` | the account keys in Redis and the handlers that interleave on them | `UserData_proofs` |
| `Ledger` | balances, the fund, invoices, and the handlers that pay, deposit, take and set tips | `Transfers`, `Ledger_proofs` |
| `Transfers` | the abstract specification: what a ledger promises about money | |
| `EsploraProxy` | all Esplora routes, the methods, keys and URLs behind them, and what their requests share | `EsploraProxy_proofs` |
| `RateLimiter`, `LoginGate`, `RetryManager`, `PricePolls` | what is limited or tried again by the clock: the messages of the sockets, the logins, operations behind the breaker, the passes for the price | `MCGuards`, `Guards_proofs` |
| `Contacts`, `Items`, `Apps`, `Locations` | data in Redis that takes several writes: a user's contacts, items and apps, the map of places | `MCUserData`, `UserData_proofs` |
| `Clock` | the one clock that the modules of the last two rows share | |

`MC<module>` instantiates a module for TLC; the names of its `.cfg` files say which question is asked. A definition whose
comment begins with "Mutant:" is no part of the model: it is a plausible bug, next to the definition it would replace, that
some property is known to catch.

**BlockstreamAuth.** `inFlight` says what the shared promise does (nothing, waiting for the cool-down, requesting,
reading the body). `JoinInFlight`, `ReturnCached`, `DeferFetch` and `StartFetch` are the four ways through `getAccessToken`,
in its order; `HeadersArrive`, `FetchFails` and the three `...Arrives` are `fetchToken`. `Drop` is the 401 branch of
`EsploraService`, which may hit a token fetched meanwhile. The abort timer counts until the headers only, as in the code.

**EsploraInFlight.** `entry` is the map, `doing` says who leads a run and who follows which. Two clocks matter: the age at which
an entry is pruned (`MaxAge`) and the longest a run may take (`MaxRun`), since pruning does not stop a run. `Settle` deletes
the entry of its key whoever owns it, as line 611 does. `BodyStalls` is the body that nothing bounds (line 793): the run, and all who follow it, stay.

**EsploraCache.** One request goes through `Lookup` (fresh copy), the gate (`GateReads...`, `GateOpens`), `Decide` (back-off, `Follow` or
`Lead`), then `ExecuteRequest` with its attempts, sleeps and fall-backs to the stale copy, `WriteFresh` and `WriteStale`, and
the second `setCache` of the method (`Recache...`). `Follow` needs an entry that is young enough (`InFlight`); `Lead` enters its run unless the
map is full, and whoever ends a run deletes the entry of the key, so that runs may overlap: the ghost `overlapped` remembers when they did. An attempt
waits for its token (`TokenComes`), for the answer (`Answers`) and for its body (`Succeeds`); token and body may take for ever. Each Redis command is a step of its own. The upstream is a version
number that grows, with a tip and a flag for "all confirmed" (`ChainMoves`).

**WebSocketManager.** A connection is accepted, logs in (several times, if its client does), closes at any moment. `Login`
starts a call of `authenticateConnection`; `LoginReturns` is everything after its awaits, on the connection object it read
before them. `Heartbeat`, `Cleanup` and `Shutdown` walk the whole map in one step, as the synchronous loops do.

**WebhookRelay.** `Store`, `ExpireAndEmit`, `Poll` and `Wake` are the steps of `notify`; `PostStores` and `PostExpires` the two commands of
`respond`. Either SET may fail unseen, as `s` only logs it: the call goes on and the browser is told "ok" (the ghosts `ready` and `posted` tell an answer that was
stored from one that was only posted). An answer lives without end until its expiry is set; the expiry of the request is awaited without a timer.

**RatesFeed.** `state` holds every socket made and the events it still has due; `ws` is the module variable, the last one made.
`sleepers` counts calls of `connect` between `terminate` and the next attempt, `timers` the reconnections due in a second,
`retries` the half-hour timers.

**Accounts.** A handler in progress has an account, a record, a name and an address in hand (`who`, `held`, `wants`, `mailed`); each Redis
command is a step. The record keeps its name, email and verified flag. `Throws` ends a handler between any two commands,
with what it has written so far; `Stored` writes or swallows the failure (`RecordNotStored`, `NameNotSet`). The mail of `Forgot` goes to the address in the record,
verified or not. The ghost `spoiled` has the names over which handlers overlapped, or one failed half way.

**Ledger.** A request has a place (`pc`), what it is about (`job`) and the invoice it has read (`held`). `PayReads` is `debit` up to the
script (`SendReads` the same for the send route, whose debit of type bitcoin is lost, as the handler then throws), `DebitScript` the script, `CreditReads` and `CreditStores` the two ends of `credit`; `DepositReads` and `DepositStores` are the fund
branch of `create`, `TakeReads`, `TakeClaims` and `FundDebit` the route `take`, `UpdateReads` and `UpdateStores` the tip route. `due` and
`credited` are ghosts: what a request has debited and not credited yet, and what was credited for an invoice;
`late` names the payments whose invoice got another tip since they debited, as the tip route comes at any moment. `Throws` ends a request anywhere,
which is also how limits, freezes and failed lookups refuse it. The script adds no fee: `config.fee` has no entry for a type.

**EsploraProxy.** A question is a route, a network, an argument, a page and a form of body. What a route does before its first await is
a function of the question: a reply (`AnsweredAtOnce`), or a plan of the method it calls, which is a URL, a cache key and a way to fetch.
The fetch itself is `Lookup`, `Gate`, `InBackoff`, `Joins` or `Leads`, then the attempts (`CallAnswers`, `CallLimited`, `CallFails`, each with the
401 retry inside). Time is left to `EsploraCache`: here a copy may be missed by any read, a back-off may end and an entry be given up at any moment.

**RateLimiter** keeps the instants let in per key; its two clean-ups are part of `Check`. The ghost `accepted` forgets nothing.
**LoginGate** has the four ways through `check` as alternatives of `Login`; the passwords are verified while others ask. **RetryManager** puts the
loop (`Try`, `AfterError`, `Retry`) around the breaker (`Execute`, `OnSuccess`, `OnFailure`), which looks at its state when a call ends.
**PricePolls** holds the passes under way, each asking, waiting to ask again, or storing; a price is the instant it was quoted at.

**Contacts**, **Items**, **Apps**: every Redis command of a handler is a step, calls overlap in slots, and a call may break off anywhere. The
ghosts (`disturbed`, `excused`, `raced`) record the races after which the code does lose something, each at the step where it happens, so
that the properties say that nothing else does. Clients send any ids to `Items`, those they were told of and their own; `overlooked` has the items a listing
looks for before their record is there. The apps of all users share one record per pubkey; `bereft` has those that one user keeps and another deleted. **Locations** is the loop of `getLocations`; `ServerStops` may come between any two of its
steps, and its ghost `missed` records the edits that come between an answer and its date, and the writes that fail.

**Transfers** knows pots and hands: a hand gives what it took, or what its terms say if they were changed while it had the money. `Ledger` implements it with balances and the fund as pots and the requests as hands
(`Money == INSTANCE Transfers WITH ...`); the property `MoneyOnlyMoves` is its specification.

## 3. Runs

"pass" runs finish without an error; "violation" runs show that the code does not do what a line of it says, and each has a finding in
`PROJECT.json` that quotes the line.

| run | question | bounds, and why they are enough |
|---|---|---|
| auth | is there one fetch, spaced, with live tokens, and is every caller answered? | 2 callers: one leads or defers, the other joins or invalidates. 7 ticks hold a fetch, a cool-down of 2, a second fetch and an expiry |
| in_flight | is the map sound (capped, only live runs in it, only live runs followed), is every follower answered but by a run that stalls, when runs outlive the age limit? | 3 requests on 2 keys, room for one: a leader, a follower and a rival that is not tracked. Age limit 1, runs up to 2, 3 ticks: a run is given up, replaced, and ends |
| cache | every request ends but for a body that stalls, with the gate and without; without it, bounded age and, until runs overlap, no going back in time | 2 requests, 3 s: a fresh life of 1, a stale life of 2 and its end, a run given up at 1, a 429 and its retry fit in. The same for 2 s with a map that others fill, which is enough for runs to overlap, and with tokens; and the gate with one request after another, a Redis that fails and a chain that moves once |
| proxy | does each client get the answer to its own question, is "rate limited" true, is what was refused not accepted? | 2 requests, which is what it takes to meet on a key or a class; every route with good input and each kind of bad one, and two networks, arguments and pages where keys could collide |
| sockets | limits, agreement of the tables, timers, and that pending connections end | 2 connections of one user who may have one, 2 logins per connection at once: one more connection than allowed |
| webhook | no answer that was stored is lost, a call that polls ends | 4 polls, answers that live 3 s, up to 3 posts, with SETs and expiries that fail. Calls share no key, so one stands for all |
| rates | the feed is on its way to a source, polling is last, the feed gets somewhere unless a handshake never ends; outside production | 3 sockets, 2 providers as in the code, at most 2 connects asleep |
| guards | does the message limiter count exactly, do lockouts hold and bound guesses, does the breaker keep its recovery time, are the passes for the price bounded? | 8 ticks against windows of 2 to 4: windows touch, lockouts end, clean-ups fall due. 2 keys with room for 1 (the clean-up by size), 6 checks; 2 operations, threshold 2, 3 retries; 2 providers, a pass that asks for 4 ticks and stores for 3 against an interval of 2, as the four commands of 5 s may outlast the real one of 10: several passes overlap, also while they store |
| userdata | do the keys agree but for the named races, and is no change of a place passed over? | contacts: 2 people, 4 payments, 2 calls at once; items: 2 ids drawn and one of a client's own, sorts of up to 2, 2 calls at once, 5 in all; apps: 2 users, 2 pubkeys, 3 calls at once, 5 in all; places: 2 of them, an interval of 2 and 4 seconds, restarts without limit |
| accounts | names lead to accounts, and accounts that handlers did not overlap over are found by theirs | 2 accounts, 2 names, 1 address, 2 handlers at once: every pair of handlers interleaves |
| accounts_names (violation) | are usernames unique? | as accounts, Redis does not fail |
| ledger | does money only move, but for tips that come late, and is what invoices received backed? | 2 users, 1 invoice, 3 requests of 1 or 2, tips of 0 or 1, 2 in every pot: a payment needs less, as much or more than there is, and two payments and a tip, or a deposit and two takes, overlap; the tip may come at any moment |

`MCGuards` and `MCUserData` compose modules that share a clock or nothing at all. The variable `subject` says which of them moves in a
behaviour: their steps commute, and interleaving them would only multiply the states.

A property may have named parts where the code keeps several tables in step: `MapIsSound`, `TablesAgree`, `FeedIsOnItsWay` and
`PollsBounded` are conjunctions, and the theorems of section 5 name the parts too.

Further configurations state what somebody might expect of the code, and TLC finds each of them violated. No line of the code promises
them outright, or another run shows the same cause, so they are kept to be run by hand. TLC stops at the first violation: where
a configuration lists several, leave in one at a time to see each; a property without a configuration replaces the properties of the one named:

| configuration | violated | how |
|---|---|---|
| `MCBlockstreamAuthStall` | RequestTimesOut | the abort timer is cleared when the headers arrive: a body that stalls is never aborted |
| `MCEsploraCacheForever` | GatedStaleness | whoever reads a gated copy stores it again with a full life |
| (constants of `MCUserData`) | LoopGoesOn | a server started again within a minute of its last round returns before it sets the timer |
| (constants of `MCEsploraInFlight`) | OneYoungRun | a run given up as stuck ends and deletes the entry of its successor: a third request calls upstream beside it |
| `MCEsploraCacheHazards` | BacksOff, TimeGoesForward | a 429 declares a back-off, and another attempt goes out before it ends; of two runs that overlap the slow one stores its older answer last |
| `MCEsploraCacheGate` | GateIsSound | the marker names the tip when the answer was stored, not when it was fetched |
| `MCWebSocketManagerZombie` | NoZombieConnections | a login that ends after the close indexes a closed connection |
| `MCWebhookRelayHazards` | BrowserIsTold, KeysExpire, PostedIsFound | nobody listens to the emitter the event is handed to; the second of two commands fails and a key stays; a SET fails, the browser is told "ok" and the payer that nobody answered |
| `MCRatesFeedHazards` | AllProvidersTried, FallbackPolls, FxLoopLives, OpenIsSubscribed | error and close both advance; a late open stops polling; a timeout ends the loop; the wrong socket is subscribed |
| (constants of `MCAccountsNames`) | EmailsUnique | two accounts verify one address |
| (constants of `MCUserData`) | ListingsLoseNone, OwnAppsKept | a listing takes off the id of an item that is about to be stored; a user deletes an app, and with it the record of every user who has that pubkey |
| (constants of `MCGuards`) | PricesGoForward | a pass that asked earlier stores after one that asked later |
| `MCLedgerHazards` | InvoicePaidOnce, CreditsTheDebit | two payers of an invoice both see it unpaid, and both are debited; a tip set between debit and credit is credited though nobody paid it |

Times are small numbers that keep the order of the real ones (a cool-down shorter than a token's life, a stale life longer
than a fresh one). `MaxTime`, `MaxVer`, `MaxCalls`, `MaxLogins` and `MaxPosts` bound what would grow without end, and `ResetsOfOne` keeps the reset codes of `Accounts`
to one account at a time; a bound is a guard of the action it stops, and liveness properties except the end of time where it would stop the clock.

Symmetry is used only where a run checks state predicates alone (`accounts`, `accounts_names`, `proxy`). `CHECK_DEADLOCK FALSE` is set where the model may rest: time is up, or every socket
is used.

## 4. Fairness

Each `FairSpec` assumes only what the runtime does: timers fire, an awaited call that the code bounds ends, the clock goes on.

- BlockstreamAuth: the clock, the cool-down timer and the end of an upstream call before its headers. That a body ends is
  not assumed (`MCBlockstreamAuthStall`) except as needed for `WaitersAnswered`, which speaks of the calls that end.
- EsploraInFlight: a run that does not stall settles. Any run may stall, and its followers with it.
- EsploraCache: a handler goes on, but one that waits for a token or a body need not; the clock strongly so, as it may not move during Redis commands.
- WebSocketManager: the authentication timer fires and a closing socket reports its close. Logins may never return.
- WebhookRelay: the clock, and a handler at its polls. Before them it awaits an EXPIRE without a timer (webhook.ts:21), which is not assumed to end: CallsEnd
  speaks of calls that have come to their polls.
- `EsploraProxy`, `MCGuards`, `MCUserData`: none, as they state safety only.
- RatesFeed: timers fire, the fx loop goes on, a failing or closing socket reports it. A handshake is not assumed to end (rates.ts:90 sets no timeout): FeedGetsSomewhere
  has the connecting socket as its exception.

## 5. Proofs

TLAPS proves the following for every value of the constants that satisfies the named assumptions of the module. Every safety and
action property of a passing run but FoundByName is among them.

| module | theorems | argument |
|---|---|---|
| `BlockstreamAuth_proofs` | TypeOK, SingleFetch, NoRetryStorm, ServedTokenIsLive | the invariant ties the ghost of open requests to `inFlight`, the cool-down to the last failure, and the token to its expiry |
| `EsploraInFlight_proofs` | TypeOK, MapIsSound (and its parts NeverJoinsSettled, FollowsLiveRun, MapIsCapped), SingleFlight, as long as no body stalls (no run checks this one: with one place for two keys it does not hold) | a tracked entry belongs to a leader of that key; with runs shorter than the age limit and room for all keys every leader is tracked (`LeaderIsTracked`), so there is one per key. The cap needs lemmas on the cardinality of the tracked keys |
| `EsploraCache_proofs` | TypeOK, BoundedStaleness, MonotonicReads | ages: each copy expires within its life of the fetch, and a request at Redis holds the clock (`AgeInv`). Going back in time: until `overlapped` is set at most one run is under way, so nobody else stores anything between its two writes, and whoever reads the new fresh copy in between is followed only by requests that find that copy too (`ReadsInv`). The types need the powers of two of the delays to be numbers, by induction |
| `EsploraProxy_proofs` | TypeOK, AnswersTheQuestion, RateLimitedIsTrue, RefusedIsNotAccepted | keys determine URLs: `UrlOf` reads the URL off a key, and every plan of every route asks at the URL of its key (`PlansOK`). So what is stored, or shared by a run, under a key is the answer to everyone who has that key |
| `Sockets_proofs` | of the manager TypeOK, TablesAgree (and its parts AuthenticatedIsIndexed, PendingIsTimed, MappedIsNotClosed), LimitRespected; of the webhook relay NoAnswerMissed, RelayTypeOK | the indexes agree with each other and with `userId`; the limit follows as the check and the indexing are one step. An answer that was stored while a poll is due outlives the sleep before it |
| `Guards_proofs` | WindowRespected, AcceptsExactly; LockoutHolds, GuessesBounded; RecoveryRespected; PollsBounded (and its parts PassesInTime, QuotesAreRecent); of the feed TypeOK, FeedIsOnItsWay (and its parts ReconnectDue, FallbackIsLast) | five specifications, five invariants. Limiter: what is remembered and what was let in agree on what is still in the window (`NothingValidForgotten`), which both clean-ups keep; the limit needs lemmas on cardinality. Gate: a lockout that is not over stands in the record, and the record, with the guess that opened its window, tells how many there were: two windows lie between a guess and the one twice the limit before it. Breaker: while open, its instant is that of the last opening. Passes: the time used up is told by provider and attempt, with a lemma that makes the product of the two linear; an interval lies between any two beginnings, so only so many passes fit in one's time. Feed: each event that takes a source away leaves a timer, a sleeper or the fallback |
| `UserData_proofs` | IndexedIsStored; NoChangeForgotten; TypeOK, NamesResolve; ItemsListed; ContactsExact | Apps: what a call that has done its first command may assume (`ChangedIsStored`, `DroppedIsUnindexed`), that two calls between their commands were noticed (`OverlapIsRaced`), and that the record of another user's app is not dropped unnoticed. Places: before they are stored, what was not fetched anew is there already; after, everything is (`RoundIsComplete`). Accounts: `Holds` says what a handler has in hand in each of its states; no step removes an account or a code, so the hands of others stay good. Items: an id drawn is listed, let go for a reason, overlooked, or in the hands of a sort (`DrawnIsListed`), and until its record is there a call is about to store it. Contacts: until something disturbs it, the list names the people of the oldest payments in order (`OrderIn`), and the call in hand has read a range that reaches from there to its length (`Covers`) |
| `Ledger_proofs` | TypeOK (no balance below zero), ReceivedIsBacked, MoneyOnlyMoves | `Holds` says what a request has in hand in each of its states; a step of one request keeps the hands of the others good as invoices never go and credits only grow (`HandsStayGood`). For the refinement, `Debts` ties `due` to the job and to the tip of the invoice unless the payment is `late`, which a step of the tip route makes every payment of its invoice under way |

Each proof has a lemma per group of actions that preserves the invariant, and theorems that read off the properties.
The invariants are not inductive by themselves: NamesResolve, for example, says nothing of the handler about to set a name, which is
what `Holds` adds.

**Assumptions.** Most say only that a constant is a number, or that a null value is not a value. Those that say more:

- Nothing keeps the tip route from coming between debit and credit. The refinement of `Transfers` holds all the same, since a hand whose terms were changed may
  give what they say now: what is proved is that nothing else makes a credit differ from its debit (`MCLedgerHazards` shows the late tip).
- GuessesBounded is proved, and asked of the run, for a lockout that is no shorter than the window (`LockoutIsLonger`), as the limiter of the logins and
  the defaults have it (security.ts:142, 321).
- NoAnswerMissed needs an answer to live longer than the second between two polls (`RelayAssumption`); in the code it lives a minute.
- BoundedStaleness and MonotonicReads speak of endpoints without tip gate, the second of a Redis that does not fail and only until two runs of
  the key have overlapped (afterwards it is false, as `MCEsploraCacheHazards` shows). On a gated endpoint both are false: a
  reader stores the copy it has read again with a full life (the hazard of EsploraService.ts:1107), which makes old answers last (`MCEsploraCacheForever`), and
  puts an older answer back in the place of one that another request has already given. The proof is what showed this of MonotonicReads; with one gated request
  at a time, as the run has it, it does not happen.

**Induction over data.** The induction theorems of the library take an operator as a parameter, which the provers cannot instantiate. Two lemmas do without:
`Induction` is about a set of numbers in the place of a predicate (from the fact that < is well founded), `Iterates` says that the function a recursive definition
describes exists, with a function of the index and the value before in the place of the rule. With them the proofs reason about lists of any length: what
`Without` (lRem) and `Others` leave, and what `Promoted`, the loop over the new payments, makes of the order of a list. These helpers, and `PowerOfTwo` for the delays,
are recursive functions for this reason. `SelectSeq`, a fold or `^` would say the same to TLC, but the provers know nothing about them.

**Only model-checked.** The liveness properties (WaitersAnswered, FollowersAnswered, RequestsAnswered, PendingResolved, CallsEnd, FeedGetsSomewhere), as they rest
on fairness, hence on ENABLED, which the provers do not handle; and every violation; FoundByName, whose ghost
makes the inductive invariant a longer one than the property is worth so far. No theorem is stated about the type of the breaker, which no run checks.

## 6. Not modelled, and why

Formats, wording, logging, metrics, mail, templates and statistics: no property depends on them. Outside services (Esplora, the token
server, relays, price APIs, BTC Map) appear as what they may answer. A Redis command that times out has either taken place or not, and takes no
effect after the handler has gone on; commands on the one connection take place in the order they were sent. Components listed as
`not_modelled` in `PROJECT.json` carry their reason there.

What a reader of the code may look for in the modules and not find:

- `RetryManager` and `CircuitBreaker` are dead code: nothing constructs a RetryManager. They are modelled as written, with callers that overlap.
- `RateLimiter.reset` and `resetAll`, `ConnectionPool` (nothing is added to it), `CacheManager` and the two caches on it, `apiRateLimiter` and the csrf
  hooks, `handlePaymentEvent`, `cleanupRates`, `scheduleReconnect`, and the optimistic lock `t` have no live callers.
- Payments are never taken off a user's list while `reverse` has no caller, so `Contacts` has no step for it. `users.del` always answers 403.
- `updateApp` and `deleteApp` look for the owner under the bare pubkey, where nothing is stored: the look decides nothing, `created` is renewed by each change,
  and any user changes or deletes the record that all users of a pubkey share.
- The text of a timeout of got does not contain the codes that `httpRetry` looks for, so timeouts are not tried again; `tryMultipleProviders` gives each
  provider two attempts, so only the first of the growing delays is used. `PricePolls` has both.
- An attempt exactly at the end of a lockout is neither locked out nor past it: it counts on, and locks out again. `LoginGate` has it.
- A place that loses its tag or is deleted at BTC Map stays in the stored list, since such places are filtered out before the merge: NoChangeForgotten speaks of
  listed places only.

## 7. Plan

1. Done: the modules above, their runs, and the proofs of section 5.
2. An abstract cache, "an answer is what upstream said at most this long ago", implemented by `EsploraCache` without gate; its step simulation follows from `AgeInv`.
3. The gated path of `EsploraCache`: what can still be promised there, from an invariant on the marker and the tip an answer was fetched at.
4. The types of the breaker, whose delays double up to a maximum, by the same induction as those of the cache.
5. The rest of the ledger (reverse and finalize, autowithdrawal, payment events and refunds), should its routes be enabled again.
