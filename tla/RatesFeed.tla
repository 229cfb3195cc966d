------------------------------ MODULE RatesFeed ------------------------------
(***************************************************************************)
(* The bitcoin price feed (src/lib/rates.ts, started by                    *)
(* src/lib/services/BackgroundTaskManager.ts).  getFx runs every 30        *)
(* seconds and opens a WebSocket to the current provider unless one is     *)
(* open; a socket that fails moves the feed to the next provider, and past *)
(* the last provider to HTTP polling ("fallback").  Outside production a   *)
(* timer goes back to the first provider after half an hour.               *)
(*                                                                         *)
(* connect is an async function that many callers start and none awaits:   *)
(* between its check and the new socket it may sleep up to a second.  The  *)
(* handlers of a socket stay attached when another one takes its place.    *)
(*                                                                         *)
(* Prices are left out: what counts is which sources are at work.  The     *)
(* providers' URLs are constants that the constructor accepts, so its      *)
(* catch clause is not modelled; scheduleReconnect is never called.        *)
(***************************************************************************)
EXTENDS Integers

CONSTANTS
    Sockets,     \* ids of sockets; one that is gone may be used again
    NoSocket,    \* ws before the first connection
    Providers,   \* webSocketProviders.length
    Production,  \* NODE_ENV is production
    MaxCalls     \* bound on the calls of connect that sleep at once

ASSUME FeedAssumption ==
    /\ NoSocket \notin Sockets
    /\ Providers \in Nat \ {0}
    /\ Production \in BOOLEAN
    /\ MaxCalls \in Nat

VARIABLES
    ws,          \* the socket connect created last
    state,       \* of every socket, and which of its events are due
    subscribed,  \* sockets that were sent their provider's subscription
    current,     \* currentWebSocketProvider, no further than Providers
    fallback,    \* useHttpFallback
    polling,     \* httpPollingInterval is set
    fetching,    \* a fetchRate is under way
    timers,      \* pending setTimeout(connect, 1000)
    sleepers,    \* calls of connect that sleep after a terminate
    retries,     \* half-hour timers armed after the last webSocketAttempt
    recent,      \* last is less than 5 seconds ago
    fx,          \* where the getFx loop is
    tried        \* ghost: providers contacted since the first was current

vars == <<ws, state, subscribed, current, fallback, polling, fetching, timers,
          sleepers, retries, recent, fx, tried>>

\* "failing": the error event is due, then the close event; "closing": the
\* close event is due.
SocketState == {"gone", "connecting", "open", "failing", "closing"}

TypeOK ==
    /\ ws \in Sockets \cup {NoSocket}
    /\ state \in [Sockets -> SocketState]
    /\ subscribed \subseteq Sockets
    /\ current \in 0..Providers
    /\ fallback \in BOOLEAN
    /\ polling \in BOOLEAN
    /\ fetching \in BOOLEAN
    /\ timers \in Nat
    /\ sleepers \in 0..MaxCalls
    /\ retries \in Nat
    /\ recent \in BOOLEAN
    /\ fx \in {"start", "starting", "retrying", "due", "working", "resting", "dead"}
    /\ tried \subseteq 0..Providers

Init ==
    /\ ws = NoSocket
    /\ state = [s \in Sockets |-> "gone"]
    /\ subscribed = {}
    /\ current = 0
    /\ fallback = FALSE /\ polling = FALSE /\ fetching = FALSE
    /\ timers = 0 /\ sleepers = 0 /\ retries = 0
    /\ recent = FALSE
    /\ fx = "start"
    /\ tried = {}

-----------------------------------------------------------------------------
(* Helpers *)

Open(s) == s # NoSocket /\ state[s] = "open"

\* startHttpPolling, with the timers left of those armed before.
StartPolling(left) ==
    /\ polling' = TRUE
    /\ fetching' = (fetching \/ ~polling)
    /\ retries' = IF polling \/ Production THEN left ELSE left + 1

\* Mutant: past the last provider the index is the only thing that changes.
NextProviderNoFallback ==
    /\ current' = IF current < Providers THEN current + 1 ELSE current
    /\ timers' = IF current' < Providers THEN timers + 1 ELSE timers
    /\ UNCHANGED <<fallback, polling, fetching, retries>>

\* What onerror and onclose do: the next provider in a second, or polling.
\* Setting lastWebSocketAttempt takes the half-hour timers that were armed
\* before it out of the game.
NextProvider ==
    /\ current' = IF current < Providers THEN current + 1 ELSE current
    /\ IF current' < Providers
       THEN /\ timers' = timers + 1
            /\ UNCHANGED <<fallback, polling, fetching, retries>>
       ELSE /\ fallback' = TRUE
            /\ StartPolling(0)
            /\ UNCHANGED timers

\* ws.terminate: a socket not yet open fails, an open one is closed.
Terminated ==
    [state EXCEPT ![ws] = CASE @ = "connecting" -> "failing"
                            [] @ = "open" -> "closing"
                            [] OTHER -> @]

-----------------------------------------------------------------------------
(* connect *)

\* The ids for a new socket.  The bound: when none is free, a socket whose place
\* was taken before it opened is the one that is silent for ever.
Unused ==
    LET gone == {s \in Sockets : state[s] = "gone"} IN
    IF gone # {} THEN gone ELSE {s \in Sockets \ {ws} : state[s] = "connecting"}

\* From the choice of the provider on; fallback is not looked at again.
Attempt ==
    IF current < Providers
    THEN \E s \in Unused :
           /\ state' = [state EXCEPT ![s] = "connecting"]
           /\ ws' = s
           /\ tried' = tried \cup {current}
           /\ UNCHANGED <<fallback, polling, fetching, retries>>
    ELSE /\ fallback' = TRUE
         /\ StartPolling(retries)
         /\ UNCHANGED <<ws, state, tried>>

\* From the call to the sleep.
Terminate ==
    /\ sleepers < MaxCalls
    /\ state' = Terminated
    /\ sleepers' = sleepers + 1
    /\ UNCHANGED ws

Connected == Open(ws) /\ recent

\* Mutant: a timer that has fired fires again, as an interval would.
ConnectTimerAgain ==
    /\ timers' = timers - 1
    /\ IF fallback \/ Connected THEN UNCHANGED <<ws, state, sleepers>> ELSE Terminate
    /\ UNCHANGED <<subscribed, current, fallback, polling, fetching, retries,
                   recent, fx, tried>>

\* The 1 second timer of a failure.
ConnectTimer ==
    /\ timers > 0
    /\ timers' = timers - 1
    /\ IF fallback \/ Connected THEN UNCHANGED <<ws, state, sleepers>> ELSE Terminate
    /\ UNCHANGED <<subscribed, current, fallback, polling, fetching, retries,
                   recent, fx, tried>>

ConnectResumes ==
    /\ sleepers > 0
    /\ sleepers' = sleepers - 1
    /\ Attempt
    /\ UNCHANGED <<subscribed, current, timers, recent, fx>>

-----------------------------------------------------------------------------
(* The events of a socket *)

\* ws.send sends on the socket created last: if that is another one, this
\* socket is never subscribed.
Opens(s) ==
    /\ state[s] = "connecting"
    /\ state' = [state EXCEPT ![s] = "open"]
    /\ subscribed' = IF ws = s THEN subscribed \cup {s} ELSE subscribed
    /\ polling' = FALSE
    /\ UNCHANGED <<ws, current, fallback, fetching, timers, sleepers, retries,
                   recent, fx, tried>>

\* A price arrives.
Message(s) ==
    /\ state[s] = "open" /\ s \in subscribed
    /\ ~recent
    /\ recent' = TRUE
    /\ UNCHANGED <<ws, state, subscribed, current, fallback, polling, fetching,
                   timers, sleepers, retries, fx, tried>>

\* onerror; the close event follows.
SocketFails(s) ==
    /\ state[s] \in {"connecting", "open", "failing"}
    /\ state' = [state EXCEPT ![s] = "closing"]
    /\ NextProvider
    /\ UNCHANGED <<ws, subscribed, sleepers, recent, fx, tried>>

\* Mutant: the close event of a socket that failed is ignored as well.
SocketClosesQuietly(s) ==
    /\ state[s] \in {"open", "closing"}
    /\ state' = [state EXCEPT ![s] = "gone"]
    /\ subscribed' = subscribed \ {s}
    /\ UNCHANGED <<ws, current, fallback, polling, fetching, timers, sleepers,
                   retries, recent, fx, tried>>

\* onclose, also of a socket that terminate closes or that has failed.
SocketCloses(s) ==
    /\ state[s] \in {"open", "closing"}
    /\ state' = [state EXCEPT ![s] = "gone"]
    /\ subscribed' = subscribed \ {s}
    /\ IF fallback
       THEN UNCHANGED <<current, fallback, polling, fetching, timers, retries>>
       ELSE NextProvider
    /\ UNCHANGED <<ws, sleepers, recent, fx, tried>>

-----------------------------------------------------------------------------
(* HTTP polling *)

PollTick ==
    /\ polling /\ ~fetching
    /\ fetching' = TRUE
    /\ UNCHANGED <<ws, state, subscribed, current, fallback, polling, timers,
                   sleepers, retries, recent, fx, tried>>

\* fetchRate ends, with a price or without.
PollEnds ==
    /\ fetching
    /\ fetching' = FALSE
    /\ recent' \in {recent, TRUE}
    /\ UNCHANGED <<ws, state, subscribed, current, fallback, polling, timers,
                   sleepers, retries, fx, tried>>

\* The half-hour timer, if no socket was attempted since it was armed.  By
\* then the timers of a second have fired.
RetryLater ==
    /\ retries > 0 /\ timers = 0 /\ sleepers = 0
    /\ retries' = retries - 1
    /\ fallback' = FALSE
    /\ current' = 0
    /\ polling' = FALSE
    /\ tried' = {}
    /\ IF Connected THEN UNCHANGED <<ws, state, sleepers>> ELSE Terminate
    /\ UNCHANGED <<subscribed, fetching, timers, recent, fx>>

-----------------------------------------------------------------------------
(* getFx *)

\* It starts by calling connect, unless the last socket is open or the feed
\* is in fallback.
FxStarts ==
    /\ fx \in {"start", "due"}
    /\ fx' = IF fx = "start" THEN "starting" ELSE "working"
    /\ IF fallback \/ Open(ws)
       THEN UNCHANGED <<ws, state, sleepers, fallback, polling, fetching, retries, tried>>
       ELSE IF ws = NoSocket
            THEN Attempt /\ UNCHANGED sleepers
            ELSE Terminate /\ UNCHANGED <<fallback, polling, fetching, retries, tried>>
    /\ UNCHANGED <<subscribed, current, timers, recent>>

FxEnds ==
    /\ fx \in {"starting", "working"}
    /\ fx' = "resting"
    /\ UNCHANGED <<ws, state, subscribed, current, fallback, polling, fetching,
                   timers, sleepers, retries, recent, tried>>

\* Redis does not answer a read: startRateMonitoring tries again, but only
\* the first round is its.
FxThrows ==
    /\ fx \in {"starting", "working"}
    /\ fx' = IF fx = "starting" THEN "retrying" ELSE "dead"
    /\ UNCHANGED <<ws, state, subscribed, current, fallback, polling, fetching,
                   timers, sleepers, retries, recent, tried>>

\* The 30 seconds to the next round, or to the retry of the first: a connect
\* that slept when they began has gone on.
FxRests ==
    /\ fx \in {"resting", "retrying"} /\ sleepers = 0
    /\ fx' = IF fx = "resting" THEN "due" ELSE "start"
    /\ UNCHANGED <<ws, state, subscribed, current, fallback, polling, fetching,
                   timers, sleepers, retries, recent, tried>>

\* Five seconds without a price.
GrowsOld ==
    /\ recent
    /\ recent' = FALSE
    /\ UNCHANGED <<ws, state, subscribed, current, fallback, polling, fetching,
                   timers, sleepers, retries, fx, tried>>

Next ==
    \/ ConnectTimer \/ ConnectResumes \/ PollTick \/ PollEnds \/ RetryLater
    \/ FxStarts \/ FxEnds \/ FxThrows \/ FxRests \/ GrowsOld
    \/ \E s \in Sockets : Opens(s) \/ Message(s) \/ SocketFails(s) \/ SocketCloses(s)

Spec == Init /\ [][Next]_vars

\* Timers fire, a round of getFx ends (its requests and its commands to Redis
\* have timeouts), and the events that are due come.  That a socket opens or
\* fails is not assumed: the handshake has no timeout.
Fairness ==
    /\ WF_vars(ConnectTimer) /\ WF_vars(ConnectResumes)
    /\ WF_vars(FxStarts) /\ WF_vars(FxEnds \/ FxThrows) /\ WF_vars(FxRests)
    /\ \A s \in Sockets :
         /\ WF_vars(state[s] = "failing" /\ SocketFails(s))
         /\ WF_vars(state[s] = "closing" /\ SocketCloses(s))

FairSpec == Spec /\ Fairness

-----------------------------------------------------------------------------
(* Properties *)

\* While the feed is not in fallback somebody will bring it a price or try
\* the next source: a socket is alive or its close event is due, or a call
\* of connect is on its way.  It does not take the getFx loop, which may die.
ReconnectDue ==
    ~fallback /\ fx # "start"
        => timers > 0 \/ sleepers > 0 \/ \E s \in Sockets : state[s] # "gone"

\* HTTP polling runs only as the last resort, and never beside a feed that is
\* working its way through the providers.
FallbackIsLast ==
    /\ polling => fallback
    /\ fallback => current = Providers

\* The feed is carried on or has run out of providers, and it polls only then.
FeedIsOnItsWay ==
    /\ ReconnectDue
    /\ FallbackIsLast

\* A feed that is not in fallback gets somewhere: a socket opens, or polling
\* starts.  A peer that neither completes the handshake nor refuses it holds
\* the feed up only if the getFx loop has died, which cuts such sockets off.
FeedGetsSomewhere ==
    ~fallback ~> \/ polling
                 \/ \E s \in Sockets : state[s] = "open"
                 \/ fx = "dead" /\ \E s \in Sockets : state[s] = "connecting"

\* "All WebSocket providers failed, switch to HTTP polling": no provider is
\* passed over on the way to the fallback.
AllProvidersTried == fallback => tried = 0..(Providers - 1)

\* The same line: in fallback, with no socket left, HTTP polling is on.
FallbackPolls ==
    fallback /\ (\A s \in Sockets : state[s] = "gone") => polling

\* "Don't crash on FX rate errors, just log them": the loop goes on.
FxLoopLives == fx # "dead"

\* "Send subscription message if needed": a socket that is open has been told
\* which ticker to send.
OpenIsSubscribed == \A s \in Sockets : state[s] = "open" => s \in subscribed
=============================================================================
