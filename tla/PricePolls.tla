---- MODULE PricePolls ----
(***************************************************************************)
(* The price over HTTP: fetchRate of lib/rates.ts on its interval, and the *)
(* requests behind it (lib/utils/httpRetry.ts).  A pass asks one provider  *)
(* after the other, each twice at most, and publishes the first price it   *)
(* gets.  The interval does not wait for the pass before, so that passes   *)
(* overlap when providers are slow, and end in any order.                  *)
(*                                                                         *)
(* tryMultipleProviders gives every provider two attempts, so that of the  *)
(* growing delays only the first is used.  A price is the instant at which *)
(* it was quoted.  Requests and Redis commands are aborted when their time *)
(* is up; what the event loop adds to that is left out.                    *)
(***************************************************************************)
EXTENDS Clock, FiniteSets

CONSTANTS ProviderCount,    \* providers a pass asks, in their order
          RequestTimeout,   \* timeout.request
          RetryDelay,       \* initialDelay
          StoreTime,        \* the Redis commands after a price, at most
          PollInterval,
          MaxStarts,        \* bound: times polling starts
          MaxPasses         \* bound: passes begun

ASSUME PollsAssumption ==
  /\ ProviderCount \in Nat \ {0}
  /\ RequestTimeout \in Nat \ {0}
  /\ RetryDelay \in Nat
  /\ StoreTime \in Nat
  /\ PollInterval \in Nat \ {0}
  /\ MaxStarts \in Nat
  /\ MaxPasses \in Nat

VARIABLES pollsDue,     \* the instant of the next pass, or NotPolling
          passes,       \* the passes under way
          begun,        \* passes begun so far
          starts,       \* times polling has started
          rates         \* the price behind the rates in Redis

pollsVars == <<now, pollsDue, passes, begun, starts, rates>>

NotPolling == MaxTime + PollInterval + 1

\* A pass by its number, asking or waiting to ask again since an instant, or
\* storing the price it got.
Pass(n, t, what, provider, attempt, since, quote) ==
  [number |-> n, began |-> t, doing |-> what, provider |-> provider,
   attempt |-> attempt, since |-> since, quote |-> quote]

Asking(p, provider, attempt) ==
  Pass(p.number, p.began, "asking", provider, attempt, now, 0)

Fresh == Pass(begun + 1, now, "asking", 1, 1, now, 0)

PollsInit ==
  /\ ClockInit
  /\ pollsDue = NotPolling
  /\ passes = {}
  /\ begun = 0
  /\ starts = 0
  /\ rates = 0

Becomes(p, S) == passes' = (passes \ {p}) \union S

Begins ==
  /\ begun < MaxPasses
  /\ begun' = begun + 1
  /\ passes' = passes \union {Fresh}
  /\ pollsDue' = now + PollInterval

StartPolls ==
  /\ pollsDue = NotPolling /\ starts < MaxStarts
  /\ starts' = starts + 1
  /\ Begins
  /\ UNCHANGED <<now, rates>>

\* The interval, whether or not its passes have ended.
PollAgain ==
  /\ now >= pollsDue
  /\ Begins
  /\ UNCHANGED <<now, starts, rates>>

\* The passes under way go on.
StopPolls ==
  /\ pollsDue # NotPolling
  /\ pollsDue' = NotPolling
  /\ UNCHANGED <<now, passes, begun, starts, rates>>

\* An answer with a price in it, quoted while it was asked for: at the
\* earliest or at the latest.  (The price in memory is this one from then on.)
Quoted(p) ==
  /\ p.doing = "asking"
  /\ \E t \in {p.since, now} :
       Becomes(p, {Pass(p.number, p.began, "storing", p.provider, 1, now, t)})
  /\ UNCHANGED <<now, pollsDue, begun, starts, rates>>

\* Mutant: the attempts are not counted.
BreaksAgain(p) ==
  /\ p.doing = "asking"
  /\ Becomes(p, {[p EXCEPT !.doing = "waiting", !.since = now]})
  /\ UNCHANGED <<now, pollsDue, begun, starts, rates>>

\* An error worth another attempt: a 429, a 5xx, a connection that breaks.
Breaks(p) ==
  /\ p.doing = "asking" /\ p.attempt = 1
  /\ Becomes(p, {[p EXCEPT !.doing = "waiting", !.since = now]})
  /\ UNCHANGED <<now, pollsDue, begun, starts, rates>>

AsksAgain(p) ==
  /\ p.doing = "waiting" /\ now >= p.since + RetryDelay
  /\ Becomes(p, {Asking(p, p.provider, p.attempt + 1)})
  /\ UNCHANGED <<now, pollsDue, begun, starts, rates>>

\* An answer without a price, a 4xx, a timeout (whose text names no code that
\* the retry looks for), or the second error: the next provider, if any.
NextSource(p) ==
  /\ p.doing = "asking"
  /\ Becomes(p, {Asking(p, i, 1) : i \in {p.provider + 1} \cap (1..ProviderCount)})
  /\ UNCHANGED <<now, pollsDue, begun, starts, rates>>

\* The rates are stored; or a command fails on the way and they are not.
Publish(p) ==
  /\ p.doing = "storing"
  /\ Becomes(p, {})
  /\ rates' \in {rates, p.quote}
  /\ UNCHANGED <<now, pollsDue, begun, starts>>

\* The end of what p is doing.
Deadline(p) ==
  p.since + CASE p.doing = "asking" -> RequestTimeout
              [] p.doing = "waiting" -> RetryDelay
              [] p.doing = "storing" -> StoreTime

PollsTick ==
  /\ \A p \in passes : now < Deadline(p)
  /\ Tick
  /\ UNCHANGED <<pollsDue, passes, begun, starts, rates>>

PollsStep ==
  \/ StartPolls
  \/ PollAgain
  \/ StopPolls
  \/ \E p \in passes : \/ Quoted(p)
                       \/ Breaks(p)
                       \/ AsksAgain(p)
                       \/ NextSource(p)
                       \/ Publish(p)

PollsNext == PollsStep \/ PollsTick

PollsSpec == PollsInit /\ [][PollsNext]_pollsVars

-----------------------------------------------------------------------------

\* The longest a provider, and a pass, can take to give up.
ProviderTime == 2 * RequestTimeout + RetryDelay
PassTime == ProviderCount * ProviderTime

\* A pass has at most the time of the providers it has asked, and then that
\* of the Redis commands.
PassesInTime ==
  \A p \in passes :
    now - p.began <= p.provider * ProviderTime
                       + (IF p.doing = "storing" THEN StoreTime ELSE 0)

\* What a pass is about to store was quoted no longer ago than one request and
\* the commands take.  Nothing is said of what it replaces: that may be newer.
QuotesAreRecent ==
  \A p \in passes : p.doing = "storing" => now - p.quote <= RequestTimeout + StoreTime

\* The passes that overlap are those of the intervals within one pass, and
\* one more each time polling starts.
OverlapBounded ==
  Cardinality(passes) <= (PassTime + StoreTime) \div PollInterval + starts

\* Although nothing keeps the interval from starting a pass while others are
\* under way, slow providers cannot pile them up, and however long a pass was
\* overtaken, the price it publishes is of a bounded age (rates.ts:253-317).
PollsBounded == PassesInTime /\ QuotesAreRecent /\ OverlapBounded

\* The price in Redis is never replaced by one quoted earlier.  The code does
\* not give this: passes that overlap store in any order.
PricesGoForward == [][rates' >= rates]_pollsVars

====
