---- MODULE RateLimiter ----
(***************************************************************************)
(* The sliding window that limits what a user may send on the web sockets  *)
(* (lib/security/RateLimiter.ts): per key, the instants at which a call    *)
(* was let in.  A check drops the instants that left the window, refuses   *)
(* when MaxRequests remain, and otherwise remembers its own.  Two cleanups *)
(* forget whole keys: one a minute at most, at the start of a check, and   *)
(* one after a check that left more than MaxEntries keys.                  *)
(*                                                                         *)
(* An instant is an entry [call, at]: the number of the check tells two    *)
(* calls of one millisecond apart, as the array of the code does.  An      *)
(* absent key is one without entries: the code never stores an empty list  *)
(* under a key (a check that lets in stores at least its own call, and one *)
(* that refuses has MaxRequests valid ones).                               *)
(***************************************************************************)
EXTENDS Clock, FiniteSets

CONSTANTS Keys,             \* the users' ids
          MaxRequests,      \* calls let in per window
          Window,           \* windowMs
          CleanupInterval,  \* CLEANUP_INTERVAL
          MaxEntries,       \* MAX_ENTRIES
          MaxChecks         \* bound: checks in a run

ASSUME LimiterAssumption ==
  /\ MaxRequests \in Nat \ {0}
  /\ Window \in Nat \ {0}
  /\ CleanupInterval \in Nat
  /\ MaxEntries \in Nat
  /\ MaxChecks \in Nat

VARIABLES requests,     \* the map of the code: key -> entries
          lastCleanup,
          checks,       \* checks so far: the number of the next one
          verdict,      \* what the last check answered, and to whom
          accepted      \* ghost: every call let in since the key was reset

limiterVars == <<now, requests, lastCleanup, checks, verdict, accepted>>

Entries == [call : 0..MaxChecks, at : Times]

Entry(c, t) == [call |-> c, at |-> t]

Verdict(k, ok) == [key |-> k, ok |-> ok]

\* The entries of S that are still in the window at t.
Valid(S, t) == {e \in S : t - e.at < Window}

\* Mutant: a key goes as soon as one of its entries is old.
ExpiredSome(S, t) == \E e \in S : t - e.at > Window

\* Every entry of S is older than the window at t: the test of the cleanup,
\* which keeps an entry of exactly Window that a check no longer counts.
Expired(S, t) == \A e \in S : t - e.at > Window

Forget(m, t) == [k \in Keys |-> IF Expired(m[k], t) THEN {} ELSE m[k]]

CleanupDue == now - lastCleanup > CleanupInterval

\* The map as the periodic cleanup leaves it.
Swept == IF CleanupDue THEN Forget(requests, now) ELSE requests

Size(m) == Cardinality({k \in Keys : m[k] # {}})

LimiterInit ==
  /\ ClockInit
  /\ requests = [k \in Keys |-> {}]
  /\ lastCleanup = 0
  /\ checks = 0
  /\ verdict \in {Verdict(k, FALSE) : k \in Keys}
  /\ accepted = [k \in Keys |-> {}]

\* The refusal keeps what is still valid.
Refuse(k) ==
  /\ Cardinality(Valid(Swept[k], now)) >= MaxRequests
  /\ requests' = [Swept EXCEPT ![k] = Valid(Swept[k], now)]
  /\ verdict' = Verdict(k, FALSE)
  /\ UNCHANGED accepted

LetIn(k) ==
  LET e == Entry(checks, now)
      m == [Swept EXCEPT ![k] = Valid(Swept[k], now) \union {e}]
  IN  /\ Cardinality(Valid(Swept[k], now)) < MaxRequests
      /\ requests' = IF Size(m) > MaxEntries THEN Forget(m, now) ELSE m
      /\ verdict' = Verdict(k, TRUE)
      /\ accepted' = [accepted EXCEPT ![k] = @ \union {e}]

Check(k) ==
  /\ checks < MaxChecks
  /\ Refuse(k) \/ LetIn(k)
  /\ checks' = checks + 1
  /\ lastCleanup' = IF CleanupDue THEN now ELSE lastCleanup
  /\ UNCHANGED now

LimiterTick ==
  /\ Tick
  /\ UNCHANGED <<requests, lastCleanup, checks, verdict, accepted>>

LimiterStep == \E k \in Keys : Check(k)

LimiterNext == LimiterStep \/ LimiterTick

LimiterSpec == LimiterInit /\ [][LimiterNext]_limiterVars

-----------------------------------------------------------------------------

LimiterTypeOK ==
  /\ now \in Times
  /\ requests \in [Keys -> SUBSET Entries]
  /\ lastCleanup \in 0..now
  /\ checks \in 0..MaxChecks
  /\ verdict \in [key : Keys, ok : BOOLEAN]
  /\ accepted \in [Keys -> SUBSET Entries]

\* What the limiter has forgotten would not count any more: the calls of a
\* key that are still in the window are exactly those that it remembers.
NothingValidForgotten ==
  \A k \in Keys : Valid(requests[k], now) = Valid(accepted[k], now)

\* A check lets a call in exactly when fewer than MaxRequests calls of its
\* key were let in during the window that ends with it, whatever the two
\* cleanups dropped in the meantime (RateLimiter.ts:19-65).
AcceptsExactly ==
  [][\A k \in Keys :
       checks' # checks /\ verdict'.key = k =>
         (verdict'.ok <=> Cardinality(Valid(accepted[k], now)) < MaxRequests)]_limiterVars

\* No window holds more than MaxRequests accepted calls of a key.
WindowRespected ==
  \A k \in Keys : Cardinality(Valid(accepted[k], now)) <= MaxRequests

====
