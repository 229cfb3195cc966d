---- MODULE RetryManager ----
(***************************************************************************)
(* Operations that are tried again behind a circuit breaker:               *)
(* executeWithRetry of lib/errors/RetryManager.ts and the breaker of       *)
(* lib/errors/CircuitBreaker.ts that all operations of one name share.     *)
(* The breaker opens when failures follow each other, refuses calls until  *)
(* its recovery time, and then lets every call in as a trial (half open)   *)
(* until one of them ends.  A call decides when it ENDS, by the state it   *)
(* then finds: calls that began before the breaker opened end while it is  *)
(* open or half open, and count there.                                     *)
(*                                                                         *)
(* An error is told by what the code asks of it: whether it is expected    *)
(* (in the breaker's list: it counts as a failure and opens nothing), and  *)
(* whether it is retryable (by its class and the list of the retry).       *)
(* Whether the text of the breaker's own refusal is retryable depends on   *)
(* the name of the operation, which it quotes.                             *)
(***************************************************************************)
EXTENDS Clock

CONSTANTS Operations,       \* calls of executeWithRetry under one name
          FailureThreshold,
          RecoveryTimeout,
          MaxRetries,
          InitialDelay,     \* initialDelayMs; the multiplier is 2
          MaxDelay,         \* maxDelayMs
          MaxJitter         \* jitterMs, at most: the draw is any value up to it

ASSUME RetryAssumption ==
  /\ FailureThreshold \in Nat \ {0}
  /\ RecoveryTimeout \in Nat \ {0}
  /\ MaxRetries \in Nat
  /\ InitialDelay \in Nat
  /\ MaxDelay \in Nat
  /\ MaxJitter \in Nat

VARIABLES breaker,          \* [state, failures, nextAttempt]
          ops,              \* per operation, [at, attempt, wakeAt]
          refusalRetried,   \* the text of a refusal is worth a retry
          openUntil         \* ghost: the end of the last opening, 0 after a reset

breakerVars == <<now, breaker, ops, refusalRetried, openUntil>>

Errors == [expected : BOOLEAN, retryable : BOOLEAN]

Places == {"idle", "try", "running", "delay", "done", "failed"}

Closed == [state |-> "closed", failures |-> 0, nextAttempt |-> 0]

Place(p) == [at |-> p, attempt |-> 0, wakeAt |-> 0]

RetryInit ==
  /\ ClockInit
  /\ breaker = Closed
  /\ ops = [o \in Operations |-> Place("idle")]
  /\ refusalRetried \in BOOLEAN
  /\ openUntil = 0

Try(o, n) == ops' = [ops EXCEPT ![o] = [at |-> "try", attempt |-> n, wakeAt |-> 0]]

ExecuteWithRetry(o) ==
  /\ ops[o].at = "idle"
  /\ Try(o, 1)
  /\ UNCHANGED <<now, breaker, refusalRetried, openUntil>>

Least(a, b) == IF a < b THEN a ELSE b

\* calculateDelay, of the attempt that failed.
Delays(n) == {Least(InitialDelay * 2^(n - 1), MaxDelay) + j : j \in 0..MaxJitter}

\* The catch of the loop: o waits for its next attempt, or fails for good.
AfterError(o, retried) ==
  LET n == ops[o].attempt
  IN  IF retried /\ n <= MaxRetries
      THEN \E d \in Delays(n) :
             ops' = [ops EXCEPT ![o] = [at |-> "delay", attempt |-> n, wakeAt |-> now + d]]
      ELSE ops' = [ops EXCEPT ![o] = Place("failed")]

ShouldAttemptReset == now >= breaker.nextAttempt

\* The breaker lets the call start; an open one becomes half open.
Execute(o) ==
  /\ ops[o].at = "try"
  /\ breaker.state = "open" => ShouldAttemptReset
  /\ breaker' = [breaker EXCEPT
                   !.state = IF @ = "open" THEN "halfOpen" ELSE @]
  /\ ops' = [ops EXCEPT ![o].at = "running"]
  /\ UNCHANGED <<now, refusalRetried, openUntil>>

\* The refusal does not count as a failure.
RefuseCall(o) ==
  /\ ops[o].at = "try"
  /\ breaker.state = "open" /\ ~ShouldAttemptReset
  /\ AfterError(o, refusalRetried)
  /\ UNCHANGED <<now, breaker, refusalRetried, openUntil>>

\* Mutant: a success closes the breaker whatever its state.
OnSuccessCloses(o) ==
  /\ ops[o].at = "running"
  /\ breaker' = [breaker EXCEPT !.failures = 0, !.state = "closed"]
  /\ ops' = [ops EXCEPT ![o] = Place("done")]
  /\ UNCHANGED <<now, refusalRetried, openUntil>>

\* Any success empties the count; only one that ends while the breaker is
\* half open closes it.
OnSuccess(o) ==
  /\ ops[o].at = "running"
  /\ breaker' = [breaker EXCEPT !.failures = 0,
                   !.state = IF @ = "halfOpen" THEN "closed" ELSE @]
  /\ ops' = [ops EXCEPT ![o] = Place("done")]
  /\ UNCHANGED <<now, refusalRetried, openUntil>>

\* Failures beyond the threshold count alike and are not told apart.
Counted == Least(breaker.failures + 1, FailureThreshold)

Opened(failures) ==
  [state |-> "open", failures |-> failures, nextAttempt |-> now + RecoveryTimeout]

\* A failure that is not expected opens a half-open breaker, and any other
\* once the threshold is reached: one that is open already, too, whose
\* recovery starts anew.
OnFailure(o, e) ==
  /\ ops[o].at = "running"
  /\ IF /\ ~e.expected
        /\ breaker.state = "halfOpen" \/ Counted >= FailureThreshold
     THEN /\ breaker' = Opened(Counted)
          /\ openUntil' = now + RecoveryTimeout
     ELSE /\ breaker' = [breaker EXCEPT !.failures = Counted]
          /\ UNCHANGED openUntil
  /\ AfterError(o, e.retryable)
  /\ UNCHANGED <<now, refusalRetried>>

Retry(o) ==
  /\ ops[o].at = "delay" /\ now >= ops[o].wakeAt
  /\ Try(o, ops[o].attempt + 1)
  /\ UNCHANGED <<now, breaker, refusalRetried, openUntil>>

\* resetCircuitBreaker
ResetBreaker ==
  /\ breaker' = Closed
  /\ openUntil' = 0
  /\ UNCHANGED <<now, ops, refusalRetried>>

ForceOpen ==
  /\ breaker' = Opened(breaker.failures)
  /\ openUntil' = now + RecoveryTimeout
  /\ UNCHANGED <<now, ops, refusalRetried>>

BreakerTick ==
  /\ Tick
  /\ UNCHANGED <<breaker, ops, refusalRetried, openUntil>>

BreakerStep ==
  \/ \E o \in Operations : \/ ExecuteWithRetry(o)
                           \/ Execute(o)
                           \/ RefuseCall(o)
                           \/ OnSuccess(o)
                           \/ \E e \in Errors : OnFailure(o, e)
                           \/ Retry(o)
  \/ ResetBreaker
  \/ ForceOpen

BreakerNext == BreakerStep \/ BreakerTick

BreakerSpec == RetryInit /\ [][BreakerNext]_breakerVars

-----------------------------------------------------------------------------

BreakerTypeOK ==
  /\ breaker \in [state : {"closed", "open", "halfOpen"},
                  failures : 0..FailureThreshold,
                  nextAttempt : 0..(MaxTime + RecoveryTimeout)]
  /\ ops \in [Operations -> [at : Places, attempt : 0..(MaxRetries + 1),
                             wakeAt : 0..(MaxTime + MaxDelay + MaxJitter)]]
  /\ refusalRetried \in BOOLEAN
  /\ openUntil \in 0..(MaxTime + RecoveryTimeout)

\* Whatever calls that began earlier report while the breaker is open or half
\* open, no call starts before the recovery time of the last opening is over,
\* unless an operator reset the breaker (CircuitBreaker.ts:44-114).
RecoveryRespected ==
  [][\A o \in Operations :
       ops[o].at = "try" /\ ops'[o].at = "running" => now >= openUntil]_breakerVars

====
