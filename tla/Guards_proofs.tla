---- MODULE Guards_proofs ----
(***************************************************************************)
(* Proofs about the request guards, which count by the clock, and about    *)
(* the prices.  Each part has its own specification and its own inductive  *)
(* invariant:                                                              *)
(*   - the breaker: while it is open the instant of its recovery is that   *)
(*     of the last opening, otherwise that instant has passed;             *)
(*   - the login gate: a lockout that is not over stands in the record;    *)
(*     and the record, with the guesses that opened a window, tells how    *)
(*     many there were;                                                    *)
(*   - the message limiter: what it remembers and what was let in agree on *)
(*     what is still in the window;                                        *)
(*   - the price passes: what a pass has used up of its time, told by the  *)
(*     provider it asks, the attempt and when that began; and the passes   *)
(*     that were begun since, of which an interval lies between any two;   *)
(*   - the price feed: its types, and that it is never left with nobody on *)
(*     the way to a price source unless it is in fallback, for every       *)
(*     number of sockets and providers.                                    *)
(***************************************************************************)
EXTENDS RateLimiter, LoginGate, RetryManager, PricePolls, RatesFeed,
        FiniteSetTheorems, TLAPS

-----------------------------------------------------------------------------
(* The breaker *)

\* Nothing is said about the delays: the theorem holds for any.
BreakerInv ==
  /\ now \in Nat
  /\ openUntil \in Nat
  /\ breaker \in [state : {"closed", "open", "halfOpen"},
                  failures : Nat, nextAttempt : Nat]
  /\ ops = [o \in Operations |-> ops[o]]
  /\ breaker.state = "open" => breaker.nextAttempt = openUntil
  /\ breaker.state # "open" => openUntil <= now

LEMMA BreakerStarts == RetryInit => BreakerInv
BY RetryAssumption DEF RetryInit, ClockInit, BreakerInv, Closed, Place

\* The catch of the loop starts no call.
LEMMA AfterErrorStartsNone ==
  ASSUME BreakerInv, NEW o \in Operations, NEW retried, AfterError(o, retried)
  PROVE  /\ ops' = [p \in Operations |-> ops'[p]]
         /\ \A p \in Operations :
              ops[p].at = "try" => ops'[p].at # "running"
<1>1. \A p \in Operations : p # o => ops'[p] = ops[p]
  BY DEF AfterError, BreakerInv
<1>2. ops'[o].at \in {"delay", "failed"}
  BY DEF AfterError, BreakerInv, Place
<1>3. ops' = [p \in Operations |-> ops'[p]]
  BY DEF AfterError, BreakerInv
<1>4. QED  BY <1>1, <1>2, <1>3

LEMMA BreakerKeeps ==
  BreakerInv /\ [BreakerNext]_breakerVars =>
    /\ BreakerInv'
    /\ \A o \in Operations :
         ops[o].at = "try" /\ ops'[o].at = "running" => now >= openUntil
<1> SUFFICES ASSUME BreakerInv, [BreakerNext]_breakerVars
             PROVE  /\ BreakerInv'
                    /\ \A o \in Operations :
                         ops[o].at = "try" /\ ops'[o].at = "running"
                           => now >= openUntil
  OBVIOUS
<1> USE RetryAssumption
<1>1. ASSUME NEW o \in Operations, ExecuteWithRetry(o) \/ Retry(o)
      PROVE  /\ BreakerInv'
             /\ \A p \in Operations : ops[p].at = "try" => ops'[p].at # "running"
  BY <1>1 DEF ExecuteWithRetry, Retry, Try, BreakerInv
<1>2. ASSUME NEW o \in Operations, Execute(o)
      PROVE  BreakerInv' /\ now >= openUntil
  <2>1. breaker.state = "open" => breaker.nextAttempt <= now
    BY <1>2 DEF Execute, ShouldAttemptReset, BreakerInv
  <2>2. now >= openUntil
    BY <2>1 DEF BreakerInv
  <2>3. /\ breaker' \in [state : {"closed", "open", "halfOpen"},
                         failures : Nat, nextAttempt : Nat]
        /\ breaker'.state # "open"
    BY <1>2 DEF Execute, BreakerInv
  <2>4. QED  BY <1>2, <2>2, <2>3 DEF Execute, BreakerInv
<1>3. ASSUME NEW o \in Operations, RefuseCall(o)
      PROVE  /\ BreakerInv'
             /\ \A p \in Operations : ops[p].at = "try" => ops'[p].at # "running"
  BY <1>3, AfterErrorStartsNone DEF RefuseCall, BreakerInv
<1>4. ASSUME NEW o \in Operations, OnSuccess(o)
      PROVE  /\ BreakerInv'
             /\ \A p \in Operations : ops[p].at = "try" => ops'[p].at # "running"
  BY <1>4 DEF OnSuccess, Place, BreakerInv
<1>5. ASSUME NEW o \in Operations, NEW e \in Errors, OnFailure(o, e)
      PROVE  /\ BreakerInv'
             /\ \A p \in Operations : ops[p].at = "try" => ops'[p].at # "running"
  <2>1. Counted \in Nat
    BY DEF Counted, Least, BreakerInv
  <2>2. /\ now' = now
        /\ ops' = [p \in Operations |-> ops'[p]]
        /\ \A p \in Operations : ops[p].at = "try" => ops'[p].at # "running"
    BY <1>5, AfterErrorStartsNone DEF OnFailure
  <2>3. \/ breaker' = Opened(Counted) /\ openUntil' = now + RecoveryTimeout
        \/ breaker' = [breaker EXCEPT !.failures = Counted] /\ openUntil' = openUntil
    BY <1>5 DEF OnFailure
  <2>4. CASE breaker' = Opened(Counted) /\ openUntil' = now + RecoveryTimeout
    BY <2>1, <2>2, <2>4 DEF Opened, BreakerInv
  <2>5. CASE breaker' = [breaker EXCEPT !.failures = Counted] /\ openUntil' = openUntil
    BY <2>1, <2>2, <2>5 DEF BreakerInv
  <2>6. QED  BY <2>2, <2>3, <2>4, <2>5
<1>6. CASE ResetBreaker
  BY <1>6 DEF ResetBreaker, Closed, BreakerInv
<1>7. CASE ForceOpen
  BY <1>7 DEF ForceOpen, Opened, BreakerInv
<1>8. CASE BreakerTick
  BY <1>8 DEF BreakerTick, Tick, BreakerInv
<1>9. CASE UNCHANGED breakerVars
  BY <1>9 DEF breakerVars, BreakerInv
<1>10. ASSUME NEW o \in Operations, Execute(o)
       PROVE  \A p \in Operations :
                ops[p].at = "try" /\ ops'[p].at = "running" => now >= openUntil
  BY <1>2, <1>10
<1>11. QED
  BY <1>1, <1>2, <1>3, <1>4, <1>5, <1>6, <1>7, <1>8, <1>9, <1>10
  DEF BreakerNext, BreakerStep

\* No call starts before the recovery time of the last opening is over, for
\* any threshold, any delays and any calls that end late (CircuitBreaker.ts).
THEOREM RecoveryHolds == BreakerSpec => RecoveryRespected
<1>1. BreakerInv /\ [BreakerNext]_breakerVars
        => [\A o \in Operations :
              ops[o].at = "try" /\ ops'[o].at = "running"
                => now >= openUntil]_breakerVars
  BY BreakerKeeps
<1>2. BreakerInv /\ [BreakerNext]_breakerVars => BreakerInv'
  BY BreakerKeeps
<1>3. QED
  BY BreakerStarts, <1>1, <1>2, PTL DEF BreakerSpec, RecoveryRespected

-----------------------------------------------------------------------------
(* The login gate *)

\* A lockout that is not over stands in the record of its address.
LockoutKept ==
  \A a \in Addresses :
    now < lockedUntil[a] =>
      attempts[a].locked /\ attempts[a].resetAt = lockedUntil[a]

GateInv == GateTypeOK /\ LockoutKept

LEMMA GateTypes ==
  /\ NoRecord \in Records
  /\ 0 \in 0..MaxVerifying
  /\ 0 \in 0..(MaxTime + Lockout)
  /\ \A t \in Times : FirstAttempt(t) \in Records
  /\ \A t \in Times :
       [count |-> MaxAttempts + 1, resetAt |-> t + Lockout, locked |-> TRUE] \in Records
BY GateAssumption, MaxTimeAssumption DEF NoRecord, Records, FirstAttempt, Times

LEMMA GateStarts == GateInit => GateInv
<1> SUFFICES ASSUME GateInit PROVE GateInv
  OBVIOUS
<1>1. now \in Times /\ nextSweep \in 0..(MaxTime + SweepInterval)
  BY GateAssumption, MaxTimeAssumption DEF GateInit, ClockInit, Times
<1>2. GateTypeOK
  BY <1>1, GateTypes DEF GateInit, GateTypeOK
<1>3. QED  BY <1>1, <1>2 DEF GateInit, ClockInit, GateInv, LockoutKept

\* An attempt that is let through finds no lockout that is not over.
LEMMA LetThroughKeeps ==
  ASSUME GateInv, NEW a \in Addresses, NEW r \in Records,
         LetThrough(a, r), now' = now, nextSweep' = nextSweep,
         ~(now < lockedUntil[a])
  PROVE  /\ GateInv'
         /\ \A b \in Addresses :
              Len(guesses'[b]) > Len(guesses[b]) => now >= lockedUntil[b]
<1>1. now \in Times /\ lockedUntil[a] \in 0..(MaxTime + Lockout)
  BY DEF GateInv, GateTypeOK
<1>2. Append(guesses[a], now) \in Seq(Times)
  BY <1>1 DEF GateInv, GateTypeOK
<1>3. verifying[a] + 1 \in 0..MaxVerifying
  BY GateAssumption DEF LetThrough, GateInv, GateTypeOK
<1>4. attempts' \in [Addresses -> Records]
  BY DEF LetThrough, GateInv, GateTypeOK
<1>5. /\ verifying' \in [Addresses -> 0..MaxVerifying]
      /\ guesses' \in [Addresses -> Seq(Times)]
  BY <1>2, <1>3 DEF LetThrough, GateInv, GateTypeOK
<1>6. GateTypeOK'
  BY <1>4, <1>5 DEF LetThrough, GateInv, GateTypeOK
<1>7. LockoutKept'
  BY DEF LetThrough, GateInv, GateTypeOK, LockoutKept
<1>8. \A b \in Addresses : b # a => guesses'[b] = guesses[b]
  BY DEF LetThrough, GateInv, GateTypeOK
<1>9. now >= lockedUntil[a]
  BY <1>1, MaxTimeAssumption, GateAssumption DEF Times
<1>10. \A b \in Addresses : b # a => ~(Len(guesses'[b]) > Len(guesses[b]))
  BY <1>8 DEF GateInv, GateTypeOK
<1>11. QED  BY <1>6, <1>7, <1>9, <1>10 DEF GateInv

LEMMA ResetKeeps ==
  ASSUME GateInv, NEW a \in Addresses, ResetGate(a), now' = now,
         nextSweep' = nextSweep, verifying' \in [Addresses -> 0..MaxVerifying]
  PROVE  /\ GateInv'
         /\ \A b \in Addresses : ~(Len(guesses'[b]) > Len(guesses[b]))
<1>a. attempts' \in [Addresses -> Records]
  BY GateTypes DEF ResetGate, GateInv, GateTypeOK
<1>b. /\ guesses' \in [Addresses -> Seq(Times)]
      /\ lockedUntil' \in [Addresses -> 0..(MaxTime + Lockout)]
  BY GateTypes DEF ResetGate, GateInv, GateTypeOK
<1>1. GateTypeOK'
  BY <1>a, <1>b DEF GateInv, GateTypeOK
<1>2. now \in Nat
  BY DEF GateInv, GateTypeOK, Times
<1>3. LockoutKept'
  BY <1>2 DEF ResetGate, GateInv, GateTypeOK, LockoutKept
<1>4. guesses'[a] = <<>>
  BY DEF ResetGate, GateInv, GateTypeOK
<1>5. Len(guesses'[a]) = 0 /\ Len(guesses[a]) \in Nat
  BY <1>4 DEF GateInv, GateTypeOK
<1>6. \A b \in Addresses : b # a => guesses'[b] = guesses[b]
  BY DEF ResetGate, GateInv, GateTypeOK
<1>7. \A b \in Addresses : Len(guesses[b]) \in Nat
  BY DEF GateInv, GateTypeOK
<1>8. QED  BY <1>1, <1>3, <1>5, <1>6, <1>7 DEF GateInv

LEMMA GateKeeps ==
  GateInv /\ [GateNext]_gateVars =>
    /\ GateInv'
    /\ \A a \in Addresses :
         Len(guesses'[a]) > Len(guesses[a]) => now >= lockedUntil[a]
<1> SUFFICES ASSUME GateInv, [GateNext]_gateVars
             PROVE  /\ GateInv'
                    /\ \A a \in Addresses :
                         Len(guesses'[a]) > Len(guesses[a]) => now >= lockedUntil[a]
  OBVIOUS
<1> USE GateAssumption, MaxTimeAssumption
<1>0. \A a \in Addresses : Len(guesses[a]) \in Nat
  BY DEF GateInv, GateTypeOK
<1>1. ASSUME NEW a \in Addresses, Login(a)
      PROVE  /\ GateInv'
             /\ \A b \in Addresses :
                  Len(guesses'[b]) > Len(guesses[b]) => now >= lockedUntil[b]
  <2>0. /\ now' = now /\ nextSweep' = nextSweep
        /\ now \in Times /\ attempts[a] \in Records
        /\ lockedUntil[a] \in 0..(MaxTime + Lockout)
    BY <1>1 DEF Login, GateInv, GateTypeOK
  <2>1. CASE NewWindow(a)
    <3>1. ~(now < lockedUntil[a])
      <4> SUFFICES ASSUME now < lockedUntil[a] PROVE FALSE
        OBVIOUS
      <4>1. attempts[a].locked /\ attempts[a].resetAt = lockedUntil[a]
        BY DEF GateInv, LockoutKept
      <4>2. Known(a)
        BY <4>1 DEF Known, NoRecord
      <4>3. now > attempts[a].resetAt
        BY <2>1, <4>2 DEF NewWindow, Passed
      <4>4. QED  BY <2>0, <4>1, <4>3 DEF Times
    <3>2. FirstAttempt(now) \in Records
      BY <2>0, GateTypes
    <3>3. QED  BY <2>0, <2>1, <3>1, <3>2, LetThroughKeeps DEF NewWindow
  <2>2. CASE CountAttempt(a)
    <3>1. ~(now < lockedUntil[a])
      BY <2>2 DEF CountAttempt, LockedOut, GateInv, LockoutKept
    <3>2. [attempts[a] EXCEPT !.count = @ + 1] \in Records
      BY <2>0, <2>2 DEF CountAttempt, Records
    <3>3. QED  BY <2>0, <2>2, <3>1, <3>2, LetThroughKeeps DEF CountAttempt
  <2>3. CASE LockOut(a)
    <3>1. [count |-> MaxAttempts + 1, resetAt |-> now + Lockout, locked |-> TRUE] \in Records
      BY <2>0, GateTypes
    <3>2. now + Lockout \in 0..(MaxTime + Lockout)
      BY <2>0 DEF Times
    <3>3. GateTypeOK'
      BY <2>0, <2>3, <3>1, <3>2 DEF LockOut, GateInv, GateTypeOK
    <3>4. LockoutKept'
      BY <2>0, <2>3 DEF LockOut, GateInv, GateTypeOK, LockoutKept
    <3>5. guesses' = guesses
      BY <2>3 DEF LockOut
    <3>6. QED  BY <1>0, <3>3, <3>4, <3>5 DEF GateInv
  <2>4. CASE TurnAway(a)
    BY <1>0, <2>4 DEF TurnAway, gateVars, GateInv, GateTypeOK, LockoutKept
  <2>5. QED  BY <1>1, <2>1, <2>2, <2>3, <2>4 DEF Login
<1>2. ASSUME NEW a \in Addresses, WrongPassword(a)
      PROVE  GateInv' /\ guesses' = guesses
  BY <1>2 DEF WrongPassword, GateInv, GateTypeOK, LockoutKept
<1>3. ASSUME NEW a \in Addresses, RightPassword(a) \/ Registered(a)
      PROVE  /\ GateInv'
             /\ \A b \in Addresses : ~(Len(guesses'[b]) > Len(guesses[b]))
  <2>1. /\ ResetGate(a) /\ now' = now /\ nextSweep' = nextSweep
        /\ verifying' \in [Addresses -> 0..MaxVerifying]
    <3>1. CASE RightPassword(a)
      <4>1. verifying[a] \in 0..MaxVerifying /\ verifying[a] > 0
        BY <3>1 DEF RightPassword, GateInv, GateTypeOK
      <4>2. verifying[a] - 1 \in 0..MaxVerifying
        BY <4>1
      <4>3. QED  BY <3>1, <4>2 DEF RightPassword, GateInv, GateTypeOK
    <3>2. CASE Registered(a)
      BY <3>2 DEF Registered, GateInv, GateTypeOK
    <3>3. QED  BY <1>3, <3>1, <3>2
  <2>2. QED  BY <2>1, ResetKeeps
<1>4. ASSUME SweepAttempts
      PROVE  GateInv' /\ guesses' = guesses
  <2>0. now \in Times
    BY DEF GateInv, GateTypeOK
  <2>1. attempts' \in [Addresses -> Records]
    BY <1>4, GateTypes DEF SweepAttempts, GateInv, GateTypeOK
  <2>2. nextSweep' \in 0..(MaxTime + SweepInterval)
    BY <1>4, <2>0 DEF SweepAttempts, Times
  <2>3. GateTypeOK'
    BY <1>4, <2>1, <2>2 DEF SweepAttempts, GateInv, GateTypeOK
  <2>4. \A a \in Addresses : now < lockedUntil[a] => attempts'[a] = attempts[a]
    <3> SUFFICES ASSUME NEW a \in Addresses, now < lockedUntil[a]
                 PROVE  ~Passed(a)
      BY <1>4 DEF SweepAttempts
    <3>1. attempts[a].resetAt = lockedUntil[a] /\ lockedUntil[a] \in 0..(MaxTime + Lockout)
      BY DEF GateInv, GateTypeOK, LockoutKept
    <3>2. QED  BY <2>0, <3>1 DEF Passed, Times
  <2>5. LockoutKept'
    BY <1>4, <2>4 DEF SweepAttempts, GateInv, LockoutKept
  <2>6. QED  BY <1>4, <2>3, <2>5 DEF SweepAttempts, GateInv
<1>5. ASSUME GateTick
      PROVE  GateInv' /\ guesses' = guesses
  <2>1. now' \in Times /\ now' = now + 1 /\ now \in Nat
    BY <1>5 DEF GateTick, Tick, GateInv, GateTypeOK, Times
  <2>2. GateTypeOK'
    BY <1>5, <2>1 DEF GateTick, GateInv, GateTypeOK
  <2>3. \A a \in Addresses : lockedUntil[a] \in Nat
    BY DEF GateInv, GateTypeOK
  <2>4. LockoutKept'
    BY <1>5, <2>1, <2>3 DEF GateTick, GateInv, LockoutKept
  <2>5. QED  BY <1>5, <2>2, <2>4 DEF GateTick, GateInv
<1>6. ASSUME UNCHANGED gateVars
      PROVE  GateInv' /\ guesses' = guesses
  BY <1>6 DEF gateVars, GateInv, GateTypeOK, LockoutKept
<1>7. ASSUME guesses' = guesses
      PROVE  \A a \in Addresses : ~(Len(guesses'[a]) > Len(guesses[a]))
  BY <1>0, <1>7
<1>8. QED
  BY <1>1, <1>2, <1>3, <1>4, <1>5, <1>6, <1>7 DEF GateNext, GateStep

\* The record of every address, and the counts around it, keep their types.
THEOREM GateTypeCorrect == GateSpec => []GateTypeOK
<1>1. GateInv => GateTypeOK
  BY DEF GateInv
<1>2. GateInv /\ [GateNext]_gateVars => GateInv'
  BY GateKeeps
<1>3. QED  BY GateStarts, <1>1, <1>2, PTL DEF GateSpec

\* A lockout holds for any limits and intervals: neither attempts that are
\* refused, nor the clean-up, nor logins under way let a guess in before its
\* end (security.ts:153-219).
THEOREM LockoutAlwaysHolds == GateSpec => LockoutHolds
<1>1. GateInv /\ [GateNext]_gateVars => GateInv'
  BY GateKeeps
<1>2. GateInv /\ [GateNext]_gateVars
        => [\A a \in Addresses :
              Len(guesses'[a]) > Len(guesses[a]) => now >= lockedUntil[a]]_gateVars
  BY GateKeeps
<1>3. QED  BY GateStarts, <1>1, <1>2, PTL DEF GateSpec, LockoutHolds

-----------------------------------------------------------------------------
(* How many guesses an address gets *)

\* S are the guesses of a that opened a window: one at most MaxAttempts - 1
\* before each guess, each later than the window of the one before, and the
\* record tells when the last window is over.
WindowsAre(a, S) ==
  /\ \A i, j \in DOMAIN guesses[a] : i <= j => guesses[a][i] <= guesses[a][j]
  /\ \A i \in DOMAIN guesses[a] : guesses[a][i] <= now
  /\ \A i \in DOMAIN guesses[a] : \E s \in S : i - MaxAttempts < s /\ s <= i
  /\ \A s, t \in S : s < t => guesses[a][t] > guesses[a][s] + AttemptWindow
  /\ \A s \in S : IF Known(a) THEN guesses[a][s] + AttemptWindow <= attempts[a].resetAt
                              ELSE guesses[a][s] + AttemptWindow < now
  /\ Known(a) /\ ~attempts[a].locked =>
       /\ attempts[a].count \in 1..MaxAttempts
       /\ Len(guesses[a]) - attempts[a].count + 1 \in S
  /\ attempts[a].locked => attempts[a].count = MaxAttempts + 1

GuessInv ==
  /\ GateInv
  /\ \A a \in Addresses : \E S \in SUBSET DOMAIN guesses[a] : WindowsAre(a, S)

LEMMA GuessStarts == GateInit => GuessInv
<1> SUFFICES ASSUME GateInit PROVE GuessInv
  OBVIOUS
<1>1. ASSUME NEW a \in Addresses PROVE WindowsAre(a, {})
  <2>1. guesses[a] = <<>> /\ attempts[a] = NoRecord
    BY DEF GateInit
  <2>2. DOMAIN guesses[a] = {}
    BY <2>1
  <2>3. ~Known(a) /\ ~attempts[a].locked
    BY <2>1 DEF Known, NoRecord
  <2>4. QED  BY <2>2, <2>3 DEF WindowsAre
<1>2. QED  BY <1>1, GateStarts DEF GuessInv

\* What is known of an address in the proofs below.
LEMMA GateFacts ==
  ASSUME GateInv, NEW a \in Addresses
  PROVE  /\ now \in Nat
         /\ attempts[a] \in Records
         /\ attempts[a].count \in Nat /\ attempts[a].resetAt \in Nat
         /\ attempts[a].locked \in BOOLEAN
         /\ guesses[a] \in Seq(Nat) /\ Len(guesses[a]) \in Nat
         /\ DOMAIN guesses[a] = 1..Len(guesses[a])
         /\ \A i \in DOMAIN guesses[a] : guesses[a][i] \in Nat
<1>1. now \in Nat /\ attempts[a] \in Records /\ guesses[a] \in Seq(Times)
  BY DEF GateInv, GateTypeOK, Times
<1>2. /\ Len(guesses[a]) \in Nat /\ DOMAIN guesses[a] = 1..Len(guesses[a])
      /\ \A i \in 1..Len(guesses[a]) : guesses[a][i] \in Times
  BY <1>1
<1>3. guesses[a] \in Seq(Nat)
  BY <1>1, <1>2 DEF Times
<1>4. QED  BY <1>1, <1>2, <1>3 DEF Records, Times

\* An attempt that is let through adds the present instant.
LEMMA GuessAppended ==
  ASSUME GateInv, NEW a \in Addresses, NEW r, LetThrough(a, r)
  PROVE  LET g == guesses[a]
             n == Len(guesses[a]) + 1
         IN  /\ attempts'[a] = r
             /\ Len(guesses'[a]) = n
             /\ DOMAIN guesses'[a] = 1..n
             /\ guesses'[a][n] = now
             /\ \A i \in 1..Len(g) : guesses'[a][i] = g[i]
<1>1. attempts'[a] = r /\ guesses'[a] = Append(guesses[a], now)
  BY DEF LetThrough, GateInv, GateTypeOK
<1>2. guesses[a] \in Seq(Nat) /\ now \in Nat
  BY GateFacts
<1>3. QED  BY <1>1, <1>2

LEMMA NewWindowKeeps ==
  ASSUME GateInv, NEW a \in Addresses, now' = now,
         NEW S \in SUBSET DOMAIN guesses[a], WindowsAre(a, S), NewWindow(a)
  PROVE  \E T \in SUBSET DOMAIN guesses'[a] : WindowsAre(a, T)'
<1> DEFINE g == guesses[a]
           h == guesses'[a]
           n == Len(guesses[a]) + 1
           r == FirstAttempt(now)
           T == S \union {n}
<1>1. /\ now \in Nat /\ AttemptWindow \in Nat /\ AttemptWindow > 0
      /\ MaxAttempts \in Nat /\ MaxAttempts > 0
      /\ n \in Nat /\ DOMAIN g = 1..(n - 1) /\ n > 0
      /\ \A i \in 1..(n - 1) : g[i] \in Nat
      /\ attempts[a].resetAt \in Nat
  BY GateFacts, GateAssumption
<1>2. /\ attempts'[a] = r /\ Len(h) = n /\ DOMAIN h = 1..n /\ h[n] = now
      /\ \A i \in 1..(n - 1) : h[i] = g[i]
  BY GuessAppended, GateFacts DEF NewWindow
<1>3. /\ attempts'[a].count = 1 /\ attempts'[a].resetAt = now + AttemptWindow
      /\ attempts'[a].locked = FALSE /\ Known(a)'
  BY <1>2 DEF FirstAttempt, Known, NoRecord
<1>4. \A s \in S : s \in 1..(n - 1) /\ g[s] + AttemptWindow < now
  <2>1. ASSUME NEW s \in S PROVE s \in 1..(n - 1) /\ g[s] + AttemptWindow < now
    <3>1. s \in 1..(n - 1) /\ g[s] \in Nat
      BY <1>1
    <3>2. CASE Known(a)
      <4>1. g[s] + AttemptWindow <= attempts[a].resetAt
        BY <3>2 DEF WindowsAre
      <4>2. attempts[a].resetAt < now
        BY <1>1, <3>2 DEF NewWindow, Passed
      <4>3. QED  BY <1>1, <3>1, <4>1, <4>2
    <3>3. CASE ~Known(a)
      BY <3>1, <3>3 DEF WindowsAre
    <3>4. QED  BY <3>2, <3>3
  <2>2. QED  BY <2>1
<1>5. \A i, j \in 1..(n - 1) : i <= j => g[i] <= g[j]
  BY <1>1 DEF WindowsAre
<1>6. \A i \in 1..(n - 1) : g[i] <= now
  BY <1>1 DEF WindowsAre
<1>7. \A i \in 1..(n - 1) : \E s \in S : i - MaxAttempts < s /\ s <= i
  BY <1>1 DEF WindowsAre
<1>8. \A s, t \in S : s < t => g[t] > g[s] + AttemptWindow
  BY <1>1 DEF WindowsAre
<1> HIDE DEF g, h, n, r
<1>9. /\ \A i, j \in DOMAIN h : i <= j => h[i] <= h[j]
      /\ \A i \in DOMAIN h : h[i] <= now'
  BY <1>1, <1>2, <1>5, <1>6
<1>10. \A i \in DOMAIN h : \E s \in T : i - MaxAttempts < s /\ s <= i
  <2>1. n - MaxAttempts < n
    BY <1>1
  <2>2. QED  BY <1>1, <1>2, <1>7, <2>1
<1>11. \A s, t \in T : s < t => h[t] > h[s] + AttemptWindow
  BY <1>1, <1>2, <1>4, <1>8
<1>12. \A s \in T : h[s] + AttemptWindow <= attempts'[a].resetAt
  BY <1>1, <1>2, <1>3, <1>4
<1>13. Len(h) - attempts'[a].count + 1 \in T /\ attempts'[a].count \in 1..MaxAttempts
  BY <1>1, <1>2, <1>3
<1>14. T \in SUBSET DOMAIN h
  BY <1>1, <1>2, <1>4
<1> HIDE DEF T
<1>15. PICK U \in SUBSET DOMAIN h : U = T
  BY <1>14
<1>16. WindowsAre(a, U)'
  BY <1>3, <1>9, <1>10, <1>11, <1>12, <1>13, <1>15 DEF WindowsAre, h
<1>17. QED  BY <1>16 DEF h

LEMMA CountAttemptKeeps ==
  ASSUME GateInv, NEW a \in Addresses, now' = now,
         NEW S \in SUBSET DOMAIN guesses[a], WindowsAre(a, S), CountAttempt(a)
  PROVE  \E T \in SUBSET DOMAIN guesses'[a] : WindowsAre(a, T)'
<1> DEFINE g == guesses[a]
           h == guesses'[a]
           n == Len(guesses[a]) + 1
           r == [attempts[a] EXCEPT !.count = @ + 1]
<1>1. /\ now \in Nat /\ AttemptWindow \in Nat
      /\ MaxAttempts \in Nat /\ MaxAttempts > 0
      /\ n \in Nat /\ DOMAIN g = 1..(n - 1) /\ n > 0
      /\ \A i \in 1..(n - 1) : g[i] \in Nat
      /\ attempts[a].resetAt \in Nat /\ attempts[a].count \in Nat
  BY GateFacts, GateAssumption
<1>2. /\ attempts'[a] = r /\ Len(h) = n /\ DOMAIN h = 1..n /\ h[n] = now
      /\ \A i \in 1..(n - 1) : h[i] = g[i]
  BY GuessAppended, GateFacts DEF CountAttempt
<1>3. /\ Known(a) /\ ~attempts[a].locked
      /\ attempts[a].count \in 1..(MaxAttempts - 1)
      /\ n - attempts[a].count \in S
  <2>1. Known(a) /\ attempts[a].count < MaxAttempts
    BY DEF CountAttempt
  <2>2. ~attempts[a].locked
    BY <1>1, <2>1 DEF WindowsAre
  <2>3. attempts[a].count \in 1..MaxAttempts /\ Len(g) - attempts[a].count + 1 \in S
    BY <2>1, <2>2 DEF WindowsAre
  <2>4. Len(g) - attempts[a].count + 1 = n - attempts[a].count
    <3>1. /\ Len(guesses[a]) \in Nat /\ attempts[a].count \in Nat
      BY GateFacts
    <3>2. QED  BY <3>1
  <2>5. QED  BY <1>1, <2>1, <2>2, <2>3, <2>4
<1>4. /\ attempts'[a].count = attempts[a].count + 1
      /\ attempts'[a].resetAt = attempts[a].resetAt
      /\ ~attempts'[a].locked /\ Known(a)'
  <2>1. attempts[a] \in Records
    BY GateFacts
  <2>2. /\ attempts'[a].count = attempts[a].count + 1
        /\ attempts'[a].resetAt = attempts[a].resetAt
        /\ attempts'[a].locked = attempts[a].locked
    BY <1>2, <2>1 DEF Records
  <2>3. QED  BY <1>1, <1>3, <2>2 DEF Known, NoRecord
<1>5. \A s \in S : s \in 1..(n - 1) /\ g[s] + AttemptWindow <= attempts[a].resetAt
  BY <1>1, <1>3 DEF WindowsAre
<1>6. \A i, j \in 1..(n - 1) : i <= j => g[i] <= g[j]
  BY <1>1 DEF WindowsAre
<1>7. \A i \in 1..(n - 1) : g[i] <= now
  BY <1>1 DEF WindowsAre
<1>8. \A i \in 1..(n - 1) : \E s \in S : i - MaxAttempts < s /\ s <= i
  BY <1>1 DEF WindowsAre
<1>9. \A s, t \in S : s < t => g[t] > g[s] + AttemptWindow
  BY <1>1 DEF WindowsAre
<1> HIDE DEF g, h, n, r
<1>10. /\ \A i, j \in DOMAIN h : i <= j => h[i] <= h[j]
       /\ \A i \in DOMAIN h : h[i] <= now'
  BY <1>1, <1>2, <1>6, <1>7
<1>11. \A i \in DOMAIN h : \E s \in S : i - MaxAttempts < s /\ s <= i
  <2> DEFINE c == attempts[a].count
  <2>1. c \in 1..(MaxAttempts - 1) /\ n - c \in S
    BY <1>3
  <2> HIDE DEF c
  <2>2. n - MaxAttempts < n - c /\ n - c <= n /\ n - c \in Int
    BY <1>1, <2>1
  <2>3. ASSUME NEW i \in DOMAIN h PROVE \E s \in S : i - MaxAttempts < s /\ s <= i
    <3>1. CASE i = n
      BY <2>1, <2>2, <3>1
    <3>2. CASE i # n
      BY <1>1, <1>2, <1>8, <3>2
    <3>3. QED  BY <3>1, <3>2
  <2>4. QED  BY <2>3
<1>12. \A s, t \in S : s < t => h[t] > h[s] + AttemptWindow
  BY <1>1, <1>2, <1>5, <1>9
<1>13. \A s \in S : h[s] + AttemptWindow <= attempts'[a].resetAt
  BY <1>1, <1>2, <1>4, <1>5
<1>14. /\ Len(h) - attempts'[a].count + 1 \in S
       /\ attempts'[a].count \in 1..MaxAttempts
  <2> DEFINE c == attempts[a].count
             d == attempts'[a].count
  <2>1. d = c + 1 /\ c \in 1..(MaxAttempts - 1) /\ n - c \in S /\ Len(h) = n
    BY <1>2, <1>3, <1>4
  <2>2. n \in Nat /\ MaxAttempts \in Nat
    BY <1>1
  <2> HIDE DEF c, d
  <2>3. n - d + 1 = n - c /\ d \in 1..MaxAttempts
    BY <2>1, <2>2
  <2>4. QED  BY <2>1, <2>3 DEF d
<1>15. S \in SUBSET DOMAIN h
  BY <1>1, <1>2, <1>5
<1>16. WindowsAre(a, S)'
  BY <1>4, <1>10, <1>11, <1>12, <1>13, <1>14 DEF WindowsAre, h
<1>17. QED  BY <1>15, <1>16 DEF h

\* The other actions that keep the guesses of a: what they may do to its record.
LEMMA RecordKeeps ==
  ASSUME GateInv, NEW a \in Addresses, now' \in Nat, now <= now',
         guesses'[a] = guesses[a],
         \/ attempts'[a] = attempts[a]
         \/ attempts'[a] = NoRecord /\ Passed(a)
         \/ /\ attempts'[a].locked /\ attempts'[a].count = MaxAttempts + 1
            /\ attempts'[a].resetAt = now + Lockout,
         NEW S \in SUBSET DOMAIN guesses[a], WindowsAre(a, S)
  PROVE  \E T \in SUBSET DOMAIN guesses'[a] : WindowsAre(a, T)'
<1> DEFINE g == guesses[a]
<1>1. /\ now \in Nat /\ AttemptWindow \in Nat /\ Lockout \in Nat
      /\ AttemptWindow <= Lockout /\ MaxAttempts \in Nat
      /\ attempts[a].resetAt \in Nat
      /\ S \subseteq DOMAIN g /\ \A i \in DOMAIN g : g[i] \in Nat
  BY GateFacts, GateAssumption, LockoutIsLonger
<1>2. /\ \A i \in DOMAIN g : g[i] <= now
      /\ \A s \in S : IF Known(a) THEN g[s] + AttemptWindow <= attempts[a].resetAt
                                  ELSE g[s] + AttemptWindow < now
  BY DEF WindowsAre
<1>3. \A i \in DOMAIN g : g[i] <= now'
  BY <1>1, <1>2
<1>4. \A s \in S : IF Known(a)' THEN g[s] + AttemptWindow <= attempts'[a].resetAt
                                ELSE g[s] + AttemptWindow < now'
  <2>1. CASE attempts'[a] = attempts[a]
    <3>1. Known(a)' <=> Known(a)
      BY <2>1 DEF Known, NoRecord
    <3>2. QED  BY <1>1, <1>2, <2>1, <3>1
  <2>2. CASE attempts'[a] = NoRecord /\ Passed(a)
    <3>1. ~Known(a)' /\ now > attempts[a].resetAt
      BY <2>2 DEF Known, Passed, NoRecord
    <3>2. QED  BY <1>1, <1>2, <3>1
  <2>3. CASE /\ attempts'[a].locked /\ attempts'[a].count = MaxAttempts + 1
             /\ attempts'[a].resetAt = now + Lockout
    <3>1. Known(a)'
      BY <1>1, <2>3 DEF Known, NoRecord
    <3>2. QED  BY <1>1, <1>2, <2>3, <3>1
  <2>4. QED  BY <2>1, <2>2, <2>3
<1>5. /\ Known(a)' /\ ~attempts'[a].locked =>
           /\ attempts'[a].count \in 1..MaxAttempts
           /\ Len(g) - attempts'[a].count + 1 \in S
      /\ attempts'[a].locked => attempts'[a].count = MaxAttempts + 1
  BY DEF WindowsAre, Known, NoRecord
<1>6. WindowsAre(a, S)'
  BY <1>3, <1>4, <1>5 DEF WindowsAre
<1>7. QED  BY <1>6

LEMMA GuessKeeps == GuessInv /\ [GateNext]_gateVars => GuessInv'
<1> SUFFICES ASSUME GuessInv, [GateNext]_gateVars PROVE GuessInv'
  OBVIOUS
<1>1. GateInv /\ GateInv'
  BY GateKeeps DEF GuessInv
<1>2. now \in Nat /\ now' \in Nat
  BY <1>1 DEF GateInv, GateTypeOK, Times
<1> SUFFICES ASSUME NEW a \in Addresses
             PROVE  \E T \in SUBSET DOMAIN guesses'[a] : WindowsAre(a, T)'
  BY <1>1 DEF GuessInv
<1>3. PICK S \in SUBSET DOMAIN guesses[a] : WindowsAre(a, S)
  BY DEF GuessInv
<1>4. CASE now' = now /\ NewWindow(a)
  BY <1>1, <1>3, <1>4, NewWindowKeeps
<1>5. CASE now' = now /\ CountAttempt(a)
  BY <1>1, <1>3, <1>5, CountAttemptKeeps
<1>6. CASE now' = now /\ ResetGate(a)
  <2>1. guesses'[a] = <<>> /\ attempts'[a] = NoRecord
    BY <1>1, <1>6 DEF ResetGate, GateInv, GateTypeOK
  <2>2. DOMAIN guesses'[a] = {} /\ ~attempts'[a].locked /\ ~Known(a)'
    BY <2>1 DEF Known, NoRecord
  <2>3. WindowsAre(a, {})'
    BY <2>2 DEF WindowsAre
  <2>4. QED  BY <2>3
<1> DEFINE Quiet ==
      /\ now <= now' /\ guesses'[a] = guesses[a]
      /\ \/ attempts'[a] = attempts[a]
         \/ attempts'[a] = NoRecord /\ Passed(a)
         \/ /\ attempts'[a].locked /\ attempts'[a].count = MaxAttempts + 1
            /\ attempts'[a].resetAt = now + Lockout
<1>7. CASE Quiet
  BY <1>1, <1>2, <1>3, <1>7, RecordKeeps
<1>8. ASSUME NEW b \in Addresses, Login(b)
      PROVE  \/ now' = now /\ (NewWindow(a) \/ CountAttempt(a))
             \/ Quiet
  <2>1. now' = now
    BY <1>8 DEF Login
  <2>2. CASE NewWindow(b) \/ CountAttempt(b)
    <3>1. b # a => attempts'[a] = attempts[a] /\ guesses'[a] = guesses[a]
      BY <1>1, <2>2 DEF NewWindow, CountAttempt, LetThrough, GateInv, GateTypeOK
    <3>2. QED  BY <1>2, <2>1, <2>2, <3>1
  <2>3. CASE LockOut(b)
    <3>1. /\ guesses' = guesses
          /\ attempts'[a] = IF a = b THEN [count |-> MaxAttempts + 1,
                                           resetAt |-> now + Lockout, locked |-> TRUE]
                                     ELSE attempts[a]
      BY <1>1, <2>3 DEF LockOut, GateInv, GateTypeOK
    <3>2. QED  BY <1>2, <2>1, <3>1
  <2>4. CASE TurnAway(b)
    BY <1>2, <2>1, <2>4 DEF TurnAway, gateVars
  <2>5. QED  BY <1>8, <2>2, <2>3, <2>4 DEF Login
<1>9. ASSUME NEW b \in Addresses, WrongPassword(b)
      PROVE  Quiet
  BY <1>2, <1>9 DEF WrongPassword
<1>10. ASSUME NEW b \in Addresses, RightPassword(b) \/ Registered(b)
       PROVE  (now' = now /\ ResetGate(a)) \/ Quiet
  <2>1. now' = now /\ ResetGate(b)
    BY <1>10 DEF RightPassword, Registered
  <2>2. b # a => attempts'[a] = attempts[a] /\ guesses'[a] = guesses[a]
    BY <1>1, <2>1 DEF ResetGate, GateInv, GateTypeOK
  <2>3. QED  BY <1>2, <2>1, <2>2
<1>11. ASSUME SweepAttempts PROVE Quiet
  BY <1>2, <1>11 DEF SweepAttempts
<1>12. ASSUME GateTick PROVE Quiet
  BY <1>2, <1>12 DEF GateTick, Tick
<1>13. ASSUME UNCHANGED gateVars PROVE Quiet
  BY <1>2, <1>13 DEF gateVars
<1> HIDE DEF Quiet
<1>14. QED
  BY <1>4, <1>5, <1>6, <1>7, <1>8, <1>9, <1>10, <1>11, <1>12, <1>13
     DEF GateNext, GateStep

\* Two windows lie between a guess and the one 2 * MaxAttempts before it.
LEMMA WindowsBoundGuesses ==
  ASSUME GateInv, NEW a \in Addresses,
         NEW S \in SUBSET DOMAIN guesses[a], WindowsAre(a, S),
         NEW i \in DOMAIN guesses[a], i > 2 * MaxAttempts
  PROVE  guesses[a][i] - guesses[a][i - 2 * MaxAttempts] > AttemptWindow
<1> DEFINE g == guesses[a]
           n == Len(guesses[a])
           k == i - 2 * MaxAttempts
<1>1. /\ AttemptWindow \in Nat /\ MaxAttempts \in Nat /\ MaxAttempts > 0
      /\ n \in Nat /\ DOMAIN g = 1..n /\ \A j \in 1..n : g[j] \in Nat
  BY GateFacts, GateAssumption
<1>2. i \in 1..n /\ k \in 1..n
  BY <1>1
<1>3. PICK s \in S : i - MaxAttempts < s /\ s <= i
  BY DEF WindowsAre
<1>4. s \in 1..n /\ s - 1 \in 1..n
  BY <1>1, <1>2, <1>3
<1>5. PICK t \in S : (s - 1) - MaxAttempts < t /\ t <= s - 1
  BY <1>1, <1>4 DEF WindowsAre
<1>6. t \in 1..n /\ t < s /\ k <= t
  BY <1>1, <1>2, <1>3, <1>4, <1>5
<1>7. g[s] > g[t] + AttemptWindow
  BY <1>6 DEF WindowsAre
<1>8. g[s] <= g[i] /\ g[k] <= g[t]
  BY <1>1, <1>2, <1>3, <1>4, <1>6 DEF WindowsAre
<1>9. g[i] \in Nat /\ g[k] \in Nat /\ g[s] \in Nat /\ g[t] \in Nat
  BY <1>1, <1>2, <1>4, <1>6
<1> HIDE DEF g
<1>10. g[i] - g[k] > AttemptWindow
  BY <1>1, <1>7, <1>8, <1>9
<1>11. QED  BY <1>10 DEF g

\* However its windows touch, and whatever the lockouts and the clean-up do to
\* its record, an address has at most 2 * MaxAttempts guesses within a stretch
\* of AttemptWindow, provided that a lockout is no shorter than a window
\* (security.ts:153-219).
THEOREM GuessesStayBounded == GateSpec => []GuessesBounded
<1>1. GuessInv => GuessesBounded
  BY WindowsBoundGuesses DEF GuessInv, GuessesBounded
<1>2. QED
  BY GuessStarts, GuessKeeps, <1>1, PTL DEF GateSpec

-----------------------------------------------------------------------------
(* The message limiter *)

LimiterInv == LimiterTypeOK /\ NothingValidForgotten /\ WindowRespected

LEMMA EntriesFinite == IsFiniteSet(Entries)
<1> DEFINE P == (0..MaxChecks) \X Times
           f == [p \in P |-> Entry(p[1], p[2])]
<1>1. IsFiniteSet(0..MaxChecks) /\ IsFiniteSet(Times)
  BY FS_Interval, LimiterAssumption, MaxTimeAssumption DEF Times
<1>2. IsFiniteSet(P)
  BY <1>1, FS_Product
<1>3. f \in [P -> Entries]
  BY DEF Entry, Entries
<1>4. ASSUME NEW e \in Entries
      PROVE  \E p \in P : f[p] = e
  <2>1. <<e.call, e.at>> \in P
    BY DEF Entries
  <2>2. e = Entry(e.call, e.at)
    BY DEF Entry, Entries
  <2>3. f[<<e.call, e.at>>] = e
    BY <2>1, <2>2
  <2>4. QED  BY <2>1, <2>3
<1>5. f \in Surjection(P, Entries)
  BY <1>3, <1>4 DEF Surjection
<1>6. QED  BY <1>2, <1>5, FS_Surjection

LEMMA ValidFinite ==
  ASSUME NEW S \in SUBSET Entries, NEW t
  PROVE  IsFiniteSet(Valid(S, t)) /\ Cardinality(Valid(S, t)) \in Nat
<1>1. Valid(S, t) \subseteq Entries
  BY DEF Valid
<1>2. QED  BY <1>1, EntriesFinite, FS_Subset, FS_CardinalityType

\* A cleanup forgets nothing that is still in the window.
LEMMA ForgetKeepsValid ==
  ASSUME NEW m \in [Keys -> SUBSET Entries], NEW t \in Times
  PROVE  /\ Forget(m, t) \in [Keys -> SUBSET Entries]
         /\ \A k \in Keys : Valid(Forget(m, t)[k], t) = Valid(m[k], t)
<1>1. Forget(m, t) \in [Keys -> SUBSET Entries]
  BY DEF Forget
<1>2. ASSUME NEW k \in Keys
      PROVE  Valid(Forget(m, t)[k], t) = Valid(m[k], t)
  <2>1. CASE Expired(m[k], t)
    <3>1. \A e \in m[k] : e.at \in Nat /\ t - e.at > Window
      BY <2>1 DEF Expired, Entries, Times
    <3>2. Valid(m[k], t) = {}
      BY <3>1, LimiterAssumption, MaxTimeAssumption DEF Valid, Times
    <3>3. Forget(m, t)[k] = {}
      BY <2>1 DEF Forget
    <3>4. QED  BY <3>2, <3>3 DEF Valid
  <2>2. CASE ~Expired(m[k], t)
    BY <2>2 DEF Forget
  <2>3. QED  BY <2>1, <2>2
<1>3. QED  BY <1>1, <1>2

LEMMA SweptKeepsValid ==
  ASSUME LimiterInv
  PROVE  /\ Swept \in [Keys -> SUBSET Entries]
         /\ \A k \in Keys : Valid(Swept[k], now) = Valid(accepted[k], now)
<1>1. now \in Times /\ requests \in [Keys -> SUBSET Entries]
  BY DEF LimiterInv, LimiterTypeOK
<1>2. /\ Swept \in [Keys -> SUBSET Entries]
      /\ \A k \in Keys : Valid(Swept[k], now) = Valid(requests[k], now)
  BY <1>1, ForgetKeepsValid DEF Swept
<1>3. QED  BY <1>2 DEF LimiterInv, NothingValidForgotten

LEMMA LimiterStarts == LimiterInit => LimiterInv
<1> SUFFICES ASSUME LimiterInit PROVE LimiterInv
  OBVIOUS
<1>1. LimiterTypeOK
  <2>1. verdict \in [key : Keys, ok : BOOLEAN]
    <3>1. PICK k \in Keys : verdict = Verdict(k, FALSE)
      BY DEF LimiterInit
    <3>2. QED  BY <3>1 DEF Verdict
  <2>2. QED
    BY <2>1, LimiterAssumption, MaxTimeAssumption
    DEF LimiterInit, ClockInit, LimiterTypeOK, Times
<1>2. \A k \in Keys : Valid(requests[k], now) = {} /\ Valid(accepted[k], now) = {}
  BY DEF LimiterInit, Valid
<1>3. Cardinality({}) = 0
  BY FS_EmptySet
<1>4. NothingValidForgotten
  BY <1>2 DEF NothingValidForgotten
<1>5. 0 <= MaxRequests
  BY LimiterAssumption
<1>6. WindowRespected
  BY <1>2, <1>3, <1>5 DEF WindowRespected
<1>7. QED  BY <1>1, <1>4, <1>6 DEF LimiterInv

\* Dropping what is not valid leaves what is.
LEMMA ValidOfValid ==
  ASSUME NEW S, NEW t
  PROVE  Valid(Valid(S, t), t) = Valid(S, t)
BY DEF Valid

LEMMA RefuseKeeps ==
  ASSUME LimiterInv, NEW k \in Keys, Check(k), Refuse(k)
  PROVE  /\ LimiterInv'
         /\ verdict' = Verdict(k, FALSE)
         /\ ~(Cardinality(Valid(accepted[k], now)) < MaxRequests)
<1>1. /\ Swept \in [Keys -> SUBSET Entries]
      /\ \A j \in Keys : Valid(Swept[j], now) = Valid(accepted[j], now)
  BY SweptKeepsValid
<1>2. Valid(Swept[k], now) \subseteq Entries
  BY <1>1 DEF Valid
<1>3. requests' = [Swept EXCEPT ![k] = Valid(Swept[k], now)]
  BY DEF Refuse
<1>4. now' = now /\ accepted' = accepted /\ checks' = checks + 1
  BY DEF Check, Refuse
<1>5. lastCleanup' \in 0..now' /\ checks' \in 0..MaxChecks
  BY LimiterAssumption, MaxTimeAssumption DEF Check, LimiterInv, LimiterTypeOK, Times
<1>6. verdict' = Verdict(k, FALSE)
  BY DEF Refuse
<1>7. verdict' \in [key : Keys, ok : BOOLEAN]
  BY <1>6 DEF Verdict
<1>8. requests' \in [Keys -> SUBSET Entries]
  BY <1>1, <1>2, <1>3
<1>9. LimiterTypeOK'
  BY <1>4, <1>5, <1>7, <1>8 DEF LimiterInv, LimiterTypeOK
<1>10. \A j \in Keys : Valid(requests'[j], now) = Valid(accepted[j], now)
  BY <1>1, <1>3, ValidOfValid
<1>11. NothingValidForgotten' /\ WindowRespected'
  BY <1>4, <1>10 DEF LimiterInv, NothingValidForgotten, WindowRespected
<1>12. Cardinality(Valid(accepted[k], now)) \in Nat
  BY ValidFinite DEF LimiterInv, LimiterTypeOK
<1>13. ~(Cardinality(Valid(accepted[k], now)) < MaxRequests)
  BY <1>1, <1>12, LimiterAssumption DEF Refuse
<1>14. QED  BY <1>6, <1>9, <1>11, <1>13 DEF LimiterInv

LEMMA LetInKeeps ==
  ASSUME LimiterInv, NEW k \in Keys, Check(k), LetIn(k)
  PROVE  /\ LimiterInv'
         /\ verdict' = Verdict(k, TRUE)
         /\ Cardinality(Valid(accepted[k], now)) < MaxRequests
<1> DEFINE e == Entry(checks, now)
           V == Valid(Swept[k], now)
           m == [Swept EXCEPT ![k] = V \union {e}]
<1>1. /\ Swept \in [Keys -> SUBSET Entries]
      /\ \A j \in Keys : Valid(Swept[j], now) = Valid(accepted[j], now)
  BY SweptKeepsValid
<1>2. now \in Times /\ accepted \in [Keys -> SUBSET Entries] /\ checks \in 0..MaxChecks
  BY DEF LimiterInv, LimiterTypeOK
<1>3. e \in Entries
  BY <1>2 DEF Entry, Entries
<1>4. V \subseteq Entries
  BY <1>1 DEF Valid
<1>5. m \in [Keys -> SUBSET Entries]
  BY <1>1, <1>3, <1>4
<1>6. /\ Cardinality(V) < MaxRequests
      /\ requests' \in {m, Forget(m, now)}
      /\ verdict' = Verdict(k, TRUE)
      /\ accepted' = [accepted EXCEPT ![k] = @ \union {e}]
      /\ now' = now /\ checks' = checks + 1
  BY DEF LetIn, Check
<1>7. lastCleanup' \in 0..now' /\ checks' \in 0..MaxChecks
  BY LimiterAssumption, MaxTimeAssumption DEF Check, LimiterInv, LimiterTypeOK, Times
<1>8. verdict' \in [key : Keys, ok : BOOLEAN]
  BY <1>6 DEF Verdict
<1>9. /\ requests' \in [Keys -> SUBSET Entries]
      /\ \A j \in Keys : Valid(requests'[j], now) = Valid(m[j], now)
  <2> HIDE DEF m
  <2>1. /\ Forget(m, now) \in [Keys -> SUBSET Entries]
        /\ \A j \in Keys : Valid(Forget(m, now)[j], now) = Valid(m[j], now)
    BY <1>2, <1>5, ForgetKeepsValid
  <2>2. CASE requests' = m
    BY <1>5, <2>2
  <2>3. CASE requests' = Forget(m, now)
    BY <2>1, <2>3
  <2>4. QED  BY <1>6, <2>2, <2>3
<1>10. accepted' \in [Keys -> SUBSET Entries]
  BY <1>2, <1>3, <1>6
<1>11. LimiterTypeOK'
  BY <1>2, <1>6, <1>7, <1>8, <1>9, <1>10 DEF LimiterTypeOK
<1>12. /\ Valid(m[k], now) = V \union {e}
       /\ Valid(accepted'[k], now) = V \union {e}
  <2>1. m[k] = V \union {e}
    BY <1>1
  <2>0. \A T : Valid(T \union {e}, now) = Valid(T, now) \union {e}
    <3>1. e.at = now /\ now - now < Window
      BY <1>2, LimiterAssumption, MaxTimeAssumption DEF Entry, Times
    <3> HIDE DEF e
    <3>2. QED  BY <3>1 DEF Valid
  <2>2. Valid(V \union {e}, now) = V \union {e}
    BY <2>0, ValidOfValid
  <2>3. accepted'[k] = accepted[k] \union {e}
    BY <1>2, <1>6
  <2>4. Valid(accepted[k] \union {e}, now) = Valid(accepted[k], now) \union {e}
    BY <2>0
  <2>5. QED  BY <1>1, <2>1, <2>2, <2>3, <2>4
<1>13. \A j \in Keys : j # k => /\ Valid(m[j], now) = Valid(accepted[j], now)
                                /\ accepted'[j] = accepted[j]
  BY <1>1, <1>2, <1>6
<1>14. NothingValidForgotten'
  BY <1>6, <1>9, <1>12, <1>13 DEF NothingValidForgotten
<1>15. Cardinality(V \union {e}) <= MaxRequests
  <2>1. IsFiniteSet(V) /\ Cardinality(V) \in Nat
    BY <1>1, ValidFinite
  <2>2. Cardinality(V \union {e}) \in {Cardinality(V), Cardinality(V) + 1}
    <3> HIDE DEF V, e
    <3>1. Cardinality(V \union {e})
            = IF e \in V THEN Cardinality(V) ELSE Cardinality(V) + 1
      BY <2>1, FS_AddElement
    <3>2. QED  BY <3>1, Zenon
  <2>3. IsFiniteSet(V \union {e}) /\ Cardinality(V \union {e}) \in Nat
    BY <2>1, FS_AddElement, FS_CardinalityType
  <2>4. QED  BY <1>6, <2>1, <2>2, <2>3, LimiterAssumption
<1>16. WindowRespected'
  BY <1>6, <1>12, <1>13, <1>15 DEF LimiterInv, WindowRespected
<1>17. QED  BY <1>1, <1>6, <1>11, <1>14, <1>16 DEF LimiterInv

LEMMA LimiterTickKeeps ==
  ASSUME LimiterInv, LimiterTick
  PROVE  LimiterInv'
<1>1. /\ now \in Nat /\ now' = now + 1 /\ now' \in Times
      /\ requests' = requests /\ accepted' = accepted
  BY MaxTimeAssumption DEF LimiterTick, Tick, LimiterInv, LimiterTypeOK, Times
<1>2. lastCleanup' \in 0..now'
  BY <1>1 DEF LimiterTick, LimiterInv, LimiterTypeOK
<1>3. LimiterTypeOK'
  BY <1>1, <1>2 DEF LimiterTick, LimiterInv, LimiterTypeOK
<1>4. ASSUME NEW S \in SUBSET Entries
      PROVE  Valid(S, now') = {e \in Valid(S, now) : now' - e.at < Window}
  BY <1>1, LimiterAssumption DEF Valid, Entries, Times
<1>5. NothingValidForgotten'
  BY <1>1, <1>4 DEF LimiterInv, LimiterTypeOK, NothingValidForgotten
<1>6. ASSUME NEW k \in Keys
      PROVE  Cardinality(Valid(accepted[k], now')) <= MaxRequests
  <2>1. accepted[k] \in SUBSET Entries
    BY DEF LimiterInv, LimiterTypeOK
  <2>2. Valid(accepted[k], now') \subseteq Valid(accepted[k], now)
    BY <1>4, <2>1
  <2>3. Cardinality(Valid(accepted[k], now')) <= Cardinality(Valid(accepted[k], now))
    BY <2>1, <2>2, ValidFinite, FS_Subset
  <2>4. /\ Cardinality(Valid(accepted[k], now')) \in Nat
        /\ Cardinality(Valid(accepted[k], now)) \in Nat
    BY <2>1, ValidFinite
  <2>5. Cardinality(Valid(accepted[k], now)) <= MaxRequests
    BY DEF LimiterInv, WindowRespected
  <2>6. QED  BY <2>3, <2>4, <2>5, LimiterAssumption
<1>7. WindowRespected'
  BY <1>1, <1>6 DEF WindowRespected
<1>8. QED  BY <1>3, <1>5, <1>7 DEF LimiterInv

LEMMA LimiterKeeps ==
  LimiterInv /\ [LimiterNext]_limiterVars =>
    /\ LimiterInv'
    /\ \A k \in Keys :
         checks' # checks /\ verdict'.key = k =>
           (verdict'.ok <=> Cardinality(Valid(accepted[k], now)) < MaxRequests)
<1> SUFFICES ASSUME LimiterInv, [LimiterNext]_limiterVars
             PROVE  /\ LimiterInv'
                    /\ \A k \in Keys :
                         checks' # checks /\ verdict'.key = k =>
                           (verdict'.ok
                              <=> Cardinality(Valid(accepted[k], now)) < MaxRequests)
  OBVIOUS
<1>1. ASSUME NEW k \in Keys, Check(k)
      PROVE  /\ LimiterInv'
             /\ verdict'.key = k
             /\ verdict'.ok <=> Cardinality(Valid(accepted[k], now)) < MaxRequests
  <2>1. CASE Refuse(k)
    BY <1>1, <2>1, RefuseKeeps DEF Verdict
  <2>2. CASE LetIn(k)
    BY <1>1, <2>2, LetInKeeps DEF Verdict
  <2>3. QED  BY <1>1, <2>1, <2>2 DEF Check
<1>2. CASE LimiterTick
  BY <1>2, LimiterTickKeeps DEF LimiterTick
<1>3. CASE UNCHANGED limiterVars
  BY <1>3 DEF limiterVars, LimiterInv, LimiterTypeOK, NothingValidForgotten,
              WindowRespected
<1>4. QED  BY <1>1, <1>2, <1>3 DEF LimiterNext, LimiterStep

\* The limiter keeps its types and never lets more than MaxRequests calls of a
\* key into a window, for any window, limit and intervals of the cleanups.
THEOREM WindowAlwaysRespected ==
  LimiterSpec => [](LimiterTypeOK /\ WindowRespected)
<1>1. LimiterInv => LimiterTypeOK /\ WindowRespected
  BY DEF LimiterInv
<1>2. LimiterInv /\ [LimiterNext]_limiterVars => LimiterInv'
  BY LimiterKeeps
<1>3. QED  BY LimiterStarts, <1>1, <1>2, PTL DEF LimiterSpec

\* It decides as a limiter that forgets nothing would (RateLimiter.ts:19-65).
THEOREM LimiterIsExact == LimiterSpec => AcceptsExactly
<1>1. LimiterInv /\ [LimiterNext]_limiterVars => LimiterInv'
  BY LimiterKeeps
<1>2. LimiterInv /\ [LimiterNext]_limiterVars
        => [\A k \in Keys :
              checks' # checks /\ verdict'.key = k =>
                (verdict'.ok
                   <=> Cardinality(Valid(accepted[k], now)) < MaxRequests)]_limiterVars
  BY LimiterKeeps
<1>3. QED  BY LimiterStarts, <1>1, <1>2, PTL DEF LimiterSpec, AcceptsExactly

-----------------------------------------------------------------------------
(* The price passes *)

\* The time of the first i providers of a pass.
TimeOf(i) == i * ProviderTime

\* What a pass has used up at t: by the attempt it makes, it has left the
\* providers before this one, and the attempt before this one, behind.
SpentWell(p) ==
  LET spent == p.since - p.began IN
  CASE p.doing = "asking" /\ p.attempt = 1 -> spent <= TimeOf(p.provider - 1)
    [] p.doing = "asking" /\ p.attempt = 2 ->
         spent <= TimeOf(p.provider - 1) + RequestTimeout + RetryDelay
    [] p.doing = "waiting" ->
         /\ p.attempt = 1
         /\ spent <= TimeOf(p.provider - 1) + RequestTimeout
    [] p.doing = "storing" ->
         /\ spent <= TimeOf(p.provider)
         /\ p.since - p.quote <= RequestTimeout

PassRecords ==
  [number : Nat, began : Nat, doing : {"asking", "waiting", "storing"},
   provider : 1..ProviderCount, attempt : {1, 2}, since : Nat, quote : Nat]

PassOK(p, t) ==
  /\ p \in PassRecords
  /\ p.since <= t /\ t <= Deadline(p)
  /\ SpentWell(p)

PollsInv ==
  /\ now \in Nat
  /\ begun \in Nat
  /\ \A p \in passes : PassOK(p, now)

\* The product is linear in its first factor.
LEMMA TimeOfMore ==
  /\ ProviderTime \in Nat
  /\ ProviderTime = RequestTimeout + RetryDelay + RequestTimeout
  /\ TimeOf(0) = 0
  /\ \A i \in 1..ProviderCount :
       /\ TimeOf(i) \in Nat /\ TimeOf(i - 1) \in Nat
       /\ TimeOf(i) = TimeOf(i - 1) + ProviderTime
<1>1. ProviderTime \in Nat /\ ProviderTime = RequestTimeout + RetryDelay + RequestTimeout
  BY PollsAssumption DEF ProviderTime
<1>2. \A i, n \in Nat : i * n \in Nat /\ (i + 1) * n = i * n + n /\ 0 * n = 0
  OBVIOUS
<1>3. \A i \in 1..ProviderCount : i - 1 \in Nat /\ i \in Nat /\ (i - 1) + 1 = i
  BY PollsAssumption
<1>4. TimeOf(0) = 0
  BY <1>1, <1>2 DEF TimeOf
<1>5. ASSUME NEW i \in 1..ProviderCount
      PROVE  /\ TimeOf(i) \in Nat /\ TimeOf(i - 1) \in Nat
             /\ TimeOf(i) = TimeOf(i - 1) + ProviderTime
  <2>1. ((i - 1) + 1) * ProviderTime = (i - 1) * ProviderTime + ProviderTime
    BY <1>1, <1>2, <1>3
  <2>2. (i - 1) * ProviderTime \in Nat /\ i * ProviderTime \in Nat
    BY <1>1, <1>2, <1>3
  <2>3. QED  BY <1>3, <2>1, <2>2 DEF TimeOf
<1>6. QED  BY <1>1, <1>4, <1>5

\* Passes that are replaced by passes in time leave the others as they were.
LEMMA BecomesKeeps ==
  ASSUME PollsInv, NEW p \in passes, NEW S, Becomes(p, S),
         \A q \in S : PassOK(q, now), now' = now, begun' = begun
  PROVE  PollsInv'
BY DEF Becomes, PollsInv

LEMMA BeginsKeeps ==
  ASSUME PollsInv, Begins, now' = now
  PROVE  PollsInv'
<1>1. Fresh \in PassRecords
  BY PollsAssumption DEF Fresh, Pass, PassRecords, PollsInv
<1>2. now <= Deadline(Fresh) /\ Fresh.since <= now
  BY PollsAssumption DEF Fresh, Pass, Deadline, PollsInv
<1>3. SpentWell(Fresh)
  BY TimeOfMore DEF Fresh, Pass, SpentWell, PollsInv
<1>4. QED  BY <1>1, <1>2, <1>3 DEF PassOK, Begins, PollsInv

LEMMA AskingKeeps ==
  ASSUME PollsInv, NEW p \in passes, NEW i \in 1..ProviderCount, NEW a \in {1, 2},
         now - p.began <= TimeOf(i - 1)
                            + (IF a = 1 THEN 0 ELSE RequestTimeout + RetryDelay)
  PROVE  PassOK(Asking(p, i, a), now)
<1>1. p \in PassRecords /\ now \in Nat
  BY DEF PollsInv, PassOK
<1>2. Asking(p, i, a) \in PassRecords
  BY <1>1 DEF Asking, Pass, PassRecords
<1>3. now <= Deadline(Asking(p, i, a)) /\ Asking(p, i, a).since <= now
  BY <1>1, PollsAssumption DEF Asking, Pass, Deadline
<1>4. TimeOf(i - 1) \in Nat /\ p.began \in Nat
  BY <1>1, TimeOfMore DEF PassRecords
<1>5. SpentWell(Asking(p, i, a))
  <2> DEFINE q == Asking(p, i, a)
  <2>1. /\ q.doing = "asking" /\ q.attempt = a /\ q.provider = i
        /\ q.since = now /\ q.began = p.began
    BY DEF Asking, Pass
  <2> HIDE DEF q
  <2>2. a = 1 => now - p.began <= TimeOf(i - 1)
    BY <1>1, <1>4
  <2>3. a = 2 => now - p.began <= TimeOf(i - 1) + RequestTimeout + RetryDelay
    BY <1>1, <1>4, PollsAssumption
  <2>4. SpentWell(q)
    BY <2>1, <2>2, <2>3 DEF SpentWell
  <2>5. QED  BY <2>4 DEF q
<1>6. QED  BY <1>2, <1>3, <1>5 DEF PassOK

\* A pass that asks has not used up the time of its provider, nor, at its
\* first attempt, that of one request.
LEMMA AskingHasTime ==
  ASSUME PollsInv, NEW p \in passes, p.doing = "asking"
  PROVE  /\ now - p.began <= TimeOf(p.provider)
         /\ p.attempt = 1 => now - p.began <= TimeOf(p.provider - 1) + RequestTimeout
<1>1. /\ p \in PassRecords /\ now \in Nat /\ now <= p.since + RequestTimeout
      /\ SpentWell(p)
  BY DEF PollsInv, PassOK, Deadline
<1>2. /\ p.since \in Nat /\ p.began \in Nat /\ p.attempt \in {1, 2}
      /\ p.provider \in 1..ProviderCount
  BY <1>1 DEF PassRecords
<1>3. /\ TimeOf(p.provider - 1) \in Nat
      /\ TimeOf(p.provider) = TimeOf(p.provider - 1)
                                + (RequestTimeout + RetryDelay + RequestTimeout)
  BY <1>2, TimeOfMore
<1>4. CASE p.attempt = 1
  BY <1>1, <1>2, <1>3, <1>4, PollsAssumption DEF SpentWell
<1>5. CASE p.attempt = 2
  BY <1>1, <1>2, <1>3, <1>5, PollsAssumption DEF SpentWell
<1>6. QED  BY <1>2, <1>4, <1>5

LEMMA PollsKeeps == PollsInv /\ [PollsNext]_pollsVars => PollsInv'
<1> SUFFICES ASSUME PollsInv, [PollsNext]_pollsVars PROVE PollsInv'
  OBVIOUS
<1>0. now \in Nat /\ \A p \in passes : p \in PassRecords
  BY DEF PollsInv, PassOK
<1>1. CASE StartPolls
  BY <1>1, BeginsKeeps DEF StartPolls
<1>2. CASE PollAgain
  BY <1>2, BeginsKeeps DEF PollAgain
<1>3. CASE StopPolls
  BY <1>3 DEF StopPolls, PollsInv
<1>4. ASSUME NEW p \in passes, Quoted(p) PROVE PollsInv'
  <2>1. PICK t \in {p.since, now} :
          Becomes(p, {Pass(p.number, p.began, "storing", p.provider, 1, now, t)})
    BY <1>4 DEF Quoted
  <2> DEFINE q == Pass(p.number, p.began, "storing", p.provider, 1, now, t)
  <2>2. /\ p.doing = "asking" /\ p.since \in Nat /\ p.since <= now
        /\ now <= p.since + RequestTimeout
    BY <1>0, <1>4 DEF Quoted, PollsInv, PassOK, Deadline, PassRecords
  <2>3. q \in PassRecords
    BY <1>0, <2>2 DEF Pass, PassRecords
  <2>4. now <= Deadline(q) /\ q.since <= now
    BY <1>0, PollsAssumption DEF Pass, Deadline
  <2>5. now - t <= RequestTimeout
    BY <1>0, <2>2, PollsAssumption
  <2>6. SpentWell(q)
    BY <2>2, <2>5, AskingHasTime DEF Pass, SpentWell
  <2>7. PassOK(q, now)
    BY <2>3, <2>4, <2>6 DEF PassOK
  <2>8. QED  BY <1>4, <2>1, <2>7, BecomesKeeps DEF Quoted
<1>5. ASSUME NEW p \in passes, Breaks(p) PROVE PollsInv'
  <2> DEFINE q == [p EXCEPT !.doing = "waiting", !.since = now]
  <2>1. p.doing = "asking" /\ p.attempt = 1 /\ Becomes(p, {q})
    BY <1>5 DEF Breaks
  <2>2. /\ q \in PassRecords /\ q.since = now /\ q.doing = "waiting"
        /\ q.attempt = 1 /\ q.began = p.began /\ q.provider = p.provider
    BY <1>0, <2>1 DEF PassRecords
  <2>3. now <= Deadline(q) /\ q.since <= now
    BY <1>0, <2>2, PollsAssumption DEF Deadline
  <2>4. now - p.began <= TimeOf(p.provider - 1) + RequestTimeout
    BY <2>1, AskingHasTime
  <2>5. SpentWell(q)
    <3> HIDE DEF q
    <3>1. QED  BY <2>2, <2>4 DEF SpentWell
  <2>6. PassOK(q, now)
    BY <2>2, <2>3, <2>5 DEF PassOK
  <2>7. QED  BY <1>5, <2>1, <2>6, BecomesKeeps DEF Breaks
<1>6. ASSUME NEW p \in passes, AsksAgain(p) PROVE PollsInv'
  <2>1. /\ p.doing = "waiting" /\ SpentWell(p) /\ now <= p.since + RetryDelay
        /\ p \in PassRecords
    BY <1>6 DEF AsksAgain, PollsInv, PassOK, Deadline
  <2>2. /\ p.since \in Nat /\ p.began \in Nat /\ p.provider \in 1..ProviderCount
    BY <2>1 DEF PassRecords
  <2>3. /\ p.attempt = 1
        /\ p.since - p.began <= TimeOf(p.provider - 1) + RequestTimeout
    BY <2>1 DEF SpentWell
  <2>4. TimeOf(p.provider - 1) \in Nat
    BY <2>2, TimeOfMore
  <2>5. now - p.began <= TimeOf(p.provider - 1) + (RequestTimeout + RetryDelay)
    BY <1>0, <2>1, <2>2, <2>3, <2>4, PollsAssumption
  <2>6. PassOK(Asking(p, p.provider, 2), now)
    BY <2>2, <2>5, AskingKeeps
  <2>7. Becomes(p, {Asking(p, p.provider, 2)})
    BY <1>6, <2>3 DEF AsksAgain
  <2>8. QED  BY <1>6, <2>6, <2>7, BecomesKeeps DEF AsksAgain
<1>7. ASSUME NEW p \in passes, NextSource(p) PROVE PollsInv'
  <2> DEFINE S == {Asking(p, i, 1) : i \in {p.provider + 1} \cap (1..ProviderCount)}
  <2>1. p.doing = "asking" /\ Becomes(p, S)
    BY <1>7 DEF NextSource
  <2>2. p.provider \in 1..ProviderCount /\ p.began \in Nat
    BY <1>0 DEF PassRecords
  <2>3. now - p.began <= TimeOf(p.provider) /\ TimeOf(p.provider) \in Nat
    BY <2>1, <2>2, AskingHasTime, TimeOfMore
  <2>4. ASSUME NEW i \in {p.provider + 1} \cap (1..ProviderCount)
        PROVE  PassOK(Asking(p, i, 1), now)
    <3>1. i - 1 = p.provider
      BY <2>2, <2>4
    <3>2. now - p.began <= TimeOf(i - 1) + 0
      BY <1>0, <2>2, <2>3, <3>1
    <3>3. QED  BY <2>4, <3>2, AskingKeeps
  <2>5. QED  BY <1>7, <2>1, <2>4, BecomesKeeps DEF NextSource
<1>8. ASSUME NEW p \in passes, Publish(p) PROVE PollsInv'
  BY <1>8, BecomesKeeps DEF Publish
<1>9. CASE PollsTick
  <2>1. now' = now + 1 /\ passes' = passes /\ begun' = begun
    BY <1>9 DEF PollsTick, Tick
  <2>2. ASSUME NEW p \in passes PROVE PassOK(p, now + 1)
    <3>1. now < Deadline(p) /\ PassOK(p, now) /\ p.since \in Nat
      BY <1>0, <1>9 DEF PollsTick, PollsInv, PassRecords
    <3>2. Deadline(p) \in Nat
      BY <1>0, PollsAssumption DEF Deadline, PassRecords
    <3>3. QED  BY <1>0, <3>1, <3>2 DEF PassOK
  <2>3. QED  BY <2>1, <2>2 DEF PollsInv
<1>10. CASE UNCHANGED pollsVars
  BY <1>10 DEF pollsVars, PollsInv
<1>11. QED
  BY <1>1, <1>2, <1>3, <1>4, <1>5, <1>6, <1>7, <1>8, <1>9, <1>10
  DEF PollsNext, PollsStep

LEMMA PollsInvBounds == PollsInv => PassesInTime /\ QuotesAreRecent
<1> SUFFICES ASSUME PollsInv, NEW p \in passes
             PROVE  /\ now - p.began <= p.provider * ProviderTime
                         + (IF p.doing = "storing" THEN StoreTime ELSE 0)
                    /\ p.doing = "storing" => now - p.quote <= RequestTimeout + StoreTime
  BY DEF PassesInTime, QuotesAreRecent
<1>1. now \in Nat /\ p \in PassRecords /\ SpentWell(p) /\ now <= Deadline(p)
  BY DEF PollsInv, PassOK
<1>2. /\ p.since \in Nat /\ p.began \in Nat /\ p.quote \in Nat
      /\ p.provider \in 1..ProviderCount /\ p.doing \in {"asking", "waiting", "storing"}
  BY <1>1 DEF PassRecords
<1>3. /\ TimeOf(p.provider) = p.provider * ProviderTime
      /\ TimeOf(p.provider) \in Nat /\ TimeOf(p.provider - 1) \in Nat
      /\ TimeOf(p.provider) = TimeOf(p.provider - 1)
                                + (RequestTimeout + RetryDelay + RequestTimeout)
  BY <1>2, TimeOfMore DEF TimeOf
<1>4. CASE p.doing = "asking"
  BY <1>3, <1>4, AskingHasTime
<1>5. CASE p.doing = "waiting"
  <2>1. /\ now <= p.since + RetryDelay
        /\ p.since - p.began <= TimeOf(p.provider - 1) + RequestTimeout
    BY <1>1, <1>5 DEF Deadline, SpentWell
  <2>2. now - p.began <= TimeOf(p.provider)
    BY <1>1, <1>2, <1>3, <2>1, PollsAssumption
  <2>3. QED  BY <1>3, <1>5, <2>2
<1>6. CASE p.doing = "storing"
  <2>1. /\ now <= p.since + StoreTime
        /\ p.since - p.began <= TimeOf(p.provider)
        /\ p.since - p.quote <= RequestTimeout
    BY <1>1, <1>6 DEF Deadline, SpentWell
  <2>2. /\ now - p.began <= TimeOf(p.provider) + StoreTime
        /\ now - p.quote <= RequestTimeout + StoreTime
    BY <1>1, <1>2, <1>3, <2>1, PollsAssumption
  <2>3. QED  BY <1>3, <1>6, <2>2
<1>7. QED  BY <1>2, <1>4, <1>5, <1>6

\* No pass takes longer than the providers it has asked, and no price older than
\* a request and the commands is stored, however many passes overlap
\* (rates.ts:253-317): two parts of PollsBounded, for any number of providers,
\* timeouts and interval.  A price so stored may yet replace a newer one.
THEOREM PassesEndInTime == PollsSpec => [](PassesInTime /\ QuotesAreRecent)
<1>1. PollsInit => PollsInv
  BY DEF PollsInit, ClockInit, PollsInv
<1>2. QED
  BY <1>1, PollsKeeps, PollsInvBounds, PTL DEF PollsSpec

-----------------------------------------------------------------------------
(* How many passes overlap *)

\* The instant of the last pass while polling goes on.
LastBegun == IF pollsDue = NotPolling THEN now ELSE pollsDue - PollInterval

\* The passes begun since p, without those that a start began.
ByInterval(p) == begun - p.number + 1 - starts

\* Passes are told apart by their numbers, and the interval lies between one
\* and the next, except where polling was started anew.
Spaced ==
  /\ \A p, q \in passes : p.number = q.number => p = q
  /\ \A p \in passes :
       /\ p.number \in 1..begun
       /\ ByInterval(p) * PollInterval <= LastBegun - p.began

OverlapInv ==
  /\ PollsInv
  /\ now \in Times
  /\ starts \in Nat
  /\ pollsDue \in Nat
  /\ pollsDue # NotPolling => starts >= 1 /\ pollsDue <= now + PollInterval
  /\ Spaced

LEMMA OverlapStarts == PollsInit => OverlapInv
<1> SUFFICES ASSUME PollsInit PROVE OverlapInv
  OBVIOUS
<1>1. PollsInv
  BY DEF PollsInit, ClockInit, PollsInv
<1>2. NotPolling \in Nat /\ 0 \in Times
  BY PollsAssumption, MaxTimeAssumption DEF NotPolling, Times
<1>3. QED  BY <1>1, <1>2 DEF PollsInit, ClockInit, OverlapInv, Spaced

\* A product with the interval.
LEMMA ByTheInterval ==
  /\ \A n \in Int : (n + 1) * PollInterval = n * PollInterval + PollInterval
  /\ \A n \in Int : n * PollInterval \in Int
  /\ \A n \in Int : n <= 0 => n * PollInterval <= 0
<1>1. PollInterval \in Nat /\ PollInterval > 0
  BY PollsAssumption
<1>2. QED  BY <1>1

\* A pass that goes on, or ends, keeps its number and its beginning.
LEMMA BecomesKeepsSpaced ==
  ASSUME OverlapInv, PollsInv', NEW p \in passes, NEW S, Becomes(p, S),
         \A q \in S : q.number = p.number /\ q.began = p.began,
         \A q, r \in S : q = r,
         now' = now, pollsDue' = pollsDue, begun' = begun, starts' = starts
  PROVE  OverlapInv'
<1>1. passes' = (passes \ {p}) \union S
  BY DEF Becomes
<1>2. \A q \in passes' : q \notin S => q \in passes /\ q # p
  BY <1>1
<1>3. LastBegun' = LastBegun /\ NotPolling' = NotPolling
  BY DEF LastBegun, NotPolling
<1>4. ASSUME NEW q \in passes', NEW r \in passes', q.number = r.number
      PROVE  q = r
  BY <1>2, <1>4 DEF OverlapInv, Spaced
<1>5. ASSUME NEW q \in passes'
      PROVE  /\ q.number \in 1..begun
             /\ (begun - q.number + 1 - starts) * PollInterval <= LastBegun - q.began
  <2>1. PICK r \in passes : q.number = r.number /\ q.began = r.began
    BY <1>2
  <2>2. r.number \in 1..begun /\ ByInterval(r) * PollInterval <= LastBegun - r.began
    BY DEF OverlapInv, Spaced
  <2>3. QED  BY <2>1, <2>2 DEF ByInterval
<1>6. Spaced'
  BY <1>3, <1>4, <1>5 DEF Spaced, ByInterval
<1>7. QED  BY <1>3, <1>6 DEF OverlapInv

LEMMA BeginsKeepsSpaced ==
  ASSUME OverlapInv, PollsInv', StartPolls \/ PollAgain
  PROVE  OverlapInv'
<1>0. /\ now \in Nat /\ begun \in Nat /\ starts \in Nat /\ pollsDue \in Nat
      /\ PollInterval \in Nat /\ PollInterval > 0 /\ now <= MaxTime /\ MaxTime \in Nat
  BY PollsAssumption, MaxTimeAssumption DEF OverlapInv, PollsInv, Times
<1>1. /\ now' = now /\ begun' = begun + 1 /\ pollsDue' = now + PollInterval
      /\ passes' = passes \union {Fresh}
  BY DEF StartPolls, PollAgain, Begins
<1>2. starts' \in Nat /\ starts' >= 1
  <2>1. CASE StartPolls
    BY <1>0, <2>1 DEF StartPolls
  <2>2. CASE PollAgain /\ pollsDue # NotPolling
    BY <2>2 DEF PollAgain, OverlapInv
  <2>3. CASE PollAgain /\ pollsDue = NotPolling
    BY <1>0, <2>3 DEF PollAgain, NotPolling
  <2>4. QED  BY <2>1, <2>2, <2>3
<1>3. pollsDue' # NotPolling' /\ LastBegun' = now
  BY <1>0, <1>1 DEF NotPolling, LastBegun
<1>4. Fresh.number = begun + 1 /\ Fresh.began = now
  BY DEF Fresh, Pass
<1>5. \A p \in passes : /\ p.number \in 1..begun /\ p.began \in Nat
                        /\ ByInterval(p) \in Int
                        /\ ByInterval(p) * PollInterval <= LastBegun - p.began
  BY <1>0 DEF OverlapInv, Spaced, PollsInv, PassOK, PassRecords, ByInterval
<1>6. ASSUME NEW p \in passes', NEW q \in passes', p.number = q.number
      PROVE  p = q
  <2>1. \A r \in passes : r.number # Fresh.number
    BY <1>0, <1>4, <1>5
  <2>2. QED  BY <1>1, <1>6, <2>1 DEF OverlapInv, Spaced
<1>7. ASSUME NEW p \in passes
      PROVE  (begun + 1 - p.number + 1 - starts') * PollInterval <= now - p.began
  <2>1. CASE StartPolls
    <3>1. begun + 1 - p.number + 1 - starts' = ByInterval(p)
      BY <1>0, <1>5, <2>1 DEF StartPolls, ByInterval
    <3>2. LastBegun = now
      BY <2>1 DEF StartPolls, LastBegun
    <3>3. QED  BY <1>5, <3>1, <3>2
  <2>2. CASE PollAgain
    <3>1. begun + 1 - p.number + 1 - starts' = ByInterval(p) + 1
      BY <1>0, <1>5, <2>2 DEF PollAgain, ByInterval
    <3>2. (ByInterval(p) + 1) * PollInterval = ByInterval(p) * PollInterval + PollInterval
      BY <1>5, ByTheInterval
    <3>3. now >= pollsDue /\ LastBegun = pollsDue - PollInterval
      BY <1>0, <2>2 DEF PollAgain, LastBegun, NotPolling
    <3>4. ByInterval(p) * PollInterval \in Int
      BY <1>5, ByTheInterval
    <3>5. ByInterval(p) * PollInterval + PollInterval <= now - p.began
      BY <1>0, <1>5, <3>3, <3>4
    <3>6. QED  BY <3>1, <3>2, <3>5
  <2>3. QED  BY <2>1, <2>2
<1>8. (begun + 1 - Fresh.number + 1 - starts') * PollInterval <= now - Fresh.began
  <2> DEFINE n == Fresh.number
             s == starts'
  <2>1. begun + 1 - Fresh.number + 1 - starts' = 1 - starts' /\ 1 - starts' <= 0
    <3>1. n = begun + 1 /\ begun \in Nat /\ s \in Nat /\ s >= 1
      BY <1>0, <1>2, <1>4
    <3> HIDE DEF n, s
    <3>2. begun + 1 - n + 1 - s = 1 - s /\ 1 - s <= 0
      BY <3>1
    <3>3. QED  BY <3>2 DEF n, s
  <2>2. (1 - starts') * PollInterval <= 0
    BY <1>2, <2>1, ByTheInterval
  <2>3. now - Fresh.began = 0
    BY <1>0, <1>4
  <2>4. QED  BY <2>1, <2>2, <2>3
<1>9. \A p \in passes' : p.number \in 1..begun'
  BY <1>0, <1>1, <1>4, <1>5
<1>10. Spaced'
  <2>1. \A p \in passes' : ByInterval(p)' = begun + 1 - p.number + 1 - starts'
    <3>1. \A p \in passes' : p.number \in Int
      BY <1>0, <1>1, <1>9
    <3>2. QED  BY <1>0, <1>1, <1>2, <3>1 DEF ByInterval
  <2>2. \A p \in passes' : ByInterval(p)' * PollInterval <= now - p.began
    BY <1>1, <1>7, <1>8, <2>1
  <2>3. PollInterval' = PollInterval
    OBVIOUS
  <2>4. QED  BY <1>3, <1>6, <1>9, <2>2, <2>3 DEF Spaced
<1>11. QED  BY <1>0, <1>1, <1>2, <1>10 DEF OverlapInv

LEMMA OverlapKeeps == OverlapInv /\ [PollsNext]_pollsVars => OverlapInv'
<1> SUFFICES ASSUME OverlapInv, [PollsNext]_pollsVars PROVE OverlapInv'
  OBVIOUS
<1>0. PollsInv'
  BY PollsKeeps DEF OverlapInv
<1>1. CASE StartPolls \/ PollAgain
  BY <1>0, <1>1, BeginsKeepsSpaced
<1>2. ASSUME StopPolls PROVE OverlapInv'
  <2>1. /\ pollsDue' = NotPolling /\ NotPolling \in Nat /\ NotPolling' = NotPolling
        /\ now' = now /\ passes' = passes /\ begun' = begun /\ starts' = starts
    BY <1>2, PollsAssumption, MaxTimeAssumption DEF StopPolls, NotPolling
  <2>2. now \in Nat /\ pollsDue \in Nat /\ PollInterval \in Nat
    BY PollsAssumption DEF OverlapInv, PollsInv
  <2>3. LastBegun \in Int /\ LastBegun <= now /\ LastBegun' = now
    BY <1>2, <2>1, <2>2 DEF StopPolls, OverlapInv, LastBegun
  <2>4. \A p \in passes : /\ ByInterval(p) * PollInterval \in Int /\ p.began \in Nat
                          /\ ByInterval(p)' = ByInterval(p)
    BY <2>1, ByTheInterval DEF OverlapInv, Spaced, PollsInv, PassOK, PassRecords, ByInterval
  <2>5. Spaced'
    BY <2>1, <2>2, <2>3, <2>4 DEF OverlapInv, Spaced
  <2>6. QED  BY <1>0, <2>1, <2>5 DEF OverlapInv
<1>3. ASSUME NEW p \in passes,
             Quoted(p) \/ Breaks(p) \/ AsksAgain(p) \/ NextSource(p) \/ Publish(p)
      PROVE  OverlapInv'
  <2>1. /\ now' = now /\ pollsDue' = pollsDue /\ begun' = begun /\ starts' = starts
    BY <1>3 DEF Quoted, Breaks, AsksAgain, NextSource, Publish
  <2>2. \A i, a : Asking(p, i, a).number = p.number /\ Asking(p, i, a).began = p.began
    BY DEF Asking, Pass
  <2>3. \E S : /\ Becomes(p, S)
               /\ \A q \in S : q.number = p.number /\ q.began = p.began
               /\ \A q, r \in S : q = r
    <3>1. CASE Quoted(p)
      BY <3>1 DEF Quoted, Pass
    <3>2. CASE Breaks(p)
      <4> DEFINE q == [p EXCEPT !.doing = "waiting", !.since = now]
      <4>1. q.number = p.number /\ q.began = p.began
        BY DEF OverlapInv, PollsInv, PassOK, PassRecords
      <4>2. Becomes(p, {q})
        BY <3>2 DEF Breaks
      <4> HIDE DEF q
      <4>3. QED  BY <4>1, <4>2
    <3>3. CASE AsksAgain(p)
      BY <2>2, <3>3 DEF AsksAgain
    <3>4. CASE NextSource(p)
      BY <2>2, <3>4 DEF NextSource
    <3>5. CASE Publish(p)
      BY <3>5 DEF Publish
    <3>6. QED  BY <1>3, <3>1, <3>2, <3>3, <3>4, <3>5
  <2>4. QED  BY <1>0, <2>1, <2>3, BecomesKeepsSpaced
<1>4. ASSUME PollsTick PROVE OverlapInv'
  <2>1. /\ now' = now + 1 /\ now' \in Times /\ now \in Nat /\ NotPolling' = NotPolling
        /\ pollsDue' = pollsDue /\ passes' = passes /\ begun' = begun /\ starts' = starts
    BY <1>4, MaxTimeAssumption DEF PollsTick, Tick, OverlapInv, PollsInv, Times, NotPolling
  <2>2. PollInterval \in Nat /\ pollsDue \in Nat
    BY PollsAssumption DEF OverlapInv
  <2>3. LastBegun \in Int /\ LastBegun' \in Int /\ LastBegun <= LastBegun'
    BY <2>1, <2>2 DEF LastBegun
  <2>4. \A p \in passes : /\ ByInterval(p) * PollInterval \in Int /\ p.began \in Nat
                          /\ ByInterval(p)' = ByInterval(p)
    BY <2>1, ByTheInterval DEF OverlapInv, Spaced, PollsInv, PassOK, PassRecords, ByInterval
  <2>5. Spaced'
    BY <2>1, <2>3, <2>4 DEF OverlapInv, Spaced
  <2>6. pollsDue <= now' + PollInterval \/ pollsDue = NotPolling
    BY <2>1, <2>2 DEF OverlapInv
  <2>7. QED  BY <1>0, <2>1, <2>5, <2>6 DEF OverlapInv
<1>5. CASE UNCHANGED pollsVars
  BY <1>0, <1>5 DEF pollsVars, OverlapInv, Spaced, LastBegun, ByInterval, NotPolling
<1>6. QED
  BY <1>1, <1>2, <1>3, <1>4, <1>5 DEF PollsNext, PollsStep

\* Only so many numbers are left for the passes that are still under way.
LEMMA OverlapFollows == OverlapInv => OverlapBounded
<1> SUFFICES ASSUME OverlapInv PROVE OverlapBounded
  OBVIOUS
<1> DEFINE L == PassTime + StoreTime
           K == L \div PollInterval
           first == begun + 1 - starts - K
           f == [p \in passes |-> p.number]
<1>1. /\ now \in Nat /\ begun \in Nat /\ starts \in Nat /\ pollsDue \in Nat
      /\ PollInterval \in Nat /\ PollInterval > 0 /\ ProviderTime \in Nat
      /\ StoreTime \in Nat /\ ProviderCount \in Nat
  BY PollsAssumption, TimeOfMore DEF OverlapInv, PollsInv
<1>2. L \in Nat /\ \A i \in 0..ProviderCount : i * ProviderTime <= PassTime
  <2>1. \A i \in 0..ProviderCount : /\ i * ProviderTime \in Nat
                                    /\ i * ProviderTime <= ProviderCount * ProviderTime
    BY <1>1
  <2>2. ProviderCount * ProviderTime \in Nat
    BY <1>1
  <2>3. QED  BY <1>1, <2>1, <2>2 DEF PassTime
<1> HIDE DEF L
<1>3. K \in Nat /\ L < (K + 1) * PollInterval
  BY <1>1, <1>2
<1>4. ASSUME NEW p \in passes
      PROVE  p.number \in first..begun
  <2>1. /\ p.number \in 1..begun /\ p.began \in Nat /\ p.provider \in 1..ProviderCount
        /\ ByInterval(p) * PollInterval <= LastBegun - p.began
    BY DEF OverlapInv, Spaced, PollsInv, PassOK, PassRecords
  <2>2. now - p.began <= L
    <3>1. now - p.began <= p.provider * ProviderTime
                             + (IF p.doing = "storing" THEN StoreTime ELSE 0)
      BY PollsInvBounds DEF OverlapInv, PassesInTime
    <3>2. p.provider * ProviderTime <= PassTime /\ p.provider * ProviderTime \in Nat
      BY <1>1, <1>2, <2>1
    <3>3. PassTime \in Nat
      BY <1>1 DEF PassTime
    <3>4. QED  BY <1>1, <2>1, <3>1, <3>2, <3>3 DEF L
  <2>3. LastBegun \in Int /\ LastBegun <= now
    BY <1>1 DEF OverlapInv, LastBegun
  <2>4. ByInterval(p) \in Int /\ ByInterval(p) * PollInterval \in Int
    BY <1>1, <2>1, ByTheInterval DEF ByInterval
  <2>5. ByInterval(p) * PollInterval <= L
    BY <1>1, <1>2, <2>1, <2>2, <2>3, <2>4
  <2>6. ByInterval(p) <= K
    <3> DEFINE n == ByInterval(p)
    <3> HIDE DEF n, K
    <3>1. SUFFICES ASSUME n >= K + 1 PROVE FALSE
      BY <1>3, <2>4 DEF n
    <3>2. n * PollInterval >= (K + 1) * PollInterval
      BY <1>1, <1>3, <2>4, <3>1 DEF n
    <3>3. (K + 1) * PollInterval \in Int /\ n * PollInterval <= L /\ n * PollInterval \in Int
      BY <1>1, <1>3, <2>4, <2>5 DEF n
    <3>4. QED  BY <1>2, <1>3, <3>2, <3>3
  <2> HIDE DEF K
  <2>7. QED  BY <1>1, <1>3, <2>1, <2>4, <2>6 DEF ByInterval
<1> HIDE DEF K
<1>5. f \in Injection(passes, first..begun)
  BY <1>4 DEF OverlapInv, Spaced, Injection, IsInjective
<1>6. first \in Int /\ begun \in Int
  BY <1>1, <1>3
<1>7. /\ IsFiniteSet(first..begun)
      /\ Cardinality(first..begun) = IF first > begun THEN 0 ELSE begun - first + 1
  BY <1>6, FS_Interval
<1>8. IsFiniteSet(passes) /\ Cardinality(passes) <= Cardinality(first..begun)
  BY <1>5, <1>7, FS_Injection
<1>9. Cardinality(first..begun) <= K + starts
  BY <1>1, <1>3, <1>7
<1>10. /\ Cardinality(passes) \in Nat /\ Cardinality(first..begun) \in Nat
  BY <1>7, <1>8, FS_CardinalityType
<1>11. Cardinality(passes) <= K + starts
  BY <1>1, <1>3, <1>8, <1>9, <1>10
<1>12. QED  BY <1>11 DEF OverlapBounded, K, L

\* The interval waits for no pass, and yet slow providers cannot pile passes up
\* beyond the intervals that lie within one pass, and one for each start, and
\* what a pass stores is of a bounded age (rates.ts:253-317): for any number of
\* providers, timeouts and interval.
THEOREM PollsStayBounded == PollsSpec => []PollsBounded
<1>1. OverlapInv => PollsBounded
  BY PollsInvBounds, OverlapFollows DEF OverlapInv, PollsBounded
<1>2. QED
  BY OverlapStarts, OverlapKeeps, <1>1, PTL DEF PollsSpec

-----------------------------------------------------------------------------
(* The price feed *)

\* What the bookkeeping of NextProvider keeps, whatever called it.
LEMMA NextProviderType ==
    ASSUME TypeOK, NextProvider
    PROVE  /\ current' \in 0..Providers
           /\ fallback' \in BOOLEAN /\ polling' \in BOOLEAN /\ fetching' \in BOOLEAN
           /\ timers' \in Nat /\ retries' \in Nat
           /\ (~fallback' => timers' > 0)
           /\ (FallbackIsLast => (polling' => fallback') /\ (fallback' => current' = Providers))
  <1>1. CASE current' < Providers
    <2>1. timers' = timers + 1 /\ UNCHANGED <<fallback, polling, fetching, retries>>
      BY <1>1 DEF NextProvider
    <2>2. current' \in 0..Providers /\ current < Providers
      BY <1>1, FeedAssumption DEF NextProvider, TypeOK
    <2> QED  BY <2>1, <2>2 DEF TypeOK, FallbackIsLast
  <1>2. CASE ~(current' < Providers)
    <2>1. fallback' = TRUE /\ polling' = TRUE
          /\ fetching' = (fetching \/ ~polling)
          /\ retries' = (IF polling \/ Production THEN 0 ELSE 1)
          /\ timers' = timers
      BY <1>2 DEF NextProvider, StartPolling
    <2>2. current' = Providers
      BY <1>2, FeedAssumption DEF NextProvider, TypeOK
    <2>3. fetching' \in BOOLEAN
      BY <2>1, Zenon DEF TypeOK
    <2>4. retries' \in Nat
      BY <2>1
    <2> QED  BY <2>1, <2>2, <2>3, <2>4, FeedAssumption DEF TypeOK
  <1> QED  BY <1>1, <1>2

\* The same of Attempt: it keeps the types, and brings a socket or the fallback.
LEMMA AttemptType ==
    ASSUME TypeOK, Attempt
    PROVE  /\ ws' \in Sockets \cup {NoSocket}
           /\ state' \in [Sockets -> SocketState]
           /\ fallback' \in BOOLEAN /\ polling' \in BOOLEAN /\ fetching' \in BOOLEAN
           /\ retries' \in Nat
           /\ tried' \subseteq 0..Providers
           /\ (fallback' \/ \E s \in Sockets : state'[s] # "gone")
           /\ (FallbackIsLast => (polling' => fallback') /\ (fallback' => current = Providers))
  <1>1. CASE current < Providers
    <2>1. PICK s \in Sockets :
            /\ state' = [state EXCEPT ![s] = "connecting"]
            /\ ws' = s
            /\ tried' = tried \cup {current}
            /\ UNCHANGED <<fallback, polling, fetching, retries>>
      BY <1>1 DEF Attempt, Unused
    <2>2. state' \in [Sockets -> SocketState] /\ state'[s] = "connecting"
      BY <2>1 DEF TypeOK, SocketState
    <2> QED  BY <2>1, <2>2 DEF TypeOK, FallbackIsLast
  <1>2. CASE ~(current < Providers)
    <2>1. fallback' = TRUE /\ polling' = TRUE
          /\ fetching' = (fetching \/ ~polling)
          /\ retries' = (IF polling \/ Production THEN retries ELSE retries + 1)
          /\ UNCHANGED <<ws, state, tried>>
      BY <1>2 DEF Attempt, StartPolling
    <2>2. fetching' \in BOOLEAN
      BY <2>1, Zenon DEF TypeOK
    <2>3. current = Providers
      BY <1>2, FeedAssumption DEF TypeOK
    <2> QED  BY <2>1, <2>2, <2>3 DEF TypeOK
  <1> QED  BY <1>1, <1>2

\* terminate wakes no socket that is gone and loses none that is not.
LEMMA TerminateKeeps ==
    ASSUME TypeOK, Terminate
    PROVE  /\ state' \in [Sockets -> SocketState]
           /\ sleepers' \in 0..MaxCalls
           /\ sleepers' > 0
           /\ ws' = ws
  <1>1. sleepers' \in 0..MaxCalls /\ sleepers' > 0 /\ ws' = ws
    BY FeedAssumption DEF Terminate, TypeOK
  <1>2. state' \in [Sockets -> SocketState]
    <2> DEFINE v == CASE state[ws] = "connecting" -> "failing"
                      [] state[ws] = "open" -> "closing"
                      [] OTHER -> state[ws]
    <2>1. state' = [state EXCEPT ![ws] = v]
      BY DEF Terminate, Terminated
    <2>2. ws \in Sockets => v \in SocketState
      BY DEF TypeOK, SocketState
    <2> HIDE DEF v
    <2> QED  BY <2>1, <2>2 DEF TypeOK
  <1> QED  BY <1>1, <1>2

-----------------------------------------------------------------------------
(* One lemma per action *)

\* FallbackIsLast is a part of the invariant because a call of connect that
\* sleeps starts polling without looking at fallback again.
FeedInv == TypeOK /\ ReconnectDue /\ FallbackIsLast

LEMMA ConnectStep ==
    ASSUME FeedInv, ConnectTimer \/ ConnectResumes
    PROVE  FeedInv'
  <1>1. CASE ConnectTimer
    <2>1. CASE fallback \/ Connected
      <3>1. UNCHANGED <<ws, state, sleepers, subscribed, current, fallback, polling,
                        fetching, retries, recent, fx, tried>>
            /\ timers > 0 /\ timers' = timers - 1
        BY <1>1, <2>1 DEF ConnectTimer
      <3>2. TypeOK'
        BY <3>1 DEF FeedInv, TypeOK
      <3>3. ~fallback => state[ws] = "open" /\ ws \in Sockets
        BY <2>1 DEF Connected, Open, FeedInv, TypeOK
      <3> QED  BY <3>1, <3>2, <3>3 DEF FeedInv, ReconnectDue, FallbackIsLast
    <2>2. CASE ~(fallback \/ Connected)
      <3>1. Terminate /\ timers > 0 /\ timers' = timers - 1
            /\ UNCHANGED <<subscribed, current, fallback, polling, fetching, retries,
                           recent, fx, tried>>
        BY <1>1, <2>2 DEF ConnectTimer
      <3> QED  BY <3>1, TerminateKeeps DEF FeedInv, TypeOK, ReconnectDue, FallbackIsLast
    <2> QED  BY <2>1, <2>2
  <1>2. CASE ConnectResumes
    <2>1. Attempt /\ sleepers > 0 /\ sleepers' = sleepers - 1
          /\ UNCHANGED <<subscribed, current, timers, recent, fx>>
      BY <1>2 DEF ConnectResumes
    <2>2. TypeOK'
      BY <2>1, AttemptType, FeedAssumption DEF FeedInv, TypeOK
    <2> QED  BY <2>1, <2>2, AttemptType DEF FeedInv, ReconnectDue, FallbackIsLast
  <1> QED  BY <1>1, <1>2

LEMMA SocketStep ==
    ASSUME FeedInv, NEW s \in Sockets,
           Opens(s) \/ Message(s) \/ SocketFails(s) \/ SocketCloses(s)
    PROVE  FeedInv'
  <1>1. CASE Opens(s)
    <2>1. TypeOK'
      BY <1>1 DEF Opens, FeedInv, TypeOK, SocketState
    <2>2. state'[s] = "open"
      BY <1>1 DEF Opens, FeedInv, TypeOK
    <2> QED  BY <1>1, <2>1, <2>2 DEF Opens, FeedInv, ReconnectDue, FallbackIsLast
  <1>2. CASE Message(s)
    BY <1>2 DEF Message, FeedInv, TypeOK, ReconnectDue, FallbackIsLast
  <1>3. CASE SocketFails(s)
    <2>1. NextProvider /\ state' = [state EXCEPT ![s] = "closing"]
          /\ UNCHANGED <<ws, subscribed, sleepers, recent, fx, tried>>
      BY <1>3 DEF SocketFails
    <2>2. state' \in [Sockets -> SocketState]
      BY <2>1 DEF FeedInv, TypeOK, SocketState
    <2>3. TypeOK'
      BY <2>1, <2>2, NextProviderType DEF FeedInv, TypeOK
    <2> QED  BY <2>1, <2>3, NextProviderType DEF FeedInv, ReconnectDue, FallbackIsLast
  <1>4. CASE SocketCloses(s)
    <2>1. state' = [state EXCEPT ![s] = "gone"] /\ subscribed' = subscribed \ {s}
          /\ UNCHANGED <<ws, sleepers, recent, fx, tried>>
      BY <1>4 DEF SocketCloses
    <2>2. state' \in [Sockets -> SocketState] /\ subscribed' \subseteq Sockets
      BY <2>1 DEF FeedInv, TypeOK, SocketState
    <2>3. CASE fallback
      <3>1. UNCHANGED <<current, fallback, polling, fetching, timers, retries>>
        BY <1>4, <2>3 DEF SocketCloses
      <3> QED  BY <2>1, <2>2, <2>3, <3>1 DEF FeedInv, TypeOK, ReconnectDue, FallbackIsLast
    <2>4. CASE ~fallback
      <3>1. NextProvider
        BY <1>4, <2>4 DEF SocketCloses
      <3>2. TypeOK'
        BY <2>1, <2>2, <3>1, NextProviderType DEF FeedInv, TypeOK
      <3> QED  BY <2>1, <3>1, <3>2, NextProviderType DEF FeedInv, ReconnectDue, FallbackIsLast
    <2> QED  BY <2>3, <2>4
  <1> QED  BY <1>1, <1>2, <1>3, <1>4

LEMMA PollStep ==
    ASSUME FeedInv, PollTick \/ PollEnds \/ RetryLater
    PROVE  FeedInv'
  <1>1. CASE PollTick
    BY <1>1 DEF PollTick, FeedInv, TypeOK, ReconnectDue, FallbackIsLast
  <1>2. CASE PollEnds
    BY <1>2 DEF PollEnds, FeedInv, TypeOK, ReconnectDue, FallbackIsLast
  <1>3. CASE RetryLater
    <2>1. retries > 0 /\ retries' = retries - 1 /\ fallback' = FALSE /\ current' = 0
          /\ polling' = FALSE /\ tried' = {}
          /\ UNCHANGED <<subscribed, fetching, timers, recent, fx>>
      BY <1>3 DEF RetryLater
    <2>2. /\ fallback' \in BOOLEAN /\ polling' \in BOOLEAN /\ ~fallback' /\ ~polling'
          /\ current' \in 0..Providers /\ retries' \in Nat /\ tried' \subseteq 0..Providers
      <3>1. fallback' \in BOOLEAN /\ polling' \in BOOLEAN /\ ~fallback' /\ ~polling'
        BY <2>1, Zenon
      <3>2. current' \in 0..Providers /\ retries' \in Nat /\ tried' \subseteq 0..Providers
        BY <2>1, FeedAssumption DEF FeedInv, TypeOK
      <3> QED  BY <3>1, <3>2
    <2>3. CASE Connected
      <3>1. UNCHANGED <<ws, state, sleepers>>
        BY <1>3, <2>3 DEF RetryLater
      <3>2. ws \in Sockets /\ state'[ws] = "open"
        BY <2>3, <3>1 DEF Connected, Open, FeedInv, TypeOK
      <3>3. TypeOK'
        BY <2>1, <2>2, <3>1 DEF FeedInv, TypeOK
      <3> QED  BY <2>2, <3>2, <3>3 DEF FeedInv, ReconnectDue, FallbackIsLast
    <2>4. CASE ~Connected
      <3>1. Terminate
        BY <1>3, <2>4 DEF RetryLater
      <3>2. TypeOK'
        BY <2>1, <2>2, <3>1, TerminateKeeps DEF FeedInv, TypeOK
      <3> QED  BY <2>2, <3>1, <3>2, TerminateKeeps DEF FeedInv, ReconnectDue, FallbackIsLast
    <2> QED  BY <2>3, <2>4
  <1> QED  BY <1>1, <1>2, <1>3

LEMMA FxStep ==
    ASSUME FeedInv, FxStarts \/ FxEnds \/ FxThrows \/ FxRests \/ GrowsOld
    PROVE  FeedInv'
  <1>1. CASE FxStarts
    <2>1. fx' \in {"starting", "working"} /\ UNCHANGED <<subscribed, current, timers, recent>>
          /\ (fx = "due" => fx' = "working")
      BY <1>1 DEF FxStarts
    <2>2. CASE fallback \/ Open(ws)
      <3>1. UNCHANGED <<ws, state, sleepers, fallback, polling, fetching, retries, tried>>
        BY <1>1, <2>2 DEF FxStarts
      <3>2. ~fallback => ws \in Sockets /\ state'[ws] = "open"
        BY <2>2, <3>1 DEF Open, FeedInv, TypeOK
      <3>3. TypeOK'
        BY <2>1, <3>1 DEF FeedInv, TypeOK
      <3> QED  BY <2>1, <3>1, <3>2, <3>3 DEF FeedInv, ReconnectDue, FallbackIsLast
    <2>3. CASE ~(fallback \/ Open(ws)) /\ ws = NoSocket
      <3>1. Attempt /\ UNCHANGED sleepers
        BY <1>1, <2>3 DEF FxStarts
      <3>2. TypeOK'
        BY <2>1, <3>1, AttemptType DEF FeedInv, TypeOK
      <3> QED  BY <2>1, <3>1, <3>2, AttemptType DEF FeedInv, ReconnectDue, FallbackIsLast
    <2>4. CASE ~(fallback \/ Open(ws)) /\ ws # NoSocket
      <3>1. Terminate /\ UNCHANGED <<fallback, polling, fetching, retries, tried>>
        BY <1>1, <2>4 DEF FxStarts
      <3>2. TypeOK'
        BY <2>1, <3>1, TerminateKeeps DEF FeedInv, TypeOK
      <3> QED  BY <2>1, <3>1, <3>2, TerminateKeeps DEF FeedInv, ReconnectDue, FallbackIsLast
    <2> QED  BY <2>2, <2>3, <2>4
  <1>2. CASE FxEnds
    BY <1>2 DEF FxEnds, FeedInv, TypeOK, ReconnectDue, FallbackIsLast
  <1>3. CASE FxThrows
    BY <1>3 DEF FxThrows, FeedInv, TypeOK, ReconnectDue, FallbackIsLast
  <1>4. CASE GrowsOld
    BY <1>4 DEF GrowsOld, FeedInv, TypeOK, ReconnectDue, FallbackIsLast
  <1>5. CASE FxRests
    BY <1>5 DEF FxRests, FeedInv, TypeOK, ReconnectDue, FallbackIsLast
  <1> QED  BY <1>1, <1>2, <1>3, <1>4, <1>5

-----------------------------------------------------------------------------
(* Theorems *)

\* FeedInv holds in every reachable state of the feed.
THEOREM FeedInvariance == Spec => []FeedInv
  <1>1. Init => FeedInv
    <2> SUFFICES ASSUME Init PROVE FeedInv
      OBVIOUS
    <2>1. state \in [Sockets -> SocketState]
      BY DEF Init, SocketState
    <2>2. fallback \in BOOLEAN /\ polling \in BOOLEAN /\ fetching \in BOOLEAN /\ recent \in BOOLEAN
      BY Zenon DEF Init
    <2>3. ~fallback /\ ~polling /\ fx = "start"
      BY DEF Init
    <2>4. TypeOK
      BY <2>1, <2>2, FeedAssumption DEF Init, TypeOK
    <2> QED  BY <2>3, <2>4 DEF FeedInv, ReconnectDue, FallbackIsLast
  <1>2. FeedInv /\ [Next]_vars => FeedInv'
    <2> SUFFICES ASSUME FeedInv, [Next]_vars PROVE FeedInv'
      OBVIOUS
    <2>1. CASE UNCHANGED vars
      BY <2>1 DEF vars, FeedInv, TypeOK, ReconnectDue, FallbackIsLast
    <2>2. CASE Next
      BY <2>2, ConnectStep, SocketStep, PollStep, FxStep DEF Next
    <2> QED  BY <2>1, <2>2
  <1> QED  BY <1>1, <1>2, PTL DEF Spec

\* Every variable of the feed keeps its type.
THEOREM FeedTypeCorrect == Spec => []TypeOK
  BY FeedInvariance, PTL DEF FeedInv

\* Outside fallback a socket, a timer or a sleeping connect always carries
\* the feed on (connect, onerror, onclose), without the help of getFx.
THEOREM FeedIsCarried == Spec => []ReconnectDue
  BY FeedInvariance, PTL DEF FeedInv

\* Polling only in fallback, fallback only past the last provider
\* (startHttpPolling and its callers), for any interleaving of connect calls.
THEOREM PollingIsLast == Spec => []FallbackIsLast
  BY FeedInvariance, PTL DEF FeedInv

\* The feed is carried on until its providers are used up, and polls only then.
THEOREM FeedStaysOnItsWay == Spec => []FeedIsOnItsWay
  <1>1. FeedInv => FeedIsOnItsWay
    BY DEF FeedInv, FeedIsOnItsWay
  <1> QED  BY FeedInvariance, <1>1, PTL

====
