---- MODULE LoginGate ----
(***************************************************************************)
(* The limiter before the password check of a login: EnhancedRateLimiter   *)
(* of lib/middleware/security.ts as routes/users.ts uses it.  Per address, *)
(* a window that opens with its first attempt and counts MaxAttempts; the  *)
(* attempt over the limit locks the address out for Lockout.  A login that *)
(* was let in waits for the user's record and the verification of the      *)
(* password, and others of the same address run meanwhile; one that        *)
(* succeeds, and any registration from the address, forgets the record.    *)
(* A timer drops the records whose instant has passed.                     *)
(***************************************************************************)
EXTENDS Clock, Sequences

CONSTANTS Addresses,        \* the clients' addresses
          MaxAttempts,      \* attempts of one window
          AttemptWindow,    \* windowMs
          Lockout,          \* lockoutMs
          SweepInterval,    \* the period of the cleanup timer
          MaxGuesses,       \* bound: attempts of an address let in since a reset
          MaxVerifying      \* bound: logins of an address under way at once

ASSUME GateAssumption ==
  /\ MaxAttempts \in Nat \ {0}
  /\ AttemptWindow \in Nat \ {0}
  /\ Lockout \in Nat \ {0}
  /\ SweepInterval \in Nat \ {0}
  /\ MaxGuesses \in Nat
  /\ MaxVerifying \in Nat

\* So it is for the limiter of the logins, and by default (security.ts:142, 321).
ASSUME LockoutIsLonger == AttemptWindow <= Lockout

VARIABLES attempts,     \* the map of the code: address -> record
          verifying,    \* per address, the logins let in and not answered yet
          nextSweep,    \* when the cleanup timer is due
          guesses,      \* ghost: the instants let in since the last reset
          lockedUntil   \* ghost: the end of the last lockout, 0 after a reset

gateVars == <<now, attempts, verifying, nextSweep, guesses, lockedUntil>>

FirstAttempt(t) == [count |-> 1, resetAt |-> t + AttemptWindow, locked |-> FALSE]

NoRecord == [count |-> 0, resetAt |-> 0, locked |-> FALSE]

Records == [count : 0..(MaxAttempts + 1),
            resetAt : 0..(MaxTime + AttemptWindow + Lockout),
            locked : BOOLEAN]

Known(a) == attempts[a] # NoRecord

LockedOut(a) == attempts[a].locked /\ now < attempts[a].resetAt

Passed(a) == now > attempts[a].resetAt

GateInit ==
  /\ ClockInit
  /\ attempts = [a \in Addresses |-> NoRecord]
  /\ verifying = [a \in Addresses |-> 0]
  /\ nextSweep = SweepInterval
  /\ guesses = [a \in Addresses |-> <<>>]
  /\ lockedUntil = [a \in Addresses |-> 0]

\* The attempt goes on to the password; its record becomes r.
LetThrough(a, r) ==
  /\ Len(guesses[a]) < MaxGuesses
  /\ verifying[a] < MaxVerifying
  /\ attempts' = [attempts EXCEPT ![a] = r]
  /\ verifying' = [verifying EXCEPT ![a] = @ + 1]
  /\ guesses' = [guesses EXCEPT ![a] = Append(@, now)]
  /\ UNCHANGED lockedUntil

\* Mutant: a window ends one instant earlier.
NewWindowEarly(a) ==
  /\ Known(a) => now >= attempts[a].resetAt
  /\ LetThrough(a, FirstAttempt(now))

\* The first attempt, or the first after the window or the lockout passed.
NewWindow(a) ==
  /\ Known(a) => Passed(a)
  /\ LetThrough(a, FirstAttempt(now))

CountAttempt(a) ==
  /\ Known(a) /\ ~LockedOut(a) /\ ~Passed(a)
  /\ attempts[a].count < MaxAttempts
  /\ LetThrough(a, [attempts[a] EXCEPT !.count = @ + 1])

\* One attempt too many: also the one that comes at the very instant a
\* lockout ends, which starts the lockout anew.
LockOut(a) ==
  /\ Known(a) /\ ~LockedOut(a) /\ ~Passed(a)
  /\ attempts[a].count >= MaxAttempts
  /\ attempts' = [attempts EXCEPT
                    ![a] = [count |-> MaxAttempts + 1,
                            resetAt |-> now + Lockout, locked |-> TRUE]]
  /\ lockedUntil' = [lockedUntil EXCEPT ![a] = now + Lockout]
  /\ UNCHANGED <<verifying, guesses>>

\* Refused without a trace.
TurnAway(a) == LockedOut(a) /\ UNCHANGED gateVars

Login(a) ==
  /\ NewWindow(a) \/ CountAttempt(a) \/ LockOut(a) \/ TurnAway(a)
  /\ UNCHANGED <<now, nextSweep>>

ResetGate(a) ==
  /\ attempts' = [attempts EXCEPT ![a] = NoRecord]
  /\ guesses' = [guesses EXCEPT ![a] = <<>>]
  /\ lockedUntil' = [lockedUntil EXCEPT ![a] = 0]

\* No such user, no password, or the wrong one.
WrongPassword(a) ==
  /\ verifying[a] > 0
  /\ verifying' = [verifying EXCEPT ![a] = @ - 1]
  /\ UNCHANGED <<now, attempts, nextSweep, guesses, lockedUntil>>

\* The reset comes before the second factor is looked at.
RightPassword(a) ==
  /\ verifying[a] > 0
  /\ verifying' = [verifying EXCEPT ![a] = @ - 1]
  /\ ResetGate(a)
  /\ UNCHANGED <<now, nextSweep>>

Registered(a) ==
  /\ ResetGate(a)
  /\ UNCHANGED <<now, verifying, nextSweep>>

\* Mutant: the timer drops every record.
SweepAllAttempts ==
  /\ now >= nextSweep
  /\ nextSweep' = now + SweepInterval
  /\ attempts' = [a \in Addresses |-> NoRecord]
  /\ UNCHANGED <<now, verifying, guesses, lockedUntil>>

\* A locked record stays until its lockout has passed.
SweepAttempts ==
  /\ now >= nextSweep
  /\ nextSweep' = now + SweepInterval
  /\ attempts' = [a \in Addresses |-> IF Passed(a) THEN NoRecord ELSE attempts[a]]
  /\ UNCHANGED <<now, verifying, guesses, lockedUntil>>

GateTick ==
  /\ Tick
  /\ UNCHANGED <<attempts, verifying, nextSweep, guesses, lockedUntil>>

GateStep ==
  \/ \E a \in Addresses : \/ Login(a)
                          \/ WrongPassword(a)
                          \/ RightPassword(a)
                          \/ Registered(a)
  \/ SweepAttempts

GateNext == GateStep \/ GateTick

GateSpec == GateInit /\ [][GateNext]_gateVars

-----------------------------------------------------------------------------

GateTypeOK ==
  /\ now \in Times
  /\ attempts \in [Addresses -> Records]
  /\ verifying \in [Addresses -> 0..MaxVerifying]
  /\ nextSweep \in 0..(MaxTime + SweepInterval)
  /\ guesses \in [Addresses -> Seq(Times)]
  /\ lockedUntil \in [Addresses -> 0..(MaxTime + Lockout)]

\* Once an address is locked out, no attempt of it reaches the password
\* before the lockout ends, unless a login or a registration from there
\* succeeded: neither the timer nor the attempts refused meanwhile end it
\* early (security.ts:153-219).
LockoutHolds ==
  [][\A a \in Addresses : Len(guesses'[a]) > Len(guesses[a]) => now >= lockedUntil[a]]_gateVars

\* A window starts with an attempt, not on the clock, so two of them may
\* touch: an address gets up to twice MaxAttempts guesses within a stretch
\* of one window, and never more (security.ts:177-199).
GuessesBounded ==
  \A a \in Addresses : \A i \in DOMAIN guesses[a] :
    i > 2 * MaxAttempts =>
      guesses[a][i] - guesses[a][i - 2 * MaxAttempts] > AttemptWindow

====
