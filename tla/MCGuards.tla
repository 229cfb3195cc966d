---- MODULE MCGuards ----
(***************************************************************************)
(* What the server limits or tries again by the clock: the limiter of the  *)
(* web sockets' messages, the one of the logins, the breaker of operations *)
(* that are retried, and the passes that poll the price.  They share only  *)
(* the clock, so that one of them moves in each behaviour: interleaving    *)
(* them would only multiply their states.                                  *)
(***************************************************************************)
EXTENDS RateLimiter, LoginGate, RetryManager, PricePolls

VARIABLE subject    \* the part that moves

limiter == <<requests, lastCleanup, checks, verdict, accepted>>
gate == <<attempts, verifying, nextSweep, guesses, lockedUntil>>
retries == <<breaker, ops, refusalRetried, openUntil>>
polls == <<pollsDue, passes, begun, starts, rates>>

Init ==
  /\ LimiterInit
  /\ GateInit
  /\ RetryInit
  /\ PollsInit
  /\ subject \in {"limiter", "gate", "retries", "polls"}

Next ==
  /\ UNCHANGED subject
  /\ \/ subject = "limiter" /\ LimiterNext /\ UNCHANGED <<gate, retries, polls>>
     \/ subject = "gate" /\ GateNext /\ UNCHANGED <<limiter, retries, polls>>
     \/ subject = "retries" /\ BreakerNext /\ UNCHANGED <<limiter, gate, polls>>
     \/ subject = "polls" /\ PollsNext /\ UNCHANGED <<limiter, gate, retries>>

Spec == Init /\ [][Next]_<<now, limiter, gate, retries, polls, subject>>

====
