---- MODULE Clock ----
(***************************************************************************)
(* The clock that the modules of the request guards and of the users' data *)
(* read with Date.now(): one variable they share, so that they can be      *)
(* checked together.  MaxTime bounds the runs.                             *)
(***************************************************************************)
EXTENDS Naturals

CONSTANT MaxTime        \* the last instant of a run

ASSUME MaxTimeAssumption == MaxTime \in Nat

VARIABLE now

Times == 0..MaxTime

ClockInit == now = 0

\* Time passes; nothing bounds how long a step of the program may take.
Tick == now < MaxTime /\ now' = now + 1

====
