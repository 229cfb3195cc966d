--------------------------- MODULE MCEsploraCache ---------------------------
(* Small instances of EsploraCache: lives and delays shrunk to a few        *)
(* seconds, so that copies expire between and within runs.                  *)
EXTENDS EsploraCache, TLC

Symmetry == Permutations(Requests)

\* Two requests of a plain endpoint: for long enough that stale copies expire,
\* with a map that other keys fill, and with tokens (runs may overlap in all of
\* them); and one request at a time of a tip-gated endpoint whose data moves and
\* whose Redis commands may fail.
Plain == [gated |-> FALSE, redisFails |-> FALSE, mapFills |-> FALSE, useAuth |-> FALSE,
          jitter |-> {0}, clients |-> Requests, maxTime |-> 3, maxVer |-> 0]
Crowded == [Plain EXCEPT !.mapFills = TRUE, !.maxTime = 2]
WithToken == [Plain EXCEPT !.useAuth = TRUE, !.jitter = {0, 1}, !.maxTime = 2]
MovingGate == [gated |-> TRUE, redisFails |-> TRUE, mapFills |-> FALSE, useAuth |-> FALSE,
               jitter |-> {0}, clients |-> {CHOOSE r \in Requests : TRUE},
               maxTime |-> 1, maxVer |-> 1]
MCSetups == {Plain, Crowded, WithToken, MovingGate}

\* For the further configurations.
ShortPlain == {[Plain EXCEPT !.maxTime = 5]}
StillGate == {[Plain EXCEPT !.gated = TRUE, !.maxTime = 4]}
TwoAtTheGate == {[Plain EXCEPT !.gated = TRUE, !.maxTime = 4, !.maxVer = 1]}
=============================================================================
