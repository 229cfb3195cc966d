------------------------- MODULE MCEsploraInFlight -------------------------
(* Small instances of EsploraInFlight. Requests are interchangeable, and so *)
(* are keys; the liveness runs do without the symmetry.                     *)
EXTENDS EsploraInFlight, TLC

Symmetry == Permutations(Requests) \cup Permutations(Keys)
=============================================================================
