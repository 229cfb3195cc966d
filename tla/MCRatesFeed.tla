---------------------------- MODULE MCRatesFeed ----------------------------
(* Small instances of RatesFeed: the two providers of the code and sockets *)
(* enough for one that was replaced to live on beside its successor.       *)
EXTENDS RatesFeed, TLC

Symmetry == Permutations(Sockets)
=============================================================================
