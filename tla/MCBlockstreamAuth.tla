------------------------- MODULE MCBlockstreamAuth -------------------------
(* A small instance of BlockstreamAuth: lifetimes below, at and above the  *)
(* thresholds of the expiry arithmetic.                                    *)
EXTENDS BlockstreamAuth

MCJwtLives == {-1, 2, 4}
MCOpaqueLives == {1, 5}
=============================================================================
