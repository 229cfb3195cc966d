------------------------ MODULE MCWebSocketManager ------------------------
(* Small instances of WebSocketManager.  The pool is small enough for both *)
(* load thresholds to be crossed.                                          *)
EXTENDS WebSocketManager, TLC

Symmetry == Permutations(Conns) \cup Permutations(Users)
=============================================================================
