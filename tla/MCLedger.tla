------------------------------ MODULE MCLedger ------------------------------
(* A small instance of Ledger: two users, one invoice and three requests,   *)
(* so that two payments and a tip, or a deposit and two takes, overlap.     *)
EXTENDS Ledger, TLC

MCAmounts == {1, 2}
MCTips == {0, 1}
=============================================================================
