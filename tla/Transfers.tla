----------------------------- MODULE Transfers -----------------------------
(***************************************************************************)
(* What a ledger promises about money, whoever handles it and in whatever  *)
(* order: a hand that is empty takes an amount that is there from a pot,   *)
(* and then gives the whole of it to one pot, or loses it.  Nothing else   *)
(* changes a pot, and no pot goes below zero.  The one exception is a hand *)
(* whose terms were changed while it had the money: it gives what they say *)
(* now.  Who changes terms, and when, is an input.                         *)
(***************************************************************************)
EXTENDS Integers

CONSTANTS
    Pots,   \* what money is kept in
    Hands   \* who moves it

VARIABLES
    pot,    \* how much each of the pots holds
    hand,   \* how much each of the hands has taken
    says,   \* input: what a hand's terms say that it is to give
    amended \* input: hands whose terms were changed since they were set

Init ==
    /\ pot \in [Pots -> Nat]
    /\ hand = [h \in Hands |-> 0]

Take(h, p, n) ==
    /\ hand[h] = 0
    /\ pot' = [pot EXCEPT ![p] = @ - n]
    /\ hand' = [hand EXCEPT ![h] = n]

Give(h, p) ==
    /\ says[h] = hand[h] \/ h \in amended
    /\ pot' = [pot EXCEPT ![p] = @ + says[h]]
    /\ hand' = [hand EXCEPT ![h] = 0]

Lose(h) ==
    /\ hand' = [hand EXCEPT ![h] = 0]
    /\ UNCHANGED pot

Next ==
    \E h \in Hands :
        \/ \E p \in Pots :
             \/ \E n \in 1..pot[p] : Take(h, p, n)
             \/ Give(h, p)
        \/ Lose(h)

Spec == Init /\ [][Next]_<<pot, hand>>
=============================================================================
