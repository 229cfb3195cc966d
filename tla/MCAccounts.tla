----------------------------- MODULE MCAccounts -----------------------------
(* Small instances of Accounts; ids, names, emails and requests are alike. *)
EXTENDS Accounts, TLC

Symmetry == Permutations(Ids) \cup Permutations(Names) \cup Permutations(Requests)
=============================================================================
