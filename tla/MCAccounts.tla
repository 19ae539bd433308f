----------------------------- MODULE MCAccounts -----------------------------
(* Two users and two requests in flight; as many failures as fill the small budgets. *)
EXTENDS Accounts, TLC

CONSTANTS ann, bob, h1, h2
Symmetry == Permutations({h1, h2})
=============================================================================
