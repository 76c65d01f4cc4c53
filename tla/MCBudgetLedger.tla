--------------------------- MODULE MCBudgetLedger ---------------------------
(* BudgetLedger on small instances; the calls are interchangeable. *)
EXTENDS BudgetLedger, TLC

CallSymmetry == Permutations(Call)
=============================================================================
