-------------------------- MODULE MCBudgetEnforcer --------------------------
(* Finite instances of BudgetEnforcer for TLC. *)
EXTENDS BudgetEnforcer

CONSTANTS c1, c2, r1, r2
=============================================================================
