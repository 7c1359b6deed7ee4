--------------------------- MODULE MCBudgetMeter ---------------------------
(***************************************************************************)
(* Two processes that share a machine's meter, one with longer turns.      *)
(***************************************************************************)
EXTENDS BudgetMeter

CONSTANTS run1, run2, machine

MCMeterOf  == [p \in Process |-> machine]
MCEstimate == [p \in Process |-> IF p = run2 THEN 2 ELSE 1]
MCLimits   == {2, NoLimit}
=============================================================================
