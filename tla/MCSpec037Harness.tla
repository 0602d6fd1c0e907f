-------------------------- MODULE MCSpec037Harness --------------------------
(* The budgets that the model checker deploys: equal and unequal ones, around *)
(* the values that the scenarios ask for.                                     *)
EXTENDS Spec037Harness

B(s, r) == [search |-> s, report |-> r]
MCBudgets == {B(0, 0), B(1, 1), B(2, 2), B(4, 4), B(0, 4), B(4, 0), B(1, 4), B(4, 1)}
=============================================================================
