\* Five commands in any order. The operator stops after the last one.
CONSTANTS
  Budgets <- MCBudgets
  MaxCommands = 5
SPECIFICATION Spec
CHECK_DEADLOCK FALSE
INVARIANTS
  TypeOK
  GreenIffPrepared
  SeededMeansComplete
  BudgetHolds
