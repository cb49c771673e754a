SPECIFICATION Spec
CONSTANTS
  r1 = r1
  r2 = r2
  Methods = {"dayahead-optim"}
  Runners = {r1, r2}
  LastSlot = 2
  Until = 1
  Plans <- MCPlans
  Postgres = TRUE
  Budget <- MCBudget
SYMMETRY MCSymmetry
INVARIANTS TypeOK RowsScheduled PlanAgreed
CHECK_DEADLOCK FALSE
