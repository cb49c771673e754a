SPECIFICATION FairSpec
CONSTANTS
  r1 = r1
  r2 = r2
  Methods = {"dayahead-optim"}
  Runners = {r1}
  LastSlot = 2
  Until = 1
  Plans <- MCPlans
  Postgres = FALSE
  Budget <- MCFairBudget
PROPERTY CarriedOut
CHECK_DEADLOCK FALSE
