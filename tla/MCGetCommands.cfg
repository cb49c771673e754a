SPECIFICATION Spec
CONSTANTS
  Costs <- MCCosts
  Levels <- MCLevels
  MaxRows = 4
INVARIANTS ChargesOnlyWhenCheap MeetsOptimisation NeverLowersInBlock CheapestHoursCharge
CHECK_DEADLOCK FALSE
