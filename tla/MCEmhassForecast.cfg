SPECIFICATION Spec
CONSTANTS
  m1 = m1
  f1 = f1
  a1 = a1
  g1 = g1
  Runs = {m1, f1, a1}
  Kind <- MCKind
  Plans <- MCPlans
  Day = 8
  Tariffs <- MCTariffs
  Retries = 1
  Starts = 2
  Crashes = 1
  Until = 1
INVARIANTS TypeOK HorizonPaired OwnResult OwnPrices BuildsFromAnswer
CHECK_DEADLOCK FALSE
