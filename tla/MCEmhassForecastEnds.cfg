SPECIFICATION FairSpec
CONSTANTS
  m1 = m1
  f1 = f1
  a1 = a1
  g1 = g1
  Runs = {m1, f1, a1, g1}
  Kind <- MCKind
  Plans <- MCEndsPlans
  Day = 8
  Tariffs <- MCEndsTariffs
  Retries = 2
  Starts = 1
  Crashes = 1
  Until = 2
INVARIANT HorizonPaired
PROPERTY WorkflowsEnd
CHECK_DEADLOCK FALSE
