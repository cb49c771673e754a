SPECIFICATION Spec
CONSTANTS
  w1 = w1
  w2 = w2
  cb = cb
  Callback = cb
  Soc <- MCSoc
  Calls <- MCCalls
  HasParent = FALSE
  Workers <- TwoWorkers
  Commands <- RetryCommands
  Devices <- RetryDevices
  Unprompted <- RetryFields
  MaxInFlight = 2
  Budget <- RetryBudget
  Spaced = FALSE
SYMMETRY Symmetry
INVARIANTS RevertSeesCharging CommandApplied
CHECK_DEADLOCK FALSE
