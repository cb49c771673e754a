SPECIFICATION Spec
CONSTANTS
  w1 = w1
  w2 = w2
  cb = cb
  Callback = cb
  Soc <- MCSoc
  Calls <- MCCalls
  HasParent = FALSE
  Workers <- OneWorker
  Commands <- BelowCommands
  Devices <- BelowDevices
  Unprompted <- AllFields
  MaxInFlight = 2
  Budget <- BelowBudget
  Spaced = FALSE
INVARIANT NoPrematureRevert
CHECK_DEADLOCK FALSE
