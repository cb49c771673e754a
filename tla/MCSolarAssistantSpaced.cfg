SPECIFICATION Spec
CONSTANTS
  w1 = w1
  w2 = w2
  cb = cb
  Callback = cb
  Soc <- MCSoc
  Calls <- MCCalls
  HasParent = TRUE
  Workers <- OneWorker
  Commands <- SpacedCommands
  Devices <- SpacedDevices
  Unprompted <- AllFields
  MaxInFlight = 2
  Budget <- SpacedBudget
  Spaced = TRUE
INVARIANTS CommandApplied TargetIsDeviceLevel
CHECK_DEADLOCK FALSE
