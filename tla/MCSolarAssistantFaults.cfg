SPECIFICATION Spec
CONSTANTS
  w1 = w1
  w2 = w2
  cb = cb
  Callback = cb
  Soc <- MCSoc
  Calls <- MCCalls
  HasParent = TRUE
  Workers <- OneWorker
  Commands <- FaultCommands
  Devices <- FaultDevices
  Unprompted <- OnlySoc
  MaxInFlight = 2
  Budget <- FaultBudget
  Spaced = FALSE
INVARIANTS TypeOK MirrorAgrees Coherent
PROPERTY HandlerSpec
CHECK_DEADLOCK FALSE
