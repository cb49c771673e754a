SPECIFICATION FairSpec
CONSTANTS
  w1 = w1
  w2 = w2
  cb = cb
  Callback = cb
  Soc <- MCSoc
  Calls <- MCCalls
  HasParent = FALSE
  Workers <- OneWorker
  Commands <- SettlingCommands
  Devices <- SettlingDevices
  Unprompted <- RevertFields
  MaxInFlight = 1
  Budget <- SettlingBudget
  Spaced = FALSE
PROPERTIES ProcessReturns ChargingEnds
CHECK_DEADLOCK FALSE
