SPECIFICATION Spec
CHECK_DEADLOCK FALSE
CONSTANTS
  Source <- OneSource
  Policy <- Lossless
  Capacity <- Slots
  Kind <- PlainKinds
  NoItem = NoItem
  Transition = {"t"}
  Touches <- MCTouches
  Client = {"c"}
  JournalLacksLifecycle = FALSE
  SourcesMayFail = FALSE
  MayStop = FALSE
  MaxItems <- Two
  MaxRestarts = 0
  MaxFirings = 1
PROPERTIES IdleMeansApplied
