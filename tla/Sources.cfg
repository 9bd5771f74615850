SPECIFICATION FairSpec
CHECK_DEADLOCK FALSE
CONSTANTS
  Source <- OneSource
  Policy <- Coalescing
  Capacity <- Slots
  Kind <- MCKinds
  NoItem = NoItem
  Transition = {"t"}
  Touches <- MCTouches
  Client = {"c"}
  JournalLacksLifecycle = FALSE
  SourcesMayFail = TRUE
  MayStop = TRUE
  MaxItems <- Three
  MaxRestarts = 1
  MaxFirings = 2
INVARIANTS NothingLostUncounted NoLostWakeup
PROPERTIES EveryItemIsHandled WaitIdleTerminates ImplementsChannel StopEndsArrivals
