CONSTANTS
  v = v
  w = w
  Place <- MixPlace
  Token = {v, w}
  Transition <- MixTransition
  InArcs <- MixIn
  OutArcs <- MixOut
  Bindings <- MCBindings
  Deposits <- MixDeposits
  InitialMarking <- MixInitial
  Lane = {"svc", "cpu"}
  Capacity <- MixCapacity
  LaneOf <- MixLanes
  Blocking = {"pick"}
  ScopesOf <- MixScopes
  NoScope = "none"
  Arrivals <- MixArrivals
  NoArrival = NoArrival
  Client = {c1}
  Budget = 0
  HasJournal = TRUE
  JournalMayFail = FALSE
  MayViolate = {}
  ScopeMayRaise = {}
  PolicyMayDecline = FALSE
  MayStop = FALSE
  MaxFirings = 2
  MaxInjections = 0
  MaxBatch = 1
  MaxRestarts = 0
SPECIFICATION DurableSpec
PROPERTY ReplayTakesTheConsumed
CHECK_DEADLOCK FALSE
