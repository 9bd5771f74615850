CONSTANTS
  v = v
  w = w
  Place <- MixPlace
  Token = {v, w}
  Transition <- MixTransition
  InArcs <- MixIn
  OutArcs <- MixOut
  Bindings <- MCBindings
  Deposits <- MixDeposits
  InitialMarking <- MixInitial
  Lane = {"svc", "cpu"}
  Capacity <- MixCapacity
  LaneOf <- MixLanes
  Blocking = {"pick"}
  ScopesOf <- MixScopes
  NoScope = "none"
  Arrivals <- MixArrivals
  NoArrival = NoArrival
  Client = {c1}
  Budget = 0
  HasJournal = TRUE
  JournalMayFail = TRUE
  MayViolate = {"pair"}
  ScopeMayRaise = {"pair"}
  PolicyMayDecline = TRUE
  MayStop = TRUE
  MaxFirings = 3
  MaxInjections = 1
SPECIFICATION Spec
INVARIANTS TypeOK LaneAccounting ReservedInputsUntouched
CHECK_DEADLOCK FALSE
