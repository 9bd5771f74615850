CONSTANTS
  v = v
  w = w
  Place <- RacePlace
  Token = {v}
  Transition <- RaceTransition
  InArcs <- RaceIn
  OutArcs <- RaceOut
  Bindings <- MCBindings
  Deposits <- RaceDeposits
  InitialMarking <- RaceInitial
  Lane = {"svc", "cpu"}
  Capacity <- RaceCapacity
  LaneOf <- RaceLanes
  Blocking = {"report"}
  ScopesOf <- RaceScopes
  NoScope = "none"
  Arrivals <- RaceArrivals
  NoArrival = NoArrival
  Client = {c1}
  Budget = 0
  HasJournal = TRUE
  JournalMayFail = FALSE
  MayViolate = {}
  ScopeMayRaise = {}
  PolicyMayDecline = FALSE
  MayStop = FALSE
  MaxFirings = 3
  MaxInjections = 0
SPECIFICATION Spec
INVARIANT TerminalOutcomeSettles
CHECK_DEADLOCK FALSE
