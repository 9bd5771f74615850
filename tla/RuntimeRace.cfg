CONSTANTS
  v = v
  w = w
  Place <- RacePlace
  Token = {v}
  Transition <- RaceTransition
  InArcs <- RaceIn
  OutArcs <- RaceOut
  Bindings <- MCBindings
  Deposits <- RaceDeposits
  InitialMarking <- RaceInitial
  Lane = {"svc", "cpu"}
  Capacity <- RaceCapacity
  LaneOf <- RaceLanes
  Blocking = {"report"}
  ScopesOf <- RaceScopes
  NoScope = "none"
  Arrivals <- RaceArrivals
  NoArrival = NoArrival
  Client = {c1}
  Budget = 2
  HasJournal = TRUE
  JournalMayFail = FALSE
  MayViolate = {"work"}
  ScopeMayRaise = {}
  PolicyMayDecline = FALSE
  MayStop = TRUE
  MaxFirings = 4
  MaxInjections = 2
SPECIFICATION FairSpec
INVARIANTS NothingLeftToAdmit BudgetBoundsFailures
PROPERTIES StopTerminates ImplementsAtomicNet CommittedGainUnblocks
CHECK_DEADLOCK FALSE
