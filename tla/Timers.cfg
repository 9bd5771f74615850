CONSTANTS
  Place <- TimerPlace
  Token = {0, 1, 2}
  Transition <- TimerTransition
  InArcs <- TimerIn
  OutArcs <- TimerOut
  Bindings <- MCBindings
  Deposits <- TimerDeposits
  InitialMarking <- TimerInitial
  Lane = {"io"}
  Capacity <- TwoAtOnce
  LaneOf <- TimerLanes
  Blocking = {}
  ScopesOf <- NoScopes
  NoScope = "none"
  Arrivals <- TimerArrivals
  NoArrival = NoArrival
  Client = {c1}
  Budget = 0
  HasJournal = TRUE
  JournalMayFail = FALSE
  MayViolate = {"work"}
  ScopeMayRaise = {}
  PolicyMayDecline = FALSE
  MayStop = TRUE
  ClockOf <- MCClockOf
  MaturityOf <- MCMaturityOf
  MaxTime = 2
  MaxFirings = 3
  MaxInjections = 1
SPECIFICATION FairTimedSpec
INVARIANTS TimedTypeOK
PROPERTIES ClocksGoForward ImplementsTimedNet MatureBindingsFire TimerRests AcceptedWorkSettles
CHECK_DEADLOCK FALSE
