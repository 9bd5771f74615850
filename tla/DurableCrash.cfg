CONSTANTS
  v = v
  w = w
  Place <- HalfPlace
  Token = {v}
  Transition <- HalfTransition
  InArcs <- HalfIn
  OutArcs <- HalfOut
  Bindings <- MCBindings
  Deposits <- HalfDeposits
  InitialMarking <- HalfInitial
  Lane = {"svc"}
  Capacity <- HalfCapacity
  LaneOf <- HalfLanes
  Blocking = {"expire"}
  ScopesOf <- HalfScopes
  NoScope = "none"
  Arrivals <- BatchArrivals
  NoArrival = NoArrival
  Client = {c1}
  Budget = 0
  HasJournal = TRUE
  JournalMayFail = FALSE
  MayViolate = {"work"}
  ScopeMayRaise = {}
  PolicyMayDecline = FALSE
  MayStop = TRUE
  MaxFirings = 2
  MaxInjections = 1
  MaxBatch = 1
  MaxRestarts = 1
SPECIFICATION DurableSpec
INVARIANT ReplayIsCommitted
PROPERTY DurablyAtomic
CHECK_DEADLOCK FALSE
