CONSTANTS
  a = a
  b = b
  r = r
  t0 = t0
  t1 = t1
  Place <- MCPlace
  Token = {a, b, r, t0, t1}
  Transition = {"pair", "late", "audit", "feed", "stub"}
  InArcs <- MCInArcs
  OutArcs <- MCOutArcs
  Bindings <- MCBindings
  Deposits <- MCDeposits
  TransitionOrder <- MCTransitionOrder
  ArcOrder <- MCArcOrder
  ClockOf <- MCClockOf
  NoClock = "none"
  Misnamed = {"none"}
  ColorOf <- MCColorOf
  PredicateOf <- MCPredicateOf
  TextAt <- MCTextAt
  Evaluated <- MCEvaluated
  Correlates <- MCCorrelates
  TimerHolds <- MCTimerHolds
  GuardVerdict <- MCGuardVerdict
  InitialMarking <- MCInitial
  Accepts <- MCAccepts
  Templates <- MCTemplates
  Outputs <- MCOutputs
  Computed <- MCComputed
  CelError = "error"
  Handlerless = {"stub"}
  MayFail = {"pair", "audit"}
  MayRaise = {"late"}
  DepositModes = {"raise", "record_then_raise", "record_then_drop"}
  Priority <- MCPriority
  Budget = 2
  Arrivals <- MCArrivals
  MaxSteps = 4
  MaxCalls = 2
  Checks <- MCChecks
  CountsHold <- MCCountsHold
SPECIFICATION Spec
INVARIANTS OnlyAcceptedTokens EnablementIsExact TapeIsTheRun
PROPERTIES RunStopsForAReason ProbeAgreesWithFire ImplementsAtomicNet EntriesAreSeen ReportFollowsTheRun
CHECK_DEADLOCK FALSE
