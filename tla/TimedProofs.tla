----------------------------- MODULE TimedProofs ------------------------------
(***************************************************************************)
(* Proofs about the Runtime with native timers, for every net, every set   *)
(* of timers and every length of time.                                     *)
(*                                                                         *)
(* The timer task changes nothing but clock places, which no firing takes  *)
(* from or deposits into, so the Runtime's own inductive invariant holds   *)
(* of the timed Runtime too.  What is added to it says how far behind real *)
(* time a clock is: it shows a time that has been, and one that the timer  *)
(* task has found due shows less than the time it will be given.           *)
(***************************************************************************)
EXTENDS TimedRuntime, RuntimeProofs

(* Once start() has run, every clock shows a time that has been.           *)
ClocksShowThePast ==
  \A p \in Clocks :
    \/ \E c \in 0..now : marking[p] = ClockToken(c)
    \/ status = "new" /\ marking[p] = NoTokens[p]

(* While the timer task waits for firings, the places it found due stay    *)
(* behind the time it read.                                                *)
DueStaysDue ==
  timer.pc = "advancing" =>
    /\ timer.due # {}
    /\ timer.stamp <= now
    /\ \A p \in timer.due : \E c \in 0..MaxTime :
         marking[p] = ClockToken(c) /\ c < timer.stamp

(* An active firing holds the tokens of a binding that is mature.          *)
HoldsAMatureBinding ==
  \A f \in Active : \E b \in Bindings[firing[f].t] :
    firing[f].take = b.take /\ RealTime!Mature(firing[f].t, b)

TimedIInv ==
  /\ IInv
  /\ TimedTypeOK
  /\ ClocksShowThePast
  /\ DueStaysDue
  /\ HoldsAMatureBinding

(* The step writes one time into some of the clocks.                       *)
WritesClocks(places, c) ==
  marking' = [p \in Place |-> IF p \in places THEN ClockToken(c) ELSE marking[p]]

-----------------------------------------------------------------------------
(* Clock tokens.                                                           *)

LEMMA ClockTokenFacts ==
  ASSUME NEW c \in 0..MaxTime
  PROVE  /\ c \in Token /\ ClockToken(c) \in Bag /\ ClockToken(c)[c] = 1
         /\ \A v \in Token : ClockToken(c)[v] > 0 => v = c
         /\ \A p \in Place : ClockToken(c) # NoTokens[p]
<1>1. c \in Token
  BY TimerAssumption
<1>2. /\ ClockToken(c) \in Bag /\ ClockToken(c)[c] = 1
      /\ \A v \in Token : ClockToken(c)[v] > 0 => v = c
  BY <1>1 DEF ClockToken, Bag
<1>3. ASSUME NEW p \in Place
      PROVE  ClockToken(c) # NoTokens[p]
  <2>1. NoTokens[p][c] = 0
    BY <1>1 DEF NoTokens
  <2>2. QED
    BY <1>2, <2>1
<1>4. QED
  BY <1>1, <1>2, <1>3

LEMMA ShowsTheToken ==
  ASSUME NEW p \in Place, NEW c \in 0..MaxTime, marking[p] = ClockToken(c)
  PROVE  Shows(p) = c
<1>1. marking[p][c] > 0
  BY ClockTokenFacts
<1>2. \A d \in 0..MaxTime : marking[p][d] > 0 => d = c
  BY ClockTokenFacts
<1>3. QED
  BY <1>1, <1>2 DEF Shows

LEMMA ClocksArePlaces ==
  /\ Clocks \subseteq Place
  /\ \A t \in Timed : t \in Transition /\ ClockOf[t] \in Clocks
  /\ \A t \in Transition : \A p \in Clocks : p \notin Consume(t) /\ p \notin Write(t)
BY TimerAssumption DEF Clocks

(* A clock place the timer task finds due shows less than the time.        *)
LEMMA DueIsBehind ==
  ASSUME TimedIInv, status = "running", NEW p \in DuePlaces
  PROVE  p \in Clocks /\ \E c \in 0..MaxTime : marking[p] = ClockToken(c) /\ c < now
<1>1. PICK t \in Timed : \E b \in Bindings[t] :
        Candidate(t, b) /\ ClockOf[t] = p /\ MaturityOf[t][b] <= now
  BY DEF DuePlaces, Maturities
<1>2. PICK b \in Bindings[t] :
        Candidate(t, b) /\ ClockOf[t] = p /\ MaturityOf[t][b] <= now
  BY <1>1
<1>3. p \in Clocks /\ p \in Place
  BY <1>2, ClocksArePlaces
<1>4. now \in 0..MaxTime /\ MaxTime \in Nat
  BY TimerAssumption DEF TimedIInv, TimedTypeOK
<1>5. PICK c \in 0..MaxTime : marking[p] = ClockToken(c)
  BY <1>3, <1>4 DEF TimedIInv, ClocksShowThePast
<1>6. Shows(p) = c
  BY <1>3, <1>5, ShowsTheToken
<1>7. MaturityOf[t][b] > c /\ MaturityOf[t][b] \in Nat
  BY <1>2, <1>6, TimerAssumption DEF Candidate
<1>8. c < now
  BY <1>2, <1>4, <1>7
<1>9. QED
  BY <1>3, <1>5, <1>8

-----------------------------------------------------------------------------
(* Steps of the Runtime.                                                   *)

LEMMA RuntimeStepIsNext ==
  ASSUME RuntimeStep
  PROVE  /\ Next
         /\ now' = now /\ timer' = timer /\ wake' = wake
         /\ timerChanged' \in {timerChanged, TRUE}
         /\ status = "new" => status' = "new"
         /\ turn = "loop" => timer.pc # "looping"
<1>1. CASE AdmitStep /\ Signals
  BY <1>1 DEF AdmitStep, Admit, ScopeResolverRaises, AdmitReturns, Admitting, Next, Signals
<1>2. ASSUME NEW scope \in Scope \ {NoScope}, NEW self \in Firing \cup {0},
             CancelScope(scope, self), Signals, ~TimerHasLoop
      PROVE  /\ Next
             /\ now' = now /\ timer' = timer /\ wake' = wake
             /\ timerChanged' \in {timerChanged, TRUE}
             /\ status' = status /\ timer.pc # "looping"
  BY <1>2 DEF CancelScope, Next, Signals, TimerHasLoop
<1>3. ASSUME NEW f \in Firing, TaskStep(f), UNCHANGED timing, ~TimerHasLoop
      PROVE  /\ Next
             /\ now' = now /\ timer' = timer /\ wake' = wake
             /\ timerChanged' = timerChanged
             /\ status' = status /\ timer.pc # "looping"
  <2>1. status' = status
    BY <1>3 DEF TaskStep, HandlerStarts, HandlerEnds, Complete, HandlerFails,
         ContractViolated, CancelDelivered, SettleRaises, CancelSwallowed,
         NeverStarted, LateWorkerEnds, RollBack, Release
  <2>2. QED
    BY <1>3, <2>1 DEF Next, timing, TimerHasLoop
<1>4. ASSUME NEW c \in Client, ClientStep(c), UNCHANGED timing, ~TimerHasLoop
      PROVE  /\ Next
             /\ now' = now /\ timer' = timer /\ wake' = wake
             /\ timerChanged' = timerChanged
             /\ status' = status /\ timer.pc # "looping"
  <2>1. status' = status
    BY <1>4 DEF ClientStep, InjectNow, InjectNowRaises, InjectWaits, InjectResumes,
         InjectRaises, Apply
  <2>2. QED
    BY <1>4, <2>1 DEF Next, timing, TimerHasLoop
<1>5. CASE Stop /\ UNCHANGED timing /\ ~TimerHasLoop
  BY <1>5 DEF Stop, Next, timing, TimerHasLoop
<1>6. CASE StopReturns /\ Signals /\ ~TimerHasLoop
  BY <1>6 DEF StopReturns, Next, Signals, TimerHasLoop
<1>7. QED
  BY <1>1, <1>2, <1>3, <1>4, <1>5, <1>6 DEF RuntimeStep

(* The Runtime's own steps leave the clocks alone.                         *)
LEMMA NextKeepsClocks ==
  ASSUME IInv, [Next]_vars, NEW p \in Clocks
  PROVE  marking'[p] = marking[p]
<1>1. TypeOK /\ p \in Place /\ \A t \in Transition : p \notin Consume(t) /\ p \notin Write(t)
  BY ClocksArePlaces DEF IInv
<1>2. ASSUME NEW t \in Transition, NEW b \in Bindings[t], Enables(b, marking)
      PROVE  Remove(marking, b.take)[p] = marking[p]
  BY <1>1, <1>2, ReserveTakesItsOwn
<1>3. ASSUME NEW f \in Firing, NEW d \in Deposits[firing[f].t], Complete(f, d)
      PROVE  marking'[p] = marking[p]
  <2>1. firing[f].t \in Transition
    BY <1>1 DEF TypeOK, Reservation
  <2>2. \A v \in Token : d[p][v] = 0
    BY <1>1, <2>1, NetAssumption DEF Marking, Bag
  <2>3. QED
    BY <1>1, <1>3, <2>2 DEF Complete, Add, TypeOK, Marking, Bag
<1>4. ASSUME NEW f \in Firing, RollsBack(f)
      PROVE  marking'[p] = marking[p]
  <2>1. firing[f].t \in Transition
    BY <1>1 DEF TypeOK, Reservation
  <2>2. QED
    BY <1>1, <1>4, <2>1
       DEF RollsBack, HandlerFails, ContractViolated, CancelDelivered, RollBack
<1>5. ASSUME NEW a \in Arrivals, Applies(a)
      PROVE  marking'[p] = marking[p]
  <2>1. p \notin a.places
    BY TimerAssumption
  <2>2. QED
    BY <1>1, <1>5, <2>1 DEF Applies, Apply, Inject
<1>6. ASSUME NEW t \in Transition, NEW b \in Bindings[t],
             (\E scope \in ScopesOf[t] : Admit(t, b, scope)) \/ ScopeResolverRaises(t, b)
      PROVE  marking'[p] = marking[p]
  BY <1>2, <1>6 DEF Admit, ScopeResolverRaises
<1>7. QED
  BY <1>1, <1>3, <1>4, <1>5, <1>6, StepKinds, QuietIsPhasesOnly

-----------------------------------------------------------------------------
(* Maturity.                                                               *)

(* Only a mature binding is enabled: the clock shows no more than the time *)
(* and the condition is false of every clock before the maturity.          *)
LEMMA EnabledIsMature ==
  ASSUME TimedIInv, status = "running", NEW t \in Transition, NEW b \in Bindings[t],
         Enables(b, marking)
  PROVE  RealTime!Mature(t, b)
<1> SUFFICES ASSUME t \in Timed PROVE MaturityOf[t][b] <= now
  BY TimerAssumption DEF RealTime!Mature
<1>1. ClockOf[t] \in Clocks /\ ClockOf[t] \in Place
  BY ClocksArePlaces
<1>2. now \in 0..MaxTime /\ MaxTime \in Nat
  BY TimerAssumption DEF TimedIInv, TimedTypeOK
<1>3. PICK c \in 0..now : marking[ClockOf[t]] = ClockToken(c)
  BY <1>1 DEF TimedIInv, ClocksShowThePast
<1>4. c \in 0..MaxTime
  BY <1>2
<1>5. marking[ClockOf[t]][c] = 1 /\ c \in Token
  BY <1>3, <1>4, ClockTokenFacts
<1>6. c \notin b.block[ClockOf[t]]
  BY <1>1, <1>5 DEF Enables
<1>7. ~(c < MaturityOf[t][b]) /\ MaturityOf[t][b] \in Nat
  BY <1>4, <1>6, TimerAssumption
<1>8. QED
  BY <1>2, <1>7

LEMMA StepKeepsMature ==
  ASSUME TimedIInv, [Next]_vars, now' = now
  PROVE  HoldsAMatureBinding'
<1>1. IInv /\ TypeOK /\ HoldsAMatureBinding
  BY DEF TimedIInv, IInv
<1> DEFINE Keeps(g) == /\ g \in Active
                       /\ firing'[g].t = firing[g].t
                       /\ firing'[g].take = firing[g].take
<1>2. ASSUME \A g \in Active' : Keeps(g)
      PROVE  HoldsAMatureBinding'
  BY <1>1, <1>2 DEF HoldsAMatureBinding, RealTime!Mature
<1>3. CASE PhasesOnly
  BY <1>1, <1>2, <1>3, PhasesOnlyKeeps DEF PhasesOnly, Active
<1>4. ASSUME NEW t \in Transition, NEW b \in Bindings[t], NEW scope \in ScopesOf[t],
             Admit(t, b, scope)
      PROVE  HoldsAMatureBinding'
  <2>1. attempt \in Firing /\ Enables(b, marking) /\ status = "running"
    BY <1>4 DEF Admit, Admitting
  <2>2. /\ firing'[attempt].t = t /\ firing'[attempt].take = b.take
        /\ \A g \in Firing \ {attempt} : firing'[g] = firing[g]
    BY <1>1, <1>4, <2>1 DEF Admit, TypeOK, Reserved
  <2>3. RealTime!Mature(t, b)
    BY <2>1, EnabledIsMature
  <2>4. \A g \in Active' \ {attempt} : g \in Active /\ firing'[g] = firing[g]
    BY <2>2 DEF Active
  <2>5. QED
    BY <1>1, <2>2, <2>3, <2>4 DEF HoldsAMatureBinding, RealTime!Mature
<1>5. ASSUME NEW t \in Transition, NEW b \in Bindings[t], ScopeResolverRaises(t, b)
      PROVE  HoldsAMatureBinding'
  <2>1. /\ attempt \in Firing /\ firing'[attempt].phase = "orphaned"
        /\ \A g \in Firing \ {attempt} : firing'[g] = firing[g]
    BY <1>1, <1>5 DEF ScopeResolverRaises, TypeOK, Reserved
  <2>2. \A g \in Active' : Keeps(g)
    BY <2>1 DEF Active, ActivePhase
  <2>3. QED
    BY <1>2, <2>2
<1>6. ASSUME NEW f \in Active, NEW phase \in {"completed", "failed"}, Release(f, phase)
      PROVE  HoldsAMatureBinding'
  BY <1>1, <1>2, <1>6, ReleaseKeeps
<1>7. ASSUME NEW f \in Firing,
             RollsBack(f) \/ \E d \in Deposits[firing[f].t] : Complete(f, d)
      PROVE  HoldsAMatureBinding'
  <2>1. f \in Active /\ (Release(f, "failed") \/ Release(f, "completed"))
    BY <1>7 DEF RollsBack, HandlerFails, ContractViolated, CancelDelivered,
                RollBack, Complete, Active, ActivePhase
  <2>2. QED
    BY <1>6, <2>1
<1>8. QED
  BY <1>1, <1>3, <1>4, <1>5, <1>7, StepKinds, QuietIsPhasesOnly, AppliesIsPhasesOnly

-----------------------------------------------------------------------------
(* Writing the clocks.                                                     *)

LEMMA ClockWriteKeepsIInv ==
  ASSUME IInv, NEW places \in SUBSET Clocks, NEW c \in 0..MaxTime,
         WritesClocks(places, c), UNCHANGED <<firing, attempt, laneUse>>, TypeOK'
  PROVE  IInv'
<1>1. PhasesOnly
  BY DEF PhasesOnly, IInv, TypeOK
<1>2. Active' = Active
  BY <1>1, PhasesOnlyKeeps
<1>3. ASSUME NEW f \in Active, NEW p \in Consume(firing[f].t)
      PROVE  marking'[p] = marking[p]
  <2>1. firing[f].t \in Transition
    BY DEF Active, IInv, TypeOK, Reservation
  <2>2. p \in Place /\ p \notin places
    BY <2>1, ConsumedArePlaces, ClocksArePlaces
  <2>3. QED
    BY <2>2 DEF WritesClocks
<1>4. ReservedInputsUntouched'
  BY <1>2, <1>3 DEF IInv, ReservedInputsUntouched
<1>5. QED
  BY <1>1, <1>4, PhasesOnlyKeeps DEF IInv

LEMMA ClockWriteTyped ==
  ASSUME TypeOK, NEW places \in SUBSET Clocks, NEW c \in 0..MaxTime,
         WritesClocks(places, c)
  PROVE  marking' \in Marking
BY ClockTokenFacts DEF TypeOK, WritesClocks, Marking

LEMMA ClockWriteKeepsMature ==
  ASSUME HoldsAMatureBinding, UNCHANGED <<firing, now>>
  PROVE  HoldsAMatureBinding'
BY DEF HoldsAMatureBinding, Active, RealTime!Mature

(* The net that the refinement speaks of does not see it.                  *)
LEMMA ClockWriteIsHidden ==
  ASSUME IInv, IInv', NEW places \in SUBSET Clocks, NEW c \in 0..MaxTime,
         WritesClocks(places, c), UNCHANGED <<firing, attempt, laneUse>>
  PROVE  HideClocks(Committed)' = HideClocks(Committed)
<1>1. PhasesOnly
  BY DEF PhasesOnly, IInv, TypeOK
<1>2. ASSUME NEW p \in Place, p \notin Clocks
      PROVE  Committed'[p] = Committed[p]
  <2>1. marking'[p] = marking[p]
    BY <1>2 DEF WritesClocks
  <2>2. QED
    BY <1>1, <2>1, PhasesOnlyCommitted
<1>3. QED
  BY <1>2 DEF HideClocks

(* What Advance does, whoever calls it.                                    *)
LEMMA AdvanceKeeps ==
  ASSUME TimedIInv, NEW places \in SUBSET Clocks, NEW stamp \in 0..now,
         Advance(places, stamp), timerChanged' \in BOOLEAN, status = "running"
  PROVE  TimedIInv'
<1>1. now \in 0..MaxTime /\ MaxTime \in Nat /\ stamp \in 0..MaxTime /\ 0 \in 0..MaxTime
  BY TimerAssumption DEF TimedIInv, TimedTypeOK
<1>2. IInv /\ TypeOK /\ TimedTypeOK
  BY DEF TimedIInv, TimedTypeOK
<1>3. WritesClocks(places, stamp)
  BY DEF Advance, WritesClocks
<1>4. TypeOK'
  BY <1>1, <1>2, <1>3, ClockWriteTyped
     DEF Advance, TypeOK, UnblockFor, admission, arrivals
<1>5. IInv'
  BY <1>1, <1>2, <1>3, <1>4, ClockWriteKeepsIInv DEF Advance, admission
<1>6. now' = now /\ status' = status /\ firing' = firing
      /\ timer' = [pc |-> "looping", due |-> {}, stamp |-> 0] /\ wake' = wake
  BY DEF Advance
<1>7. \A p \in Clocks : marking'[p] = IF p \in places THEN ClockToken(stamp)
                                      ELSE marking[p]
  BY <1>3, ClocksArePlaces DEF WritesClocks
<1>8. ClocksShowThePast'
  BY <1>6, <1>7 DEF TimedIInv, ClocksShowThePast
<1>9. TimedTypeOK'
  BY <1>1, <1>2, <1>4, <1>6, <1>7 DEF TimedTypeOK, TimerTask
<1>10. DueStaysDue'
  BY <1>6 DEF DueStaysDue
<1>11. QED
  BY <1>5, <1>6, <1>8, <1>9, <1>10, ClockWriteKeepsMature DEF TimedIInv

-----------------------------------------------------------------------------
(* The inductive invariant.                                                *)

LEMMA InitTimedIInv == TimedInit => TimedIInv
<1> SUFFICES ASSUME TimedInit PROVE TimedIInv
  OBVIOUS
<1>1. IInv /\ TypeOK
  BY InitIInv DEF TimedInit, IInv
<1>2. Active = {}
  BY DEF TimedInit, Init, Fresh, Active, ActivePhase, Unused
<1>3. /\ status = "new" /\ marking = InitialMarking /\ now = 0 /\ wake = NoWake
      /\ timer = [pc |-> "none", due |-> {}, stamp |-> 0] /\ timerChanged = FALSE
  BY DEF TimedInit, Init, Fresh
<1>4. MaxTime \in Nat /\ 0 \in 0..MaxTime
  BY TimerAssumption
<1>5. \A p \in Clocks : marking[p] = NoTokens[p] \/ marking[p] = ClockToken(0)
  BY <1>3, TimerAssumption
<1>6. TimedTypeOK
  <2>1. wake \in Nat
    BY <1>3, <1>4 DEF NoWake
  <2>2. timerChanged \in BOOLEAN /\ now \in 0..MaxTime
    BY <1>3, <1>4
  <2>3. timer \in TimerTask
    BY <1>3, <1>4 DEF TimerTask
  <2>4. QED
    BY <1>1, <1>4, <1>5, <2>1, <2>2, <2>3 DEF TimedTypeOK
<1>7. ClocksShowThePast
  BY <1>3, <1>5 DEF ClocksShowThePast
<1>8. DueStaysDue /\ HoldsAMatureBinding
  BY <1>2, <1>3 DEF DueStaysDue, HoldsAMatureBinding
<1>9. QED
  BY <1>1, <1>6, <1>7, <1>8 DEF TimedIInv

LEMMA StartKeepsTimedIInv ==
  ASSUME TimedIInv, TimedStart
  PROVE  TimedIInv'
<1> DEFINE Empty == {p \in Clocks : marking[p] = NoTokens[p]}
<1>1. now \in 0..MaxTime /\ MaxTime \in Nat
  BY TimerAssumption DEF TimedIInv, TimedTypeOK
<1>2. IInv /\ TypeOK /\ TimedTypeOK
  BY DEF TimedIInv, TimedTypeOK
<1>3. WritesClocks(Empty, now)
  BY DEF TimedStart, WritesClocks
<1>4. TypeOK'
  <2>1. marking' \in Marking
    BY <1>1, <1>2, <1>3, ClockWriteTyped
  <2>2. QED
    BY <1>2, <2>1 DEF TimedStart, TypeOK, admission, budgets, arrivals
<1>5. IInv'
  BY <1>1, <1>2, <1>3, <1>4, ClockWriteKeepsIInv DEF TimedStart, admission
<1>6. now' = now /\ wake' = wake /\ timerChanged' = timerChanged /\ firing' = firing
      /\ timer' = [timer EXCEPT !.pc = "scanning"]
  BY DEF TimedStart
<1>7. \A p \in Clocks : marking'[p] = IF p \in Empty THEN ClockToken(now)
                                      ELSE marking[p]
  BY <1>3, ClocksArePlaces DEF WritesClocks
<1>8. ClocksShowThePast'
  BY <1>1, <1>6, <1>7 DEF TimedIInv, ClocksShowThePast
<1>9. TimedTypeOK'
  BY <1>1, <1>2, <1>4, <1>6, <1>7 DEF TimedTypeOK, TimerTask
<1>10. DueStaysDue'
  BY <1>2, <1>6 DEF DueStaysDue, TimedTypeOK
<1>11. QED
  BY <1>5, <1>6, <1>8, <1>9, <1>10, ClockWriteKeepsMature DEF TimedIInv

(* A step of the timer task or of time that leaves the Runtime alone.      *)
LEMMA TimingKeepsTimedIInv ==
  ASSUME TimedIInv, UNCHANGED vars, now' \in now..MaxTime,
         timer' \in TimerTask,
         wake' \in Nat, timerChanged' \in BOOLEAN,
         DueStaysDue'
  PROVE  TimedIInv'
<1>1. now \in 0..MaxTime /\ MaxTime \in Nat /\ now' \in 0..MaxTime /\ now <= now'
  BY TimerAssumption DEF TimedIInv, TimedTypeOK
<1>2. IInv /\ TypeOK /\ TimedTypeOK
  BY DEF TimedIInv, TimedTypeOK
<1>3. IInv' /\ TypeOK'
  BY <1>2, StepIInv DEF IInv
<1>4. /\ marking' = marking /\ status' = status /\ firing' = firing
  BY DEF vars
<1>5. TimedTypeOK'
  BY <1>1, <1>2, <1>3, <1>4 DEF TimedTypeOK
<1>6. ClocksShowThePast'
  BY <1>1, <1>4 DEF TimedIInv, ClocksShowThePast
<1>7. HoldsAMatureBinding'
  <2>1. Active' = Active
    BY <1>4 DEF Active
  <2>2. ASSUME NEW t \in Transition, NEW b \in Bindings[t], RealTime!Mature(t, b)
        PROVE  RealTime!Mature(t, b)'
    BY <1>1, <2>2, TimerAssumption DEF RealTime!Mature
  <2>3. \A f \in Active : firing[f].t \in Transition
    BY <1>2 DEF Active, TypeOK, Reservation
  <2>4. QED
    BY <1>4, <2>1, <2>2, <2>3 DEF TimedIInv, HoldsAMatureBinding
<1>8. QED
  BY <1>3, <1>5, <1>6, <1>7 DEF TimedIInv

LEMMA RuntimeStepKeepsTimedIInv ==
  ASSUME TimedIInv, RuntimeStep
  PROVE  TimedIInv'
<1>1. Next /\ now' = now /\ timer' = timer /\ wake' = wake
      /\ timerChanged' \in {timerChanged, TRUE} /\ (status = "new" => status' = "new")
  BY RuntimeStepIsNext
<1>2. IInv /\ TimedTypeOK
  BY DEF TimedIInv
<1>3. IInv' /\ TypeOK'
  BY <1>1, <1>2, StepIInv DEF IInv
<1>4. \A p \in Clocks : marking'[p] = marking[p]
  BY <1>1, <1>2, NextKeepsClocks
<1>5. TimedTypeOK'
  BY <1>1, <1>2, <1>3, <1>4 DEF TimedTypeOK
<1>6. ClocksShowThePast'
  BY <1>1, <1>4 DEF TimedIInv, ClocksShowThePast
<1>7. DueStaysDue'
  BY <1>1, <1>2, <1>4 DEF TimedIInv, DueStaysDue, TimedTypeOK, TimerTask
<1>8. HoldsAMatureBinding'
  BY <1>1, StepKeepsMature
<1>9. QED
  BY <1>3, <1>5, <1>6, <1>7, <1>8 DEF TimedIInv

LEMMA DueBounds ==
  ASSUME TimedIInv, status = "running"
  PROVE  DuePlaces \in SUBSET Clocks
BY DueIsBehind

LEMMA TimerStepKeepsTimedIInv ==
  ASSUME TimedIInv, TimerStep
  PROVE  TimedIInv'
<1>1. TimedTypeOK /\ now \in 0..MaxTime /\ MaxTime \in Nat /\ status = "running"
  BY TimerAssumption DEF TimedIInv, TimedTypeOK, TimerStep, TimerAdvances,
     TimerWaitsForFirings, TimerResumes, TimerSleeps, TimerWakes, TimerRuns
<1>2. DuePlaces \in SUBSET Clocks
  BY <1>1, DueBounds
<1>3. CASE TimerAdvances
  <2>1. now \in 0..now
    BY <1>1
  <2>2. Advance(DuePlaces, now) /\ timerChanged' \in BOOLEAN
    BY <1>3 DEF TimerAdvances
  <2>3. QED
    BY <1>1, <1>2, <2>1, <2>2, AdvanceKeeps
<1>4. CASE TimerWaitsForFirings
  <2>1. /\ UNCHANGED vars /\ now' = now /\ wake' = wake /\ timerChanged' = FALSE
        /\ timer' = [pc |-> "advancing", due |-> DuePlaces, stamp |-> now]
        /\ DuePlaces # {}
    BY <1>4 DEF TimerWaitsForFirings
  <2>2. DueStaysDue'
    <3>1. \A p \in DuePlaces : \E c \in 0..MaxTime :
            marking'[p] = ClockToken(c) /\ c < now
      BY <1>1, <2>1, DueIsBehind DEF vars
    <3>2. timer'.due = DuePlaces /\ timer'.stamp = now
      BY <2>1
    <3>3. QED
      BY <1>1, <2>1, <3>1, <3>2 DEF DueStaysDue
  <2>3. timer' \in TimerTask
    BY <1>1, <1>2, <2>1 DEF TimerTask
  <2>4. now' \in now..MaxTime /\ wake' \in Nat
    BY <1>1, <2>1 DEF TimedTypeOK
  <2>5. timerChanged' \in BOOLEAN
    BY <1>4 DEF TimerWaitsForFirings
  <2>6. QED
    BY <2>1, <2>2, <2>3, <2>4, <2>5, TimingKeepsTimedIInv
<1>5. CASE TimerResumes
  <2>1. /\ timer.due \in SUBSET Clocks /\ timer.stamp \in 0..now
        /\ timerChanged' \in BOOLEAN
    BY <1>1, <1>5
       DEF TimedTypeOK, TimerTask, TimedIInv, DueStaysDue, TimerResumes, TimerRuns
  <2>2. QED
    BY <1>1, <1>5, <2>1, AdvanceKeeps DEF TimerResumes
<1>6. CASE TimerSleeps
  <2>1. /\ UNCHANGED vars /\ now' = now /\ wake' \in NextWake /\ timerChanged' = FALSE
        /\ timer' = [timer EXCEPT !.pc = "asleep"]
    BY <1>6 DEF TimerSleeps
  <2>2. \A m \in Maturities : m.at \in Nat
    BY TimerAssumption DEF Maturities
  <2>3. wake' \in Nat
    BY <1>1, <2>1, <2>2 DEF NextWake, NoWake
  <2>4. now' \in now..MaxTime /\ DueStaysDue'
    BY <1>1, <2>1 DEF DueStaysDue, TimedTypeOK
  <2>5. timerChanged' \in BOOLEAN
    BY <1>6 DEF TimerSleeps
  <2>6. timer' \in TimerTask
    BY <1>1, <2>1 DEF TimedTypeOK, TimerTask
  <2>7. QED
    BY <2>1, <2>3, <2>4, <2>5, <2>6, TimingKeepsTimedIInv
<1>7. CASE TimerWakes
  <2>1. /\ UNCHANGED vars /\ now' = now /\ wake' = NoWake /\ timerChanged' = timerChanged
        /\ timer' = [timer EXCEPT !.pc = "scanning"]
    BY <1>7 DEF TimerWakes
  <2>2. /\ now' \in now..MaxTime /\ DueStaysDue' /\ timerChanged' \in BOOLEAN
        /\ wake' \in Nat
    BY <1>1, <2>1 DEF DueStaysDue, TimedTypeOK, NoWake
  <2>3. timer' \in TimerTask
    BY <1>1, <2>1 DEF TimedTypeOK, TimerTask
  <2>4. QED
    BY <2>1, <2>2, <2>3, TimingKeepsTimedIInv
<1>8. QED
  BY <1>3, <1>4, <1>5, <1>6, <1>7 DEF TimerStep

LEMMA StepTimedIInv == TimedIInv /\ [TimedNext]_timedVars => TimedIInv'
<1> SUFFICES ASSUME TimedIInv, [TimedNext]_timedVars PROVE TimedIInv'
  OBVIOUS
<1>1. TimedTypeOK /\ now \in 0..MaxTime /\ MaxTime \in Nat
  BY TimerAssumption DEF TimedIInv, TimedTypeOK
<1>2. CASE Tick
  <2>1. /\ UNCHANGED vars /\ now' = now + 1 /\ now < MaxTime
        /\ timer' = timer /\ wake' = wake /\ timerChanged' = timerChanged
    BY <1>2 DEF Tick
  <2>2. /\ now' \in now..MaxTime /\ wake' \in Nat /\ timerChanged' \in BOOLEAN
    BY <1>1, <2>1 DEF TimedTypeOK
  <2>3. DueStaysDue'
    BY <1>1, <2>1 DEF TimedIInv, DueStaysDue, TimedTypeOK, TimerTask, vars
  <2>4. QED
    BY <1>1, <2>1, <2>2, <2>3, TimingKeepsTimedIInv DEF TimedTypeOK
<1>3. CASE TimerCancelled \/ UNCHANGED timedVars
  <2>1. /\ UNCHANGED vars /\ now' = now /\ wake' = wake /\ timerChanged' = timerChanged
        /\ timer' = timer \/ timer' = [timer EXCEPT !.pc = "ended"]
    BY <1>3 DEF TimerCancelled, timedVars, timing
  <2>2. /\ now' \in now..MaxTime /\ wake' \in Nat /\ timerChanged' \in BOOLEAN
    BY <1>1, <2>1 DEF TimedTypeOK
  <2>3. timer' \in TimerTask
    BY <1>1, <2>1 DEF TimedTypeOK, TimerTask
  <2>4. DueStaysDue'
    BY <1>1, <2>1 DEF TimedIInv, DueStaysDue, TimedTypeOK, TimerTask, vars
  <2>5. QED
    BY <2>1, <2>2, <2>3, <2>4, TimingKeepsTimedIInv
<1>4. QED
  BY <1>2, <1>3, StartKeepsTimedIInv, TimerStepKeepsTimedIInv,
     RuntimeStepKeepsTimedIInv DEF TimedNext

LEMMA TimedIInvHolds == TimedSpec => []TimedIInv
BY InitTimedIInv, StepTimedIInv, PTL DEF TimedSpec

(* The Runtime stays well typed under its timers, and a clock place never  *)
(* holds more than the one token _advance_timer_clocks replaces.           *)
THEOREM TimedTypeCorrect == TimedSpec => []TimedTypeOK
<1>1. TimedIInv => TimedTypeOK
  BY DEF TimedIInv
<1>2. QED
  BY <1>1, TimedIInvHolds, PTL

-----------------------------------------------------------------------------
(* Clocks go forward.                                                      *)

(* The action ClocksGoForward is made of.                                  *)
GoesForward ==
  /\ \A p \in Clocks : marking[p] # NoTokens[p] /\ marking'[p] # marking[p]
       => \E c, d \in 0..MaxTime :
            /\ marking[p] = ClockToken(c) /\ marking'[p] = ClockToken(d)
            /\ c < d
  /\ (turn = "loop" /\ turn' = "admit" /\ timer'.pc = "looping")
       => \E p \in Clocks : marking'[p] # marking[p]

LEMMA AdvanceGoesForward ==
  ASSUME TimedIInv, NEW places \in SUBSET Clocks, places # {},
         NEW stamp \in 0..MaxTime, Advance(places, stamp),
         \A p \in places : \E c \in 0..MaxTime : marking[p] = ClockToken(c) /\ c < stamp
  PROVE  GoesForward
<1>1. \A p \in Clocks : marking'[p] = IF p \in places THEN ClockToken(stamp)
                                      ELSE marking[p]
  BY ClocksArePlaces DEF Advance
<1>2. ASSUME NEW p \in places
      PROVE  marking'[p] # marking[p]
  <2>1. PICK c \in 0..MaxTime : marking[p] = ClockToken(c) /\ c < stamp
    OBVIOUS
  <2>2. ClockToken(stamp) # ClockToken(c)
    BY <2>1, ClockTokenFacts, TimerAssumption
  <2>3. QED
    BY <1>1, <2>1, <2>2
<1>3. QED
  BY <1>1, <1>2 DEF GoesForward

LEMMA StepGoesForward ==
  ASSUME TimedIInv, [TimedNext]_timedVars
  PROVE  GoesForward
<1>1. now \in 0..MaxTime /\ IInv /\ TimedTypeOK
  BY DEF TimedIInv, TimedTypeOK
<1>2. CASE TimedStart
  <2>1. timer'.pc # "looping"
    BY <1>1, <1>2 DEF TimedStart, TimedTypeOK
  <2>2. \A p \in Clocks : marking'[p] # marking[p] => marking[p] = NoTokens[p]
    BY <1>2, ClocksArePlaces DEF TimedStart
  <2>3. QED
    BY <2>1, <2>2 DEF GoesForward
<1>3. CASE TimerAdvances
  <2>1. status = "running" /\ DuePlaces # {} /\ Advance(DuePlaces, now)
    BY <1>3 DEF TimerAdvances, TimerRuns
  <2>2. QED
    BY <1>1, <2>1, DueBounds, DueIsBehind, AdvanceGoesForward
<1>4. CASE TimerResumes
  <2>1. timer.pc = "advancing" /\ Advance(timer.due, timer.stamp)
    BY <1>4 DEF TimerResumes, TimerRuns
  <2>2. timer.due \in SUBSET Clocks /\ timer.stamp \in 0..MaxTime
    BY <1>1 DEF TimedTypeOK, TimerTask
  <2>3. /\ timer.due # {}
        /\ \A p \in timer.due : \E c \in 0..MaxTime :
             marking[p] = ClockToken(c) /\ c < timer.stamp
    BY <2>1 DEF TimedIInv, DueStaysDue
  <2>4. QED
    BY <2>1, <2>2, <2>3, AdvanceGoesForward
<1>5. CASE UNCHANGED vars
  BY <1>5 DEF GoesForward, vars
<1>6. CASE RuntimeStep
  <2>1. Next /\ timer' = timer /\ (turn = "loop" => timer.pc # "looping")
    BY <1>6, RuntimeStepIsNext
  <2>2. \A p \in Clocks : marking'[p] = marking[p]
    BY <1>1, <2>1, NextKeepsClocks
  <2>3. QED
    BY <2>1, <2>2 DEF GoesForward
<1>7. QED
  BY <1>2, <1>3, <1>4, <1>5, <1>6 DEF TimedNext, TimerStep, Tick, TimerCancelled,
     TimerWaitsForFirings, TimerSleeps, TimerWakes, timedVars

(* A clock never goes back, although the timer task writes a time it read  *)
(* before it waited for the firings that read the clock; and it hands over *)
(* to admission only when it has moved a clock.                            *)
THEOREM ClocksOnlyGoForward == TimedSpec => ClocksGoForward
<1>1. TimedIInv /\ [TimedNext]_timedVars => [GoesForward]_timedVars
  BY StepGoesForward
<1>2. QED
  BY <1>1, TimedIInvHolds, PTL DEF TimedSpec, ClocksGoForward, GoesForward

-----------------------------------------------------------------------------
(* Refinement.                                                             *)

LEMMA InitRefinesTimed == TimedInit => RealTime!Init
<1> SUFFICES ASSUME TimedInit PROVE RealTime!Init
  OBVIOUS
<1>1. Committed = InitialMarking
  BY InitRefines DEF TimedInit, Abstract!Init
<1>2. QED
  BY <1>1 DEF TimedInit, RealTime!Init

(* A completion is a mature firing of the net without its clocks.          *)
LEMMA CompleteRefinesTimed ==
  ASSUME TimedIInv, IInv', NEW f \in Firing, NEW d \in Deposits[firing[f].t],
         Complete(f, d), now' = now
  PROVE  firing[f].t \in Transition /\ RealTime!Fire(firing[f].t)
<1> DEFINE t == firing[f].t
<1>1. IInv /\ f \in Active /\ HoldsAMatureBinding
  BY DEF TimedIInv, Complete, Active, ActivePhase
<1>2. PICK b \in Bindings[t] : firing[f].take = b.take /\ RealTime!Mature(t, b)
  BY <1>1 DEF HoldsAMatureBinding
<1>3. /\ t \in Transition /\ d \in Marking
      /\ \A p \in Place, v \in Token : b.take[p][v] <= Committed[p][v]
      /\ Committed' = Add(Remove(Committed, b.take), d)
  BY <1>1, <1>2, CompleteCommitted
<1>4. b \in Binding
  BY <1>3, NetAssumption
<1>5. \A p \in Clocks : p \in Place /\ \A v \in Token : b.take[p][v] = 0 /\ d[p][v] = 0
  BY <1>3, <1>4, ClocksArePlaces, NetAssumption DEF Binding, Marking, Bag
<1>6. \A p \in Place, v \in Token : b.take[p][v] <= HideClocks(Committed)[p][v]
  BY <1>3, <1>5 DEF HideClocks, NoTokens
<1>7. HideClocks(Committed)' = Add(Remove(HideClocks(Committed), b.take), d)
  <2> DEFINE m == Add(Remove(HideClocks(Committed), b.take), d)
  <2>1. ASSUME NEW p \in Place, p \notin Clocks
        PROVE  m[p] = Committed'[p]
    BY <1>3, <2>1 DEF HideClocks, Add, Remove
  <2>2. ASSUME NEW p \in Place, p \in Clocks
        PROVE  m[p] = NoTokens[p]
    BY <1>5, <2>2 DEF HideClocks, Add, Remove, NoTokens
  <2>3. m = [p \in Place |-> m[p]]
    BY DEF Add
  <2>4. QED
    BY <2>1, <2>2, <2>3 DEF HideClocks
<1>8. QED
  BY <1>2, <1>3, <1>6, <1>7 DEF RealTime!Fire, RealTime!Add, RealTime!Remove, Add, Remove

LEMMA RuntimeStepRefinesTimed ==
  ASSUME ScopeMayRaise = {}, TimedIInv, IInv', Next, now' = now
  PROVE  RealTime!Next \/ HideClocks(Committed)' = HideClocks(Committed)
<1>1. IInv /\ TypeOK
  BY DEF TimedIInv, IInv
<1>2. ASSUME Committed' = Committed
      PROVE  HideClocks(Committed)' = HideClocks(Committed)
  BY <1>2 DEF HideClocks
<1>3. ASSUME NEW a \in Arrivals, Applies(a)
      PROVE  RealTime!Next
  <2>1. Committed' = Inject(Committed, a)
    BY <1>1, <1>3, ArrivalCommitted
  <2>2. \A p \in a.places : p \notin Clocks
    BY TimerAssumption
  <2>3. HideClocks(Committed)' = Inject(HideClocks(Committed), a)
    BY <2>1, <2>2 DEF HideClocks, Inject
  <2>4. QED
    BY <2>3 DEF RealTime!Next, RealTime!Arrive, RealTime!Inject, Inject
<1>4. ASSUME NEW t \in Transition, NEW b \in Bindings[t]
      PROVE  ~ScopeResolverRaises(t, b)
  BY DEF ScopeResolverRaises
<1>5. ASSUME NEW f \in Firing, NEW d \in Deposits[firing[f].t], Complete(f, d)
      PROVE  RealTime!Next
  BY <1>5, CompleteRefinesTimed DEF RealTime!Next
<1>6. QED
  BY <1>1, <1>2, <1>3, <1>4, <1>5, StepKinds, QuietCommitted, AdmitCommitted,
     RollBackCommitted

LEMMA StepRefinesTimed ==
  ASSUME ScopeMayRaise = {}, TimedIInv, TimedIInv', [TimedNext]_timedVars
  PROVE  [RealTime!Next]_(RealTime!net)
<1> DEFINE Hidden == HideClocks(Committed)' = HideClocks(Committed) /\ now' = now
<1>1. IInv /\ IInv' /\ TimedTypeOK /\ now \in 0..MaxTime
  BY DEF TimedIInv, TimedTypeOK
<1>2. CASE TimedStart
  <2> DEFINE Empty == {p \in Clocks : marking[p] = NoTokens[p]}
  <2>1. WritesClocks(Empty, now) /\ UNCHANGED <<firing, attempt, laneUse>> /\ now' = now
    BY <1>2 DEF TimedStart, WritesClocks, admission
  <2>2. Hidden
    BY <1>1, <2>1, ClockWriteIsHidden
  <2>3. QED
    BY <2>2 DEF RealTime!net
<1>3. ASSUME NEW places \in SUBSET Clocks, NEW stamp \in 0..MaxTime,
             Advance(places, stamp)
      PROVE  Hidden
  <2>1. WritesClocks(places, stamp) /\ UNCHANGED <<firing, attempt, laneUse>> /\ now' = now
    BY <1>3 DEF Advance, WritesClocks, admission
  <2>2. QED
    BY <1>1, <2>1, ClockWriteIsHidden
<1>4. CASE TimerAdvances \/ TimerResumes
  <2>1. /\ timer.due \in SUBSET Clocks /\ timer.stamp \in 0..MaxTime
        /\ status = "running"
    BY <1>1, <1>4 DEF TimedTypeOK, TimerTask, TimerAdvances, TimerResumes, TimerRuns
  <2>2. DuePlaces \in SUBSET Clocks
    BY <2>1, DueBounds
  <2>3. Hidden
    BY <1>1, <1>3, <1>4, <2>1, <2>2 DEF TimerAdvances, TimerResumes
  <2>4. QED
    BY <2>3 DEF RealTime!net
<1>5. CASE UNCHANGED vars
  <2>1. HideClocks(Committed)' = HideClocks(Committed)
    BY <1>5 DEF vars, HideClocks, Committed, Active
  <2>2. now' = now \/ Tick
    BY RuntimeStepIsNext DEF TimedNext, TimedStart, TimerStep, TimerAdvances,
       TimerResumes, Advance, TimerWaitsForFirings, TimerSleeps, TimerWakes,
       TimerCancelled, timedVars, timing
  <2>3. QED
    BY <2>1, <2>2 DEF RealTime!net, RealTime!Next, RealTime!Tick, Tick
<1>6. CASE RuntimeStep
  <2>1. Next /\ now' = now
    BY <1>6, RuntimeStepIsNext
  <2>2. QED
    BY <1>1, <2>1, RuntimeStepRefinesTimed DEF RealTime!net
<1>7. QED
  BY <1>2, <1>4, <1>5, <1>6 DEF TimedNext, TimerStep, Tick, TimerCancelled,
     TimerWaitsForFirings, TimerSleeps, TimerWakes, timedVars

(* The timed Runtime implements the timed net: whatever the timer task     *)
(* sleeps through, and however firings overlap, fail or are cancelled, a   *)
(* timed transition commits only whole firings, and only at or after their *)
(* maturity in real time.                                                  *)
THEOREM TimedRuntimeIsTimed ==
  ASSUME ScopeMayRaise = {}
  PROVE  TimedSpec => ImplementsTimedNet
<1>1. TimedInit => RealTime!Init
  BY InitRefinesTimed
<1>2. TimedIInv /\ TimedIInv' /\ [TimedNext]_timedVars => [RealTime!Next]_(RealTime!net)
  BY StepRefinesTimed
<1>3. QED
  BY <1>1, <1>2, TimedIInvHolds, PTL DEF TimedSpec, RealTime!Spec, ImplementsTimedNet
=============================================================================
