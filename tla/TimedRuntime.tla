------------------------------ MODULE TimedRuntime ----------------------------
(***************************************************************************)
(* The Runtime's native timers, together with the Runtime they drive.      *)
(*                                                                         *)
(* A timed transition's condition looks at a clock place.  One task, which *)
(* start() creates, sleeps until the earliest maturity or until the        *)
(* marking changes, writes the time into the clocks that are due, and lets *)
(* admission do the rest.  The clock token's value is the time it shows,   *)
(* so the condition (timer.cel) is part of a binding: the clock values at  *)
(* which it is false inhibit it.                                           *)
(***************************************************************************)
EXTENDS Runtime

CONSTANTS
  ClockOf,     (* timed transition -> its clock place                      *)
  MaturityOf,  (* timed transition -> binding -> its timer.maturity        *)
  MaxTime      (* bound: how far real time goes                            *)

VARIABLES
  now,          (* Clock.now()                                             *)
  timer,        (* the task that runs _run_timers: where it stands, the    *)
                (* due places it advances and the time it read for them    *)
  wake,         (* what it sleeps until; NoWake: only a change wakes it    *)
  timerChanged  (* Runtime._timer_changed                                  *)

timing    == <<now, timer, wake, timerChanged>>
timedVars == <<vars, timing>>

NoWake == MaxTime + 1
Timed  == DOMAIN ClockOf
Clocks == {ClockOf[t] : t \in Timed}

ClockToken(c) == [v \in Token |-> IF v = c THEN 1 ELSE 0]

(* A clock shows a time, and what a condition calls mature the maturity    *)
(* does too (a condition may also become false again).  Only the Runtime   *)
(* writes the clocks, and one that the initial marking fills shows no      *)
(* later time than it is.                                                  *)
ASSUME TimerAssumption ==
  /\ MaxTime \in Nat
  /\ 0..MaxTime \subseteq Token
  /\ Timed \subseteq Transition
  /\ Clocks \subseteq Place
  /\ DOMAIN MaturityOf = Timed
  /\ \A t \in Timed : \A b \in Bindings[t] :
       /\ MaturityOf[t][b] \in Nat
       /\ \A c \in 0..MaxTime : c < MaturityOf[t][b] => c \in b.block[ClockOf[t]]
  /\ \A a \in Arrivals : a.places \cap Clocks = {}
  /\ \A t \in Transition : (Consume(t) \cup Write(t)) \cap Clocks = {}
  /\ \A p \in Clocks : InitialMarking[p] \in {NoTokens[p], ClockToken(0)}

(* "none" before start(); "scanning" when it next runs, "looping" when it  *)
(* already does, "advancing" while it waits for firings.                   *)
TimerTask ==
  [pc : {"none", "scanning", "looping", "advancing", "asleep", "ended"},
   due : SUBSET Clocks, stamp : 0..MaxTime]

(* The time a clock place shows; there is one token on it.                 *)
Shows(p) == CHOOSE c \in 0..MaxTime : marking[p][c] > 0

-----------------------------------------------------------------------------

TimedInit ==
  /\ Init
  /\ now = 0
  /\ timer = [pc |-> "none", due |-> {}, stamp |-> 0]
  /\ wake = NoWake
  /\ timerChanged = FALSE

(* start(): clock places without a token get one, admission runs, and the  *)
(* timer task is created.                                                  *)
TimedStart ==
  /\ status = "new"
  /\ status' = "running"
  /\ turn' = "admit"
  /\ marking' = [p \in Place |-> IF p \in Clocks /\ marking[p] = NoTokens[p]
                                 THEN ClockToken(now) ELSE marking[p]]
  /\ timer' = [timer EXCEPT !.pc = "scanning"]
  /\ UNCHANGED <<admission, firing, budgets, arrivals, late, now, wake,
                 timerChanged>>

Tick ==
  /\ now < MaxTime
  /\ now' = now + 1
  /\ UNCHANGED <<vars, timer, wake, timerChanged>>

-----------------------------------------------------------------------------
(* Engine.timer_maturities.                                                *)

(* The binding's condition apart from its timer.                           *)
Viable(t, b) == Enables([b EXCEPT !.block[ClockOf[t]] = {}], marking)

(* Variant: a maturity that has passed is a candidate like any other.      *)
EveryMaturity(t, b) ==
  /\ Viable(t, b)
  /\ Shows(ClockOf[t]) \in b.block[ClockOf[t]]

(* A binding worth waking for: viable, its condition false, its maturity   *)
(* ahead of its clock.                                                     *)
Candidate(t, b) ==
  /\ Viable(t, b)
  /\ Shows(ClockOf[t]) \in b.block[ClockOf[t]]
  /\ MaturityOf[t][b] > Shows(ClockOf[t])

Maturities ==
  UNION {{[clock |-> ClockOf[t], at |-> MaturityOf[t][b]] :
            b \in {x \in Bindings[t] : Candidate(t, x)}} : t \in Timed}

DuePlaces == {m.clock : m \in {x \in Maturities : x.at <= now}}

(* The earliest of them; without one, only a change wakes the task.        *)
NextWake ==
  IF Maturities = {} THEN {NoWake}
  ELSE {m.at : m \in {x \in Maturities : \A y \in Maturities : x.at <= y.at}}

-----------------------------------------------------------------------------
(* _run_timers, _advance_timer_clocks and _wait_for_timer_change.          *)

(* While it goes round its loop the timer task does not suspend.           *)
TimerHasLoop == timer.pc = "looping"

TimerRuns(points) ==
  /\ turn = "loop"
  /\ status = "running"
  /\ timer.pc \in points

ClockConflicts(places) ==
  \E f \in Active : \E p \in places :
    p \in Consume(firing[f].t) \cup Read(firing[f].t) \cup Write(firing[f].t)

(* Variant: the clock's token is kept.                                     *)
AdvanceAppending(places, stamp) ==
  /\ marking' = [p \in Place |-> [v \in Token |-> marking[p][v] +
                   IF p \in places THEN ClockToken(stamp)[v] ELSE 0]]
  /\ blocked' = UnblockFor(places, blocked)
  /\ turn' = "admit"
  /\ timer' = [pc |-> "looping", due |-> {}, stamp |-> 0]
  /\ UNCHANGED <<status, admission, firing, failures, arrivals, late, now, wake>>

(* Variant: the clocks get the time of their last maturity.                *)
AdvanceToMaturity(places, stamp) ==
  /\ marking' = [p \in Place |->
       IF p \notin places THEN marking[p]
       ELSE ClockToken(CHOOSE at \in 0..MaxTime :
              /\ \E m \in Maturities : m.clock = p /\ m.at = at
              /\ \A m \in Maturities : m.clock = p => m.at <= at)]
  /\ blocked' = UnblockFor(places, blocked)
  /\ turn' = "admit"
  /\ timer' = [pc |-> "looping", due |-> {}, stamp |-> 0]
  /\ UNCHANGED <<status, admission, firing, failures, arrivals, late, now, wake>>

(* All of the due clocks get one and the same time before anything is      *)
(* admitted; then the task goes round at once.                             *)
Advance(places, stamp) ==
  /\ marking' = [p \in Place |-> IF p \in places THEN ClockToken(stamp)
                                 ELSE marking[p]]
  /\ blocked' = UnblockFor(places, blocked)
  /\ turn' = "admit"
  /\ timer' = [pc |-> "looping", due |-> {}, stamp |-> 0]
  /\ UNCHANGED <<status, admission, firing, failures, arrivals, late, now, wake>>

TimerAdvances ==
  /\ TimerRuns({"scanning", "looping"})
  /\ DuePlaces # {}
  /\ ~ClockConflicts(DuePlaces)
  /\ Advance(DuePlaces, now)
  /\ timerChanged' = FALSE

(* A firing in flight reads a due clock: wait for it, with the time read.  *)
TimerWaitsForFirings ==
  /\ TimerRuns({"scanning", "looping"})
  /\ DuePlaces # {}
  /\ ClockConflicts(DuePlaces)
  /\ timer' = [pc |-> "advancing", due |-> DuePlaces, stamp |-> now]
  /\ timerChanged' = FALSE
  /\ UNCHANGED <<vars, now, wake>>

TimerResumes ==
  /\ TimerRuns({"advancing"})
  /\ ~ClockConflicts(timer.due)
  /\ Advance(timer.due, timer.stamp)
  /\ UNCHANGED timerChanged

TimerSleeps ==
  /\ TimerRuns({"scanning", "looping"})
  /\ DuePlaces = {}
  /\ timer' = [timer EXCEPT !.pc = "asleep"]
  /\ wake' \in NextWake
  /\ timerChanged' = FALSE
  /\ UNCHANGED <<vars, now>>

(* Variant: only the deadline it knew when it fell asleep wakes it.        *)
SleptUntilDeadline == wake <= now

SleptEnough == timerChanged \/ wake <= now

TimerWakes ==
  /\ TimerRuns({"asleep"})
  /\ SleptEnough
  /\ timer' = [timer EXCEPT !.pc = "scanning"]
  /\ wake' = NoWake
  /\ UNCHANGED <<vars, now, timerChanged>>

(* The CancelledError of stop() arrives wherever the task has suspended.   *)
TimerCancelled ==
  /\ turn = "loop"
  /\ status = "stopping"
  /\ timer.pc # "ended"
  /\ timer' = [timer EXCEPT !.pc = "ended"]
  /\ UNCHANGED <<vars, now, wake, timerChanged>>

-----------------------------------------------------------------------------

TimerStep ==
  TimerAdvances \/ TimerWaitsForFirings \/ TimerResumes \/ TimerSleeps \/ TimerWakes

Signals == timerChanged' = TRUE /\ UNCHANGED <<now, timer, wake>>

(* The Runtime's other steps.  _admit signals each admission, and whoever  *)
(* called it signals when it has returned.                                 *)
RuntimeStep ==
  \/ AdmitStep /\ Signals
  \/ /\ ~TimerHasLoop
     /\ \/ \E scope \in Scope \ {NoScope}, self \in Firing \cup {0} :
             CancelScope(scope, self) /\ Signals
        \/ \E f \in Firing : TaskStep(f) /\ UNCHANGED timing
        \/ \E c \in Client : ClientStep(c) /\ UNCHANGED timing
        \/ Stop /\ UNCHANGED timing
        \/ StopReturns /\ timer.pc = "ended" /\ Signals

TimedNext == TimedStart \/ Tick \/ TimerStep \/ TimerCancelled \/ RuntimeStep

(* Time passes, the loop runs what is ready, handlers return.              *)
TimedFairness ==
  /\ WF_timedVars(TimedStart)
  /\ WF_timedVars(Tick)
  /\ WF_timedVars(TimerStep)
  /\ WF_timedVars(TimerCancelled)
  /\ WF_timedVars(AdmitStep /\ Signals)
  /\ \A f \in Firing :
       /\ WF_timedVars(HandlerStarts(f) /\ UNCHANGED timing /\ ~TimerHasLoop)
       /\ WF_timedVars(HandlerEnds(f) /\ UNCHANGED timing /\ ~TimerHasLoop)
  /\ \A c \in Client :
       WF_timedVars(InjectResumes(c) /\ UNCHANGED timing /\ ~TimerHasLoop)
  /\ WF_timedVars(StopReturns /\ timer.pc = "ended" /\ Signals)

TimedSpec == TimedInit /\ [][TimedNext]_timedVars

FairTimedSpec == TimedSpec /\ TimedFairness

-----------------------------------------------------------------------------
(* Properties.                                                             *)

(* Every variable holds a value of its kind, and a clock place never holds *)
(* more than the one token that the Runtime replaces.                      *)
TimedTypeOK ==
  /\ TypeOK
  /\ now \in 0..MaxTime
  /\ timer \in TimerTask
  /\ wake \in Nat
  /\ timerChanged \in BOOLEAN
  /\ \A p \in Clocks :
       marking[p] = NoTokens[p] \/ \E c \in 0..MaxTime : marking[p] = ClockToken(c)

(* Each time the timer task hands over to admission it has moved a clock   *)
(* forward, though it may have waited since it read the time; and a clock  *)
(* never goes back.                                                        *)
ClocksGoForward ==
  [][/\ \A p \in Clocks : marking[p] # NoTokens[p] /\ marking'[p] # marking[p]
          => \E c, d \in 0..MaxTime :
               /\ marking[p] = ClockToken(c) /\ marking'[p] = ClockToken(d)
               /\ c < d
     /\ (turn = "loop" /\ turn' = "admit" /\ timer'.pc = "looping")
          => \E p \in Clocks : marking'[p] # marking[p]]_timedVars

HideClocks(m) == [p \in Place |-> IF p \in Clocks THEN NoTokens[p] ELSE m[p]]

RealTime == INSTANCE TimedNet WITH committed <- HideClocks(Committed),
                                   InitialMarking <- HideClocks(InitialMarking)

(* The committed marking is that of a net whose timed transitions commit   *)
(* only at or after their maturity in real time, whatever the timer task   *)
(* sleeps through and whichever firings overlap.                           *)
ImplementsTimedNet == RealTime!Spec

(* A binding that is mature in real time and stays viable does not wait    *)
(* for ever: the timer task is woken for it even if it came while the task *)
(* slept, or while it waited to advance another clock.  (The condition     *)
(* must not become false again, and a failed transition waits for its      *)
(* inputs.)                                                                *)
MatureBindingsFire ==
  \A t \in Timed : \A b \in Bindings[t] :
    (/\ status = "running" /\ Viable(t, b) /\ MaturityOf[t][b] <= now
     /\ \A c \in MaturityOf[t][b]..MaxTime : c \notin b.block[ClockOf[t]])
      ~> \/ ~Viable(t, b) \/ t \in blocked
         \/ status # "running" \/ attempt \notin Firing

(* The timer task always goes back to sleep, or waits for a firing that    *)
(* reads the clock: it does not spin.                                      *)
TimerRests ==
  timer.pc \in {"scanning", "looping"} ~> timer.pc \in {"asleep", "advancing", "ended"}
=============================================================================
