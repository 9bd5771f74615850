------------------------------- MODULE Runtime ------------------------------
(***************************************************************************)
(* The asynchronous Runtime: it reserves a firing's consumed tokens, runs  *)
(* the handler as an asyncio task on a bounded lane, and settles the       *)
(* reservation with the handler's outcome.                                 *)
(*                                                                         *)
(* One event loop runs everything, so a step is what a coroutine does      *)
(* between two suspensions.  The one exception is _admit, a loop that      *)
(* never suspends: it is unrolled into one step per admission, and while   *)
(* turn = "admit" no other coroutine can move.                             *)
(***************************************************************************)
EXTENDS PetriNet

CONSTANTS
  InitialMarking,    (* the marking the Runtime is constructed with        *)
  Lane, Capacity,    (* execution lanes and their capacities               *)
  LaneOf,            (* transition -> the lane of its HandlerSpec          *)
  Blocking,          (* transitions whose handler runs in a worker thread  *)
  ScopesOf, NoScope, (* transition -> what its scope resolver may return   *)
  Arrivals, NoArrival, (* what the environment may inject                  *)
  Client,            (* tasks outside the Runtime that call inject         *)
  Budget,            (* max_consecutive_failures, 0 when it is None        *)
  HasJournal,        (* decides the deposit-violation mode                 *)
  JournalMayFail,    (* a journal write may raise                          *)
  MayViolate,        (* transitions that may break their produce contract  *)
  ScopeMayRaise,     (* transitions whose scope resolver may raise         *)
  PolicyMayDecline,  (* the firing policy may return None                  *)
  MayStop,           (* stop() may be called                               *)
  MaxFirings,        (* bound: admissions                                  *)
  MaxInjections      (* bound: inject calls                                *)

VARIABLES
  status,      (* "new", "running", "stopping", "stopped"                  *)
  turn,        (* "loop", or "admit" while _admit holds the event loop     *)
  marking,     (* Runtime.marking: reserved tokens are out of it           *)
  attempt,     (* the next firing's number                                 *)
  firing,      (* firing number -> its reservation and its task's phase    *)
  laneUse,     (* _lane_in_use                                             *)
  failures,    (* _failures                                                *)
  blocked,     (* _blocked_transitions                                     *)
  injections,  (* _injection_attempt, failed injections included           *)
  waiting,     (* client -> the arrival its inject call waits to apply     *)
  late         (* firings whose worker thread outlives its cancellation    *)

admission == <<attempt, laneUse>>
budgets   == <<failures, blocked>>
arrivals  == <<injections, waiting>>
vars == <<status, turn, marking, attempt, firing, laneUse, failures, blocked,
          injections, waiting, late>>

-----------------------------------------------------------------------------

Firing == 1..MaxFirings

(* "created": the task exists and its first step has not run.              *)
(* "running": in the handler.  "cancelling": CancelledError is on its way. *)
(* "doomed": cancelled while created.  "lost": the task has ended without  *)
(* settling.  "orphaned": reserved, but no task was ever made.             *)
Phase == {"free", "created", "running", "cancelling", "doomed", "lost",
          "orphaned", "completed", "failed"}

(* Phases of a firing that has an entry in Runtime._active.                *)
ActivePhase == {"created", "running", "cancelling", "doomed", "lost"}

Scope == UNION {ScopesOf[t] : t \in Transition}

Reservation ==
  [phase : Phase, t : Transition, take : Marking, read : Marking,
   saved : Marking, scope : Scope \cup {NoScope}]

Unused == [phase |-> "free", t |-> CHOOSE t \in Transition : TRUE,
           take |-> NoTokens, read |-> NoTokens, saved |-> NoTokens,
           scope |-> NoScope]

ASSUME RuntimeAssumption ==
  /\ InitialMarking \in Marking
  /\ LaneOf \in [Transition -> Lane]
  /\ Capacity \in [Lane -> Nat \ {0}]
  /\ Blocking \subseteq Transition
  /\ MayViolate \subseteq Transition
  /\ ScopeMayRaise \subseteq Transition
  /\ DOMAIN ScopesOf = Transition
  /\ Arrivals \subseteq Arrival
  /\ NoArrival \notin Arrivals
  /\ MaxFirings \in Nat
  /\ MaxInjections \in Nat
  /\ Budget \in Nat
  /\ {HasJournal, JournalMayFail, PolicyMayDecline, MayStop} \subseteq BOOLEAN

Active == {f \in Firing : firing[f].phase \in ActivePhase}

(* The firing's reservation as settle's rollback needs it: the pre-        *)
(* reservation contents of the places it consumes from.                    *)
Reserved(t, b, scope) ==
  [phase |-> "created", t |-> t, take |-> b.take, read |-> b.read,
   saved |-> [p \in Place |-> IF p \in Consume(t) THEN marking[p]
                                                  ELSE NoTokens[p]],
   scope |-> scope]

Settled(f, phase) == [Unused EXCEPT !.phase = phase, !.t = firing[f].t]

(* Variant: the engine keeps its own default.                              *)
RaisingDepositViolation == "raise"

(* The deposit mode Runtime.__init__ chooses for its engine.               *)
DepositViolation == IF HasJournal THEN "record_then_drop" ELSE "raise"

(* Variant: read places are forgotten.                                     *)
UnblockForConsumed(places, T) == {t \in T : Consume(t) \cap places = {}}

(* _unblock_for: a blocked transition is retried when a place it consumes  *)
(* or reads from has changed.                                              *)
UnblockFor(places, T) ==
  {t \in T : (Consume(t) \cup Read(t)) \cap places = {}}

ArrivalConflicts(a) ==
  \E f \in Active : \E p \in a.places :
    p \in Consume(firing[f].t) \cup Read(firing[f].t) \cup Write(firing[f].t)

-----------------------------------------------------------------------------

(* A Runtime just constructed, whatever marking it was given.              *)
Fresh ==
  /\ status = "new"
  /\ turn = "loop"
  /\ attempt = 1
  /\ firing = [f \in Firing |-> Unused]
  /\ laneUse = [l \in Lane |-> 0]
  /\ failures = [t \in Transition |-> 0]
  /\ blocked = {}
  /\ injections = 0
  /\ waiting = [c \in Client |-> NoArrival]
  /\ late = {}

Init == marking = InitialMarking /\ Fresh

Start ==
  /\ status = "new"
  /\ status' = "running"
  /\ turn' = "admit"
  /\ UNCHANGED <<marking, admission, firing, budgets, arrivals, late>>

-----------------------------------------------------------------------------
(* _admit.                                                                 *)

(* Variant: the budget allows one failure too many.                        *)
AdmissibleOnceMore(t) ==
  /\ Enabled(t, marking)
  /\ t \notin blocked
  /\ laneUse[LaneOf[t]] < Capacity[LaneOf[t]]
  /\ \A f \in Active : ~Conflict(t, firing[f].t)
  /\ Budget = 0 \/ failures[t] <= Budget

Admissible(t) ==
  /\ Enabled(t, marking)
  /\ t \notin blocked
  /\ laneUse[LaneOf[t]] < Capacity[LaneOf[t]]
  /\ \A f \in Active : ~Conflict(t, firing[f].t)
  /\ Budget = 0 \/ failures[t] < Budget

Admitting == turn = "admit" /\ status = "running"

(* The policy picks t, reserve binds b, the scope resolver answers, and    *)
(* the firing's task is created; the loop goes round again.                *)
Admit(t, b, scope) ==
  /\ Admitting
  /\ attempt \in Firing
  /\ Admissible(t)
  /\ Enables(b, marking)
  /\ marking' = Remove(marking, b.take)
  /\ firing' = [firing EXCEPT ![attempt] = Reserved(t, b, scope)]
  /\ laneUse' = [laneUse EXCEPT ![LaneOf[t]] = @ + 1]
  /\ attempt' = attempt + 1
  /\ UNCHANGED <<status, turn, budgets, arrivals, late>>

(* The scope resolver raises: the marking is already the reserved one, no  *)
(* task exists, and the exception leaves _admit.                           *)
ScopeResolverRaises(t, b) ==
  /\ Admitting
  /\ attempt \in Firing
  /\ Admissible(t)
  /\ t \in ScopeMayRaise
  /\ Enables(b, marking)
  /\ marking' = Remove(marking, b.take)
  /\ firing' = [firing EXCEPT
                  ![attempt] = [Reserved(t, b, NoScope) EXCEPT !.phase = "orphaned"]]
  /\ attempt' = attempt + 1
  /\ turn' = "loop"
  /\ UNCHANGED <<status, laneUse, budgets, arrivals, late>>

AdmitReturns ==
  /\ turn = "admit"
  /\ \/ status # "running"
     \/ \A t \in Transition : ~Admissible(t)
     \/ PolicyMayDecline
     \/ attempt \notin Firing
  /\ turn' = "loop"
  /\ UNCHANGED <<status, marking, admission, firing, budgets, arrivals, late>>

-----------------------------------------------------------------------------
(* _execute and the handlers.                                              *)

Phased(f, phase) == firing' = [firing EXCEPT ![f].phase = phase]

(* The task's first step: _execute calls the handler, which may suspend.   *)
HandlerStarts(f) ==
  /\ turn = "loop"
  /\ firing[f].phase = "created"
  /\ Phased(f, "running")
  /\ UNCHANGED <<status, turn, marking, admission, budgets, arrivals, late>>

(* Variant: a failed firing keeps its slot on the lane.                    *)
ReleaseKeepingSlot(f, phase) ==
  /\ firing' = [firing EXCEPT ![f] = Settled(f, phase)]
  /\ laneUse' = IF phase = "failed" THEN laneUse
                ELSE [laneUse EXCEPT ![LaneOf[firing[f].t]] = @ - 1]
  /\ turn' = "admit"
  /\ UNCHANGED <<status, attempt, arrivals>>

(* Variant: nothing is admitted after a settlement.                        *)
ReleaseOnly(f, phase) ==
  /\ firing' = [firing EXCEPT ![f] = Settled(f, phase)]
  /\ laneUse' = [laneUse EXCEPT ![LaneOf[firing[f].t]] = @ - 1]
  /\ UNCHANGED <<status, turn, attempt, arrivals>>

(* The end of _execute, once the engine has settled: leave _active, free   *)
(* the lane, admit what became possible.                                   *)
Release(f, phase) ==
  /\ firing' = [firing EXCEPT ![f] = Settled(f, phase)]
  /\ laneUse' = [laneUse EXCEPT ![LaneOf[firing[f].t]] = @ - 1]
  /\ turn' = "admit"
  /\ UNCHANGED <<status, attempt, arrivals>>

Complete(f, d) ==
  /\ turn = "loop"
  /\ firing[f].phase = "running"
  /\ marking' = Add(marking, d)
  /\ failures' = [t \in Transition |-> 0]
  /\ blocked' = UnblockFor({p \in Place : d[p] # NoTokens[p]}, blocked)
  /\ Release(f, "completed")
  /\ UNCHANGED late

(* settle's failed branch: each consumed place is put back as it was.      *)
RollBack(f) ==
  /\ marking' = [p \in Place |-> IF p \in Consume(firing[f].t)
                                 THEN firing[f].saved[p] ELSE marking[p]]
  /\ failures' = [failures EXCEPT ![firing[f].t] = @ + 1]
  /\ blocked' = blocked \cup {firing[f].t}
  /\ Release(f, "failed")

HandlerFails(f) ==
  /\ turn = "loop"
  /\ firing[f].phase = "running"
  /\ RollBack(f)
  /\ UNCHANGED late

ContractViolated(f) ==
  /\ turn = "loop"
  /\ firing[f].phase = "running"
  /\ firing[f].t \in MayViolate
  /\ DepositViolation = "record_then_drop"
  /\ RollBack(f)
  /\ UNCHANGED late

(* CancelledError reaches _execute, which settles the firing as failed.  A *)
(* worker thread cannot be stopped and runs on.                            *)
CancelDelivered(f) ==
  /\ turn = "loop"
  /\ firing[f].phase = "cancelling"
  /\ RollBack(f)
  /\ late' = IF firing[f].t \in Blocking THEN late \cup {f} ELSE late

(* An async handler catches CancelledError and carries on.                 *)
CancelSwallowed(f) ==
  /\ turn = "loop"
  /\ firing[f].phase = "cancelling"
  /\ firing[f].t \notin Blocking
  /\ Phased(f, "running")
  /\ UNCHANGED <<status, turn, marking, admission, budgets, arrivals, late>>

(* settle itself raises, by mode or because the journal does: _execute has *)
(* no handler for that and ends with the firing still active.              *)
SettleRaises(f) ==
  /\ turn = "loop"
  /\ \/ /\ firing[f].phase = "running"
        /\ firing[f].t \in MayViolate
        /\ DepositViolation = "raise"
     \/ /\ firing[f].phase \in {"running", "cancelling"}
        /\ HasJournal /\ JournalMayFail
  /\ Phased(f, "lost")
  /\ late' = IF firing[f].phase = "cancelling" /\ firing[f].t \in Blocking
             THEN late \cup {f} ELSE late
  /\ UNCHANGED <<status, turn, marking, admission, budgets, arrivals>>

(* A task cancelled before its first step ends without entering _execute.  *)
NeverStarted(f) ==
  /\ turn = "loop"
  /\ firing[f].phase = "doomed"
  /\ Phased(f, "lost")
  /\ UNCHANGED <<status, turn, marking, admission, budgets, arrivals, late>>

(* _record_late_worker: the thread's result is suppressed.                 *)
LateWorkerEnds(f) ==
  /\ turn = "loop"
  /\ f \in late
  /\ late' = late \ {f}
  /\ UNCHANGED <<status, turn, marking, admission, firing, budgets, arrivals>>

-----------------------------------------------------------------------------
(* Cancellation and shutdown.                                              *)

AfterCancel(phase) ==
  CASE phase = "created" -> "doomed"
    [] phase = "running" -> "cancelling"
    [] OTHER -> phase

(* Task.cancel on every task of a set of active firings.                   *)
CancelTasks(F) ==
  firing' = [f \in Firing |->
               IF f \in F
               THEN [firing[f] EXCEPT !.phase = AfterCancel(@)]
               ELSE firing[f]]

(* cancel_scope, called from outside (self = 0) or by the coroutine of a   *)
(* running async handler, whose own task it spares.                        *)
CancelScope(scope, self) ==
  /\ turn = "loop"
  /\ self # 0 => /\ firing[self].phase = "running"
                 /\ firing[self].t \notin Blocking
  /\ CancelTasks({f \in Active \ {self} : firing[f].scope = scope})
  /\ UNCHANGED <<status, turn, marking, admission, budgets, arrivals, late>>

Stop ==
  /\ MayStop
  /\ turn = "loop"
  /\ status = "running"
  /\ status' = "stopping"
  /\ CancelTasks(Active)
  /\ UNCHANGED <<turn, marking, admission, budgets, arrivals, late>>

(* Variant: stop() waits until nothing is in _active.                      *)
StopReturnsWhenIdle ==
  /\ turn = "loop"
  /\ status = "stopping"
  /\ Active = {}
  /\ status' = "stopped"
  /\ UNCHANGED <<turn, marking, admission, firing, budgets, arrivals, late>>

(* stop() returns when gather has seen every active task end.              *)
StopReturns ==
  /\ turn = "loop"
  /\ status = "stopping"
  /\ \A f \in Active : firing[f].phase = "lost"
  /\ status' = "stopped"
  /\ UNCHANGED <<turn, marking, admission, firing, budgets, arrivals, late>>

-----------------------------------------------------------------------------
(* inject and inject_batch, through _apply_arrival.                        *)

CallsInFlight == {c \in Client : waiting[c] # NoArrival}

CanCallInject(c) ==
  /\ turn = "loop"
  /\ status = "running"
  /\ waiting[c] = NoArrival
  /\ injections + Cardinality(CallsInFlight) < MaxInjections

Apply(a) ==
  /\ marking' = Inject(marking, a)
  /\ injections' = injections + 1
  /\ blocked' = UnblockFor(a.places, blocked)
  /\ turn' = "admit"
  /\ UNCHANGED <<status, admission, firing, failures, late>>

InjectNow(c, a) ==
  /\ CanCallInject(c)
  /\ ~ArrivalConflicts(a)
  /\ Apply(a)
  /\ UNCHANGED waiting

InjectWaits(c, a) ==
  /\ CanCallInject(c)
  /\ ArrivalConflicts(a)
  /\ waiting' = [waiting EXCEPT ![c] = a]
  /\ UNCHANGED <<status, turn, marking, admission, firing, budgets,
                 injections, late>>

InjectResumes(c) ==
  /\ turn = "loop"
  /\ waiting[c] # NoArrival
  /\ ~ArrivalConflicts(waiting[c])
  /\ Apply(waiting[c])
  /\ waiting' = [waiting EXCEPT ![c] = NoArrival]

(* The journal write of the injection raises into the caller, who may have *)
(* waited: its number is spent and nothing else has changed.               *)
InjectNowRaises(c, a) ==
  /\ CanCallInject(c)
  /\ HasJournal /\ JournalMayFail
  /\ ~ArrivalConflicts(a)
  /\ injections' = injections + 1
  /\ UNCHANGED <<status, turn, marking, admission, firing, budgets, waiting, late>>

InjectRaises(c) ==
  /\ turn = "loop"
  /\ HasJournal /\ JournalMayFail
  /\ waiting[c] # NoArrival
  /\ ~ArrivalConflicts(waiting[c])
  /\ injections' = injections + 1
  /\ waiting' = [waiting EXCEPT ![c] = NoArrival]
  /\ UNCHANGED <<status, turn, marking, admission, firing, budgets, late>>

-----------------------------------------------------------------------------

AdmitStep ==
  \/ \E t \in Transition : \E b \in Bindings[t] :
       \/ \E scope \in ScopesOf[t] : Admit(t, b, scope)
       \/ ScopeResolverRaises(t, b)
  \/ AdmitReturns

(* The steps that bring a firing's handler to an end.                      *)
HandlerEnds(f) ==
  \/ \E d \in Deposits[firing[f].t] : Complete(f, d)
  \/ HandlerFails(f)
  \/ ContractViolated(f)
  \/ CancelDelivered(f)
  \/ SettleRaises(f)

TaskStep(f) ==
  \/ HandlerStarts(f)
  \/ HandlerEnds(f)
  \/ CancelSwallowed(f)
  \/ NeverStarted(f)
  \/ LateWorkerEnds(f)

ClientStep(c) ==
  \/ \E a \in Arrivals :
       InjectNow(c, a) \/ InjectNowRaises(c, a) \/ InjectWaits(c, a)
  \/ InjectResumes(c)
  \/ InjectRaises(c)

Next ==
  \/ Start
  \/ AdmitStep
  \/ \E f \in Firing : TaskStep(f)
  \/ \E scope \in Scope \ {NoScope}, self \in Firing \cup {0} :
       CancelScope(scope, self)
  \/ \E c \in Client : ClientStep(c)
  \/ Stop
  \/ StopReturns

(* asyncio runs every task that is ready, and handlers return.  Nobody has *)
(* to inject, cancel or stop.                                              *)
Fairness ==
  /\ WF_vars(Start)
  /\ WF_vars(AdmitStep)
  /\ \A f \in Firing :
       /\ WF_vars(HandlerStarts(f))
       /\ WF_vars(HandlerEnds(f))
       /\ WF_vars(NeverStarted(f))
       /\ WF_vars(LateWorkerEnds(f))
  /\ \A c \in Client : WF_vars(InjectResumes(c) \/ InjectRaises(c))
  /\ WF_vars(StopReturns)

Spec == Init /\ [][Next]_vars

FairSpec == Spec /\ Fairness

-----------------------------------------------------------------------------
(* Properties.                                                             *)

(* Every variable holds a value of its kind; in particular no place ever   *)
(* holds a negative number of a token: reserve never takes a token that is *)
(* not there.                                                              *)
TypeOK ==
  /\ status \in {"new", "running", "stopping", "stopped"}
  /\ turn \in {"loop", "admit"}
  /\ marking \in Marking
  /\ attempt \in 1..MaxFirings + 1
  /\ firing \in [Firing -> Reservation]
  /\ laneUse \in [Lane -> Nat]
  /\ failures \in [Transition -> Nat]
  /\ blocked \subseteq Transition
  /\ injections \in Nat
  /\ waiting \in [Client -> Arrivals \cup {NoArrival}]
  /\ late \subseteq Firing

OnLane(l) == {f \in Active : LaneOf[firing[f].t] = l}

(* _lane_in_use, which _admit and _execute keep by hand, is the number of  *)
(* active firings on the lane through every success, failure, cancellation *)
(* and leak, and never exceeds the lane's capacity.                        *)
LaneAccounting ==
  \A l \in Lane : /\ laneUse[l] = Cardinality(OnLane(l))
                  /\ laneUse[l] <= Capacity[l]

(* settle's rollback overwrites each consumed place with what it held      *)
(* before the reservation.  That loses nothing because, while the firing   *)
(* is active, nobody else (another firing's reserve, deposit or rollback,  *)
(* an arrival) touches those places: they hold exactly what the            *)
(* reservation left there.                                                 *)
ReservedInputsUntouched ==
  \A f \in Active : \A p \in Consume(firing[f].t) : \A v \in Token :
    marking[p][v] + firing[f].take[p][v] = firing[f].saved[p][v]

(* Whenever the event loop is free, no transition could be admitted: every *)
(* step that settles a firing or applies an arrival runs _admit to the     *)
(* end, and no other step (a cancellation, a late worker, a task that is   *)
(* lost) opens an opportunity nobody looks at.  A resolver that raises or  *)
(* a policy that declines ends _admit early.                               *)
NothingLeftToAdmit ==
  (/\ status = "running" /\ turn = "loop" /\ attempt \in Firing
   /\ ~PolicyMayDecline /\ ScopeMayRaise = {})
    => \A t \in Transition : ~Admissible(t)

(* max_consecutive_failures is compared with a count that only settlement  *)
(* raises, while the firings it admits are still in flight.  A transition  *)
(* that consumes or produces cannot overlap itself, so it can never fail   *)
(* more often in a row than the budget allows.                             *)
BudgetBoundsFailures ==
  Budget # 0 => \A t \in Transition :
    Consume(t) \cup Write(t) # {} => failures[t] <= Budget

(* The marking a rollback of every active firing would give.               *)
Committed ==
  [p \in Place |->
     IF \E f \in Active : p \in Consume(firing[f].t)
     THEN firing[CHOOSE f \in Active : p \in Consume(firing[f].t)].saved[p]
     ELSE marking[p]]

Abstract == INSTANCE AtomicNet WITH committed <- Committed

(* Overlapping firings have the effect of atomic ones on the committed     *)
(* marking: reserving and rolling back are invisible, a completion takes   *)
(* its inputs and deposits its outputs in one step, an arrival is applied  *)
(* whole.  Holds when no scope resolver raises: one that does drops a      *)
(* reservation for good.                                                   *)
ImplementsAtomicNet == Abstract!Spec

(* A transition blocked by its failure is retried once a place it consumes *)
(* or reads from gains a token for good: no step commits such a gain and   *)
(* leaves the transition blocked.                                          *)
CommittedGainUnblocks ==
  [][\A t \in blocked' : \A p \in Consume(t) \cup Read(t) : \A v \in Token :
       Committed'[p][v] <= Committed[p][v]]_vars

(* What the Runtime has taken on comes to an end unless it is stopped: an  *)
(* admitted firing settles when nobody cancels its scope and no settlement *)
(* raises, and an inject call that waits for conflicting firings returns.  *)
AcceptedWorkSettles ==
  /\ \A f \in Firing :
       firing[f].phase = "created"
         ~> firing[f].phase \in {"completed", "failed"} \/ status # "running"
  /\ \A c \in Client :
       waiting[c] # NoArrival ~> waiting[c] = NoArrival \/ status # "running"

(* stop() returns, whatever the tasks it cancels do with the cancellation. *)
StopTerminates == status = "stopping" ~> status = "stopped"

(* "then commits or rolls that reservation back when work reaches a        *)
(* terminal outcome" (runtime.py, module docstring): no firing's task has  *)
(* ended while its reservation is still outstanding.                       *)
TerminalOutcomeSettles == \A f \in Firing : firing[f].phase # "lost"
=============================================================================
