---------------------------- MODULE RuntimeProofs ---------------------------
(***************************************************************************)
(* Proofs about the Runtime for every net, lane layout and fault setting.  *)
(*                                                                         *)
(* The safety properties are proved together as one inductive invariant:   *)
(* rollback exactness needs that active firings do not conflict, the lane  *)
(* counters need that a firing number is used once, and typing needs both, *)
(* for a counter that never goes below zero and a place that never holds   *)
(* less than nothing.                                                      *)
(***************************************************************************)
EXTENDS Runtime, FiniteSetTheorems, TLAPS

(* No two active firings have conflicting footprints.                      *)
Exclusive ==
  \A f, g \in Active : f # g => ~Conflict(firing[f].t, firing[g].t)

(* Firing numbers not handed out yet are unused.                           *)
UnusedAhead == \A f \in Firing : f >= attempt => firing[f].phase = "free"

(* An active firing holds the consumed tokens of one of its bindings.      *)
HoldsABinding ==
  \A f \in Active : \E b \in Bindings[firing[f].t] :
    firing[f].take = b.take /\ firing[f].read = b.read

IInv ==
  /\ TypeOK
  /\ LaneAccounting
  /\ Exclusive
  /\ ReservedInputsUntouched
  /\ UnusedAhead
  /\ HoldsABinding

(* A step that moves active firings between active phases and leaves       *)
(* everything else about the reservations alone.                           *)
PhasesOnly ==
  /\ firing' \in [Firing -> Reservation]
  /\ \A f \in Firing :
       /\ firing'[f].t = firing[f].t
       /\ firing'[f].take = firing[f].take
       /\ firing'[f].read = firing[f].read
       /\ firing'[f].saved = firing[f].saved
       /\ firing'[f].phase \in ActivePhase <=> firing[f].phase \in ActivePhase
       /\ firing'[f].phase = "free" <=> firing[f].phase = "free"
  /\ UNCHANGED <<attempt, laneUse>>

(* The steps that do no more than that, nor touch the marking: every one   *)
(* but admissions, settlements and applied arrivals.                       *)
QuietStep ==
  \/ Start \/ AdmitReturns \/ Stop \/ StopReturns
  \/ \E f \in Firing :
       HandlerStarts(f) \/ CancelSwallowed(f) \/ SettleRaises(f)
       \/ NeverStarted(f) \/ LateWorkerEnds(f)
  \/ \E scope \in Scope, self \in Firing \cup {0} : CancelScope(scope, self)
  \/ \E c \in Client : InjectRaises(c)
  \/ \E c \in Client, a \in Arrivals : InjectWaits(c, a) \/ InjectNowRaises(c, a)
  \/ UNCHANGED vars

(* A firing comes to its end by rolling back.                              *)
RollsBack(f) == HandlerFails(f) \/ ContractViolated(f) \/ CancelDelivered(f)

(* An arrival is applied, on whichever path.                               *)
Applies(a) ==
  /\ ~ArrivalConflicts(a)
  /\ Apply(a)
  /\ waiting' \in [Client -> Arrivals \cup {NoArrival}]

-----------------------------------------------------------------------------

LEMMA ConsumedArePlaces == \A t \in Transition : Consume(t) \subseteq Place
BY NetAssumption DEF Consume

-----------------------------------------------------------------------------
(* Every step is of one of six kinds.                                      *)

LEMMA StepKinds ==
  ASSUME TypeOK, [Next]_vars
  PROVE  \/ QuietStep
         \/ \E t \in Transition : \E b \in Bindings[t] :
              \/ \E scope \in ScopesOf[t] : Admit(t, b, scope)
              \/ ScopeResolverRaises(t, b)
         \/ \E f \in Firing : \E d \in Deposits[firing[f].t] : Complete(f, d)
         \/ \E f \in Firing : RollsBack(f)
         \/ \E a \in Arrivals : Applies(a)
<1>1. ASSUME NEW f \in Firing, TaskStep(f)
      PROVE  \/ QuietStep \/ RollsBack(f)
             \/ \E d \in Deposits[firing[f].t] : Complete(f, d)
  BY <1>1 DEF TaskStep, HandlerEnds, QuietStep, RollsBack
<1>2. ASSUME NEW c \in Client, ClientStep(c)
      PROVE  QuietStep \/ \E a \in Arrivals : Applies(a)
  <2>1. ASSUME NEW a \in Arrivals, InjectNow(c, a)
        PROVE  Applies(a)
    BY <2>1 DEF InjectNow, Applies, TypeOK
  <2>2. ASSUME InjectResumes(c)
        PROVE  waiting[c] \in Arrivals /\ Applies(waiting[c])
    BY <2>2 DEF InjectResumes, Applies, TypeOK
  <2>3. QED
    BY <1>2, <2>1, <2>2 DEF ClientStep, QuietStep
<1>3. ASSUME NEW scope \in Scope \ {NoScope}, NEW self \in Firing \cup {0},
             CancelScope(scope, self)
      PROVE  QuietStep
  BY <1>3 DEF QuietStep
<1>4. CASE Start \/ Stop \/ StopReturns \/ UNCHANGED vars
  BY <1>4 DEF QuietStep
<1>5. CASE AdmitStep
  BY <1>5 DEF AdmitStep, QuietStep
<1>6. QED
  BY <1>1, <1>2, <1>3, <1>4, <1>5 DEF Next

-----------------------------------------------------------------------------
(* Steps that keep every reservation.                                      *)

LEMMA QuietIsPhasesOnly ==
  ASSUME TypeOK, QuietStep
  PROVE  PhasesOnly /\ UNCHANGED marking
<1> USE DEF PhasesOnly, TypeOK, Reservation, Phase, ActivePhase, admission
<1>1. CASE Start \/ AdmitReturns \/ StopReturns
  BY <1>1 DEF Start, AdmitReturns, StopReturns
<1>2. CASE Stop
  BY <1>2 DEF Stop, CancelTasks, AfterCancel
<1>3. ASSUME NEW f \in Firing,
             HandlerStarts(f) \/ CancelSwallowed(f) \/ SettleRaises(f)
             \/ NeverStarted(f)
      PROVE  PhasesOnly /\ UNCHANGED marking
  BY <1>3 DEF HandlerStarts, CancelSwallowed, SettleRaises, NeverStarted, Phased
<1>4. ASSUME NEW f \in Firing, LateWorkerEnds(f)
      PROVE  PhasesOnly /\ UNCHANGED marking
  BY <1>4 DEF LateWorkerEnds
<1>5. ASSUME NEW scope \in Scope, NEW self \in Firing \cup {0},
             CancelScope(scope, self)
      PROVE  PhasesOnly /\ UNCHANGED marking
  BY <1>5 DEF CancelScope, CancelTasks, AfterCancel
<1>6. ASSUME NEW c \in Client, InjectRaises(c)
      PROVE  PhasesOnly /\ UNCHANGED marking
  BY <1>6 DEF InjectRaises
<1>7. ASSUME NEW c \in Client, NEW a \in Arrivals,
             InjectWaits(c, a) \/ InjectNowRaises(c, a)
      PROVE  PhasesOnly /\ UNCHANGED marking
  BY <1>7 DEF InjectWaits, InjectNowRaises
<1>8. CASE UNCHANGED vars
  BY <1>8 DEF vars
<1>9. QED
  BY <1>1, <1>2, <1>3, <1>4, <1>5, <1>6, <1>7, <1>8 DEF QuietStep

LEMMA AppliesIsPhasesOnly ==
  ASSUME TypeOK, NEW a \in Arrivals, Applies(a)
  PROVE  PhasesOnly
BY DEF Applies, Apply, PhasesOnly, TypeOK, admission

(* The firings' own facts survive any such step.                           *)
LEMMA PhasesOnlyKeeps ==
  ASSUME IInv, PhasesOnly
  PROVE  Active' = Active /\ LaneAccounting' /\ Exclusive' /\ UnusedAhead'
         /\ HoldsABinding'
<1>1. Active' = Active
  BY DEF PhasesOnly, Active
<1>2. \A l : OnLane(l)' = OnLane(l)
  BY <1>1 DEF PhasesOnly, OnLane, Active
<1>3. LaneAccounting'
  BY <1>2 DEF IInv, LaneAccounting, PhasesOnly
<1>4. Exclusive'
  BY <1>1 DEF IInv, Exclusive, PhasesOnly, Active
<1>5. UnusedAhead'
  BY DEF IInv, UnusedAhead, PhasesOnly
<1>6. HoldsABinding'
  BY <1>1 DEF IInv, HoldsABinding, PhasesOnly, Active
<1>7. QED
  BY <1>1, <1>3, <1>4, <1>5, <1>6

LEMMA QuietTyped ==
  ASSUME TypeOK, QuietStep
  PROVE  TypeOK'
<1>0. PhasesOnly /\ UNCHANGED marking
  BY QuietIsPhasesOnly
<1>q. /\ marking' \in Marking /\ attempt' \in 1..MaxFirings + 1
      /\ firing' \in [Firing -> Reservation] /\ laneUse' \in [Lane -> Nat]
  BY <1>0 DEF TypeOK, PhasesOnly
<1> USE DEF TypeOK, budgets, arrivals
<1>1. CASE Start \/ AdmitReturns \/ StopReturns
  BY <1>1, <1>q DEF Start, AdmitReturns, StopReturns
<1>2. CASE Stop
  BY <1>2, <1>q DEF Stop
<1>3. ASSUME NEW f \in Firing,
             HandlerStarts(f) \/ CancelSwallowed(f) \/ SettleRaises(f)
             \/ NeverStarted(f)
      PROVE  TypeOK'
  BY <1>3, <1>q DEF HandlerStarts, CancelSwallowed, SettleRaises, NeverStarted
<1>4. ASSUME NEW f \in Firing, LateWorkerEnds(f)
      PROVE  TypeOK'
  BY <1>4, <1>q DEF LateWorkerEnds
<1>5. ASSUME NEW scope \in Scope, NEW self \in Firing \cup {0},
             CancelScope(scope, self)
      PROVE  TypeOK'
  BY <1>5, <1>q DEF CancelScope
<1>6. ASSUME NEW c \in Client, InjectRaises(c)
      PROVE  TypeOK'
  BY <1>6, <1>q DEF InjectRaises
<1>7. ASSUME NEW c \in Client, NEW a \in Arrivals,
             InjectWaits(c, a) \/ InjectNowRaises(c, a)
      PROVE  TypeOK'
  BY <1>7, <1>q DEF InjectWaits, InjectNowRaises
<1>8. CASE UNCHANGED vars
  BY <1>8 DEF vars
<1>9. QED
  BY <1>1, <1>2, <1>3, <1>4, <1>5, <1>6, <1>7, <1>8 DEF QuietStep

LEMMA QuietKeepsIInv ==
  ASSUME IInv, QuietStep
  PROVE  IInv'
<1>1. TypeOK
  BY DEF IInv
<1>2. PhasesOnly /\ UNCHANGED marking
  BY <1>1, QuietIsPhasesOnly
<1>3. Active' = Active
  BY <1>2, PhasesOnlyKeeps
<1>4. ReservedInputsUntouched'
  BY <1>2, <1>3 DEF IInv, ReservedInputsUntouched, PhasesOnly, Active
<1>5. QED
  BY <1>1, <1>2, <1>4, QuietTyped, PhasesOnlyKeeps DEF IInv

(* An arrival is applied only where no active firing has a footprint.      *)
LEMMA ArrivalKeepsIInv ==
  ASSUME IInv, NEW a \in Arrivals, Applies(a)
  PROVE  IInv'
<1>1. TypeOK
  BY DEF IInv
<1>2. PhasesOnly
  BY <1>1, AppliesIsPhasesOnly
<1>3. Active' = Active
  BY <1>2, PhasesOnlyKeeps
<1>4. a \in Arrival
  BY RuntimeAssumption
<1>5. marking' \in Marking
  BY <1>1, <1>4 DEF Applies, Apply, Inject, TypeOK, Marking, Bag, Arrival
<1>6. TypeOK'
  BY <1>1, <1>5 DEF Applies, Apply, TypeOK, UnblockFor, admission
<1>7. ReservedInputsUntouched'
  <2>1. ASSUME NEW f \in Active, NEW p \in Consume(firing[f].t)
        PROVE  marking'[p] = marking[p]
    <3>1. p \in Place
      BY <1>1, ConsumedArePlaces DEF Active, TypeOK, Reservation
    <3>2. p \notin a.places
      BY DEF Applies, ArrivalConflicts
    <3>3. QED
      BY <3>1, <3>2 DEF Applies, Apply, Inject
  <2>2. QED
    BY <1>2, <1>3, <2>1 DEF IInv, ReservedInputsUntouched, PhasesOnly, Active
<1>8. QED
  BY <1>2, <1>6, <1>7, PhasesOnlyKeeps DEF IInv

-----------------------------------------------------------------------------
(* Admissions.                                                             *)

(* What reserve takes was there, and only from places t consumes.          *)
LEMMA ReserveTakesItsOwn ==
  ASSUME TypeOK, NEW t \in Transition, NEW b \in Bindings[t],
         Enables(b, marking)
  PROVE  /\ b \in Binding
         /\ Remove(marking, b.take) \in Marking
         /\ \A p \in Place \ Consume(t) : \A v \in Token : b.take[p][v] = 0
         /\ \A p \in Place \ Consume(t) : Remove(marking, b.take)[p] = marking[p]
<1>1. b \in Binding
  BY NetAssumption
<1>2. \A p \in Place, v \in Token :
        /\ b.take[p][v] \in Nat /\ b.read[p][v] \in Nat
        /\ marking[p][v] \in Nat /\ b.take[p][v] <= marking[p][v]
  BY <1>1 DEF Enables, TypeOK, Binding, Marking, Bag
<1>3. Remove(marking, b.take) \in Marking
  BY <1>2 DEF Remove, Marking, Bag
<1>4. \A p \in Place \ Consume(t) : \A v \in Token : b.take[p][v] = 0
  BY <1>2, NetAssumption
<1>5. ASSUME NEW p \in Place \ Consume(t)
      PROVE  Remove(marking, b.take)[p] = marking[p]
  BY <1>2, <1>4 DEF Remove, TypeOK, Marking, Bag
<1>6. QED
  BY <1>1, <1>3, <1>4, <1>5

(* A reservation leaves the places other active firings consume alone.     *)
LEMMA ReserveIsIndependent ==
  ASSUME IInv, NEW t \in Transition, NEW b \in Bindings[t],
         Enables(b, marking), Admissible(t),
         NEW f \in Active, NEW p \in Consume(firing[f].t)
  PROVE  p \notin Consume(t) /\ Remove(marking, b.take)[p] = marking[p]
<1>1. firing[f].t \in Transition
  BY DEF IInv, TypeOK, Reservation, Active
<1>2. p \in Place /\ p \notin Consume(t)
  BY <1>1, ConsumedArePlaces DEF Admissible, Conflict
<1>3. QED
  BY <1>2, ReserveTakesItsOwn DEF IInv

LEMMA ReservedTyped ==
  ASSUME TypeOK, NEW t \in Transition, NEW b \in Binding,
         NEW scope \in Scope \cup {NoScope}
  PROVE  /\ Reserved(t, b, scope) \in Reservation
         /\ [Reserved(t, b, scope) EXCEPT !.phase = "orphaned"] \in Reservation
<1>1. [p \in Place |-> IF p \in Consume(t) THEN marking[p] ELSE NoTokens[p]]
        \in Marking
  BY DEF TypeOK, Marking, Bag, NoTokens
<1>2. QED
  BY <1>1 DEF Reserved, Reservation, Phase, Binding

LEMMA ConflictSymmetric ==
  \A t, u : Conflict(t, u) <=> Conflict(u, t)
BY DEF Conflict

LEMMA LaneSetsFinite == \A l : OnLane(l) \in SUBSET Firing /\ IsFiniteSet(OnLane(l))
<1>1. IsFiniteSet(Firing)
  BY RuntimeAssumption, FS_Interval DEF Firing
<1>2. QED
  BY <1>1, FS_Subset DEF OnLane, Active

LEMMA AdmitKeepsIInv ==
  ASSUME IInv, NEW t \in Transition, NEW b \in Bindings[t],
         NEW scope \in ScopesOf[t], Admit(t, b, scope)
  PROVE  IInv'
<1> DEFINE r == Reserved(t, b, scope)
<1>1. TypeOK /\ attempt \in Firing /\ Admissible(t) /\ Enables(b, marking)
  BY DEF IInv, Admit
<1>2. b \in Binding /\ scope \in Scope
  BY <1>1, ReserveTakesItsOwn DEF Scope
<1>3. r \in Reservation
  BY <1>1, <1>2, ReservedTyped
<1>4. firing' = [firing EXCEPT ![attempt] = r]
  BY DEF Admit
<1>5. /\ firing' \in [Firing -> Reservation]
      /\ firing'[attempt] = r
      /\ \A f \in Firing \ {attempt} : firing'[f] = firing[f]
  BY <1>1, <1>3, <1>4 DEF TypeOK
<1>6. r.phase = "created" /\ r.t = t /\ r.take = b.take /\ r.read = b.read
      /\ \A p \in Place \cap Consume(t) : r.saved[p] = marking[p]
  BY DEF Reserved
<1>7. attempt \notin Active
  BY <1>1 DEF IInv, UnusedAhead, Active, ActivePhase, TypeOK, Firing
<1>8. Active' = Active \cup {attempt}
  BY <1>1, <1>5, <1>6, <1>7 DEF Active, ActivePhase
<1>9. TypeOK'
  <2>1. marking' \in Marking
    BY <1>1, ReserveTakesItsOwn DEF Admit
  <2>2. laneUse' \in [Lane -> Nat]
    BY <1>1, RuntimeAssumption DEF Admit, TypeOK
  <2>3. attempt' \in 1..MaxFirings + 1
    BY <1>1, RuntimeAssumption DEF Admit, TypeOK, Firing
  <2>4. QED
    BY <1>1, <1>5, <2>1, <2>2, <2>3 DEF Admit, TypeOK, budgets, arrivals
<1>10. LaneAccounting'
  <2> SUFFICES ASSUME NEW l \in Lane
               PROVE  /\ laneUse'[l] = Cardinality(OnLane(l)')
                      /\ laneUse'[l] <= Capacity[l]
    BY DEF LaneAccounting
  <2>1. OnLane(l)' = IF LaneOf[t] = l THEN OnLane(l) \cup {attempt} ELSE OnLane(l)
    BY <1>5, <1>6, <1>7, <1>8 DEF OnLane, Active
  <2>2. attempt \notin OnLane(l)
    BY <1>7 DEF OnLane
  <2>3. /\ laneUse[l] = Cardinality(OnLane(l)) /\ laneUse[l] \in Nat
        /\ laneUse[l] <= Capacity[l] /\ Capacity[l] \in Nat
    BY <1>1, RuntimeAssumption DEF IInv, LaneAccounting, TypeOK
  <2>4. laneUse'[l] = IF LaneOf[t] = l THEN laneUse[l] + 1 ELSE laneUse[l]
    BY <1>1, RuntimeAssumption DEF Admit, TypeOK
  <2>5. CASE LaneOf[t] = l
    <3>1. Cardinality(OnLane(l) \cup {attempt}) = Cardinality(OnLane(l)) + 1
      BY <2>2, LaneSetsFinite, FS_AddElement
    <3>2. laneUse[l] < Capacity[l]
      BY <1>1, <2>5 DEF Admissible
    <3>3. QED
      BY <2>1, <2>3, <2>4, <2>5, <3>1, <3>2
  <2>6. CASE LaneOf[t] # l
    BY <2>1, <2>3, <2>4, <2>6
  <2>7. QED
    BY <2>5, <2>6
<1>11. Exclusive'
  <2>1. \A f \in Active : ~Conflict(t, firing[f].t) /\ ~Conflict(firing[f].t, t)
    BY <1>1, ConflictSymmetric DEF Admissible
  <2>2. \A f \in Active : firing'[f] = firing[f]
    BY <1>5, <1>7 DEF Active
  <2>3. QED
    BY <1>5, <1>6, <1>8, <2>1, <2>2 DEF IInv, Exclusive
<1>12. ReservedInputsUntouched'
  <2>1. ASSUME NEW p \in Consume(t), NEW v \in Token
        PROVE  marking'[p][v] + b.take[p][v] = marking[p][v]
    BY <1>1, <1>2, ConsumedArePlaces DEF Admit, Remove, TypeOK, Marking, Bag, Binding
  <2>2. ASSUME NEW f \in Active, NEW p \in Consume(firing[f].t)
        PROVE  marking'[p] = marking[p] /\ firing'[f] = firing[f]
    BY <1>1, <1>5, <1>7, ReserveIsIndependent DEF Admit, Active
  <2>3. \A f \in Active : Consume(firing'[f].t) = Consume(firing[f].t)
    BY <1>5, <1>7 DEF Active
  <2>4. QED
    BY <1>5, <1>6, <1>8, <2>1, <2>2, <2>3, ConsumedArePlaces
       DEF IInv, ReservedInputsUntouched
<1>13. UnusedAhead'
  BY <1>1, <1>5 DEF Admit, IInv, UnusedAhead, TypeOK, Firing
<1>14. HoldsABinding'
  BY <1>5, <1>6, <1>7, <1>8 DEF IInv, HoldsABinding, Active
<1>15. QED
  BY <1>9, <1>10, <1>11, <1>12, <1>13, <1>14 DEF IInv

(* A resolver that raises takes the tokens and leaves nothing active.      *)
LEMMA ResolverRaiseKeepsIInv ==
  ASSUME IInv, NEW t \in Transition, NEW b \in Bindings[t],
         ScopeResolverRaises(t, b)
  PROVE  IInv'
<1> DEFINE r == [Reserved(t, b, NoScope) EXCEPT !.phase = "orphaned"]
<1>1. TypeOK /\ attempt \in Firing /\ Admissible(t) /\ Enables(b, marking)
  BY DEF IInv, ScopeResolverRaises
<1>2. r \in Reservation
  BY <1>1, ReserveTakesItsOwn, ReservedTyped
<1>3. firing' = [firing EXCEPT ![attempt] = r]
  BY DEF ScopeResolverRaises
<1>4. /\ firing' \in [Firing -> Reservation]
      /\ firing'[attempt] = r
      /\ \A f \in Firing \ {attempt} : firing'[f] = firing[f]
  BY <1>1, <1>2, <1>3 DEF TypeOK
<1>5. r.phase = "orphaned"
  BY DEF Reserved
<1>6. attempt \notin Active
  BY <1>1 DEF IInv, UnusedAhead, Active, ActivePhase, TypeOK, Firing
<1>7. Active' = Active /\ \A f \in Active : firing'[f] = firing[f]
  BY <1>1, <1>4, <1>5, <1>6 DEF Active, ActivePhase
<1>8. \A l : OnLane(l)' = OnLane(l)
  BY <1>7 DEF OnLane
<1>9. TypeOK'
  <2>1. marking' \in Marking
    BY <1>1, ReserveTakesItsOwn DEF ScopeResolverRaises
  <2>2. attempt' \in 1..MaxFirings + 1
    BY <1>1, RuntimeAssumption DEF ScopeResolverRaises, TypeOK, Firing
  <2>3. QED
    BY <1>1, <1>4, <2>1, <2>2 DEF ScopeResolverRaises, TypeOK, budgets, arrivals
<1>10. LaneAccounting'
  BY <1>8 DEF ScopeResolverRaises, IInv, LaneAccounting
<1>11. Exclusive'
  BY <1>7 DEF IInv, Exclusive
<1>12. ReservedInputsUntouched'
  <2>1. ASSUME NEW f \in Active, NEW p \in Consume(firing[f].t)
        PROVE  marking'[p] = marking[p] /\ firing'[f] = firing[f]
    BY <1>1, <1>7, ReserveIsIndependent DEF ScopeResolverRaises
  <2>2. QED
    BY <1>7, <2>1 DEF IInv, ReservedInputsUntouched
<1>13. UnusedAhead'
  BY <1>1, <1>4 DEF ScopeResolverRaises, IInv, UnusedAhead, TypeOK, Firing
<1>14. HoldsABinding'
  BY <1>7 DEF IInv, HoldsABinding
<1>15. QED
  BY <1>9, <1>10, <1>11, <1>12, <1>13, <1>14 DEF IInv

-----------------------------------------------------------------------------
(* Settlements.                                                            *)

(* Leaving _active and the lane keeps the other firings' facts.            *)
LEMMA ReleaseKeeps ==
  ASSUME IInv, NEW f \in Active, NEW phase \in {"completed", "failed"},
         Release(f, phase)
  PROVE  /\ Active' = Active \ {f}
         /\ \A g \in Active \ {f} : firing'[g] = firing[g]
         /\ firing' \in [Firing -> Reservation]
         /\ laneUse' \in [Lane -> Nat]
         /\ LaneAccounting' /\ Exclusive' /\ UnusedAhead' /\ HoldsABinding'
<1> DEFINE r == Settled(f, phase)
<1>1. TypeOK /\ f \in Firing /\ firing[f] \in Reservation
  BY DEF IInv, TypeOK, Active
<1>2. r \in Reservation /\ r.phase = phase /\ r.t = firing[f].t
  <2>1. NoTokens \in Marking
    BY DEF NoTokens, Marking, Bag
  <2>2. QED
    BY <1>1, <2>1 DEF Settled, Unused, Reservation, Phase
<1>3. /\ firing' \in [Firing -> Reservation]
      /\ firing'[f] = r
      /\ \A g \in Firing \ {f} : firing'[g] = firing[g]
  BY <1>1, <1>2 DEF Release, TypeOK
<1>4. Active' = Active \ {f} /\ \A g \in Active \ {f} : firing'[g] = firing[g]
  BY <1>1, <1>2, <1>3 DEF Active, ActivePhase
<1>5. LaneOf[firing[f].t] \in Lane
  BY <1>1, RuntimeAssumption DEF Reservation
<1>6. ASSUME NEW l \in Lane
      PROVE  /\ laneUse'[l] = Cardinality(OnLane(l)')
             /\ laneUse'[l] \in Nat /\ laneUse'[l] <= Capacity[l]
  <2>1. OnLane(l)' = OnLane(l) \ {f}
    BY <1>4 DEF OnLane
  <2>2. /\ laneUse[l] = Cardinality(OnLane(l)) /\ laneUse[l] \in Nat
        /\ laneUse[l] <= Capacity[l] /\ Capacity[l] \in Nat
    BY <1>1, RuntimeAssumption DEF IInv, LaneAccounting, TypeOK
  <2>3. CASE LaneOf[firing[f].t] = l
    <3>1. f \in OnLane(l)
      BY <2>3 DEF OnLane
    <3>2. Cardinality(OnLane(l) \ {f}) = Cardinality(OnLane(l)) - 1
          /\ Cardinality(OnLane(l) \ {f}) \in Nat
      BY <3>1, LaneSetsFinite, FS_RemoveElement, FS_CardinalityType
    <3>3. laneUse'[l] = laneUse[l] - 1
      BY <1>1, <2>3 DEF Release, TypeOK
    <3>4. QED
      BY <2>1, <2>2, <3>2, <3>3
  <2>4. CASE LaneOf[firing[f].t] # l
    <3>1. OnLane(l) \ {f} = OnLane(l)
      BY <2>4 DEF OnLane
    <3>2. laneUse'[l] = laneUse[l]
      BY <1>1, <2>4 DEF Release, TypeOK
    <3>3. QED
      BY <2>1, <2>2, <3>1, <3>2
  <2>5. QED
    BY <2>3, <2>4
<1>7. laneUse' \in [Lane -> Nat]
  BY <1>1, <1>5, <1>6 DEF Release, TypeOK
<1>8. LaneAccounting'
  BY <1>6 DEF LaneAccounting
<1>9. Exclusive'
  BY <1>4 DEF IInv, Exclusive
<1>10. UnusedAhead'
  BY <1>1, <1>2, <1>3 DEF Release, IInv, UnusedAhead, Active, ActivePhase
<1>11. HoldsABinding'
  BY <1>4 DEF IInv, HoldsABinding
<1>12. QED
  BY <1>3, <1>4, <1>7, <1>8, <1>9, <1>10, <1>11

(* A deposit lands only where no other active firing consumes.             *)
LEMMA DepositIsIndependent ==
  ASSUME IInv, NEW f \in Active, NEW d \in Deposits[firing[f].t],
         NEW g \in Active, f # g, NEW p \in Consume(firing[g].t)
  PROVE  /\ \A v \in Token : d[p][v] = 0
         /\ Add(marking, d)[p] = marking[p]
<1>1. firing[f].t \in Transition /\ firing[g].t \in Transition /\ marking \in Marking
  BY DEF IInv, TypeOK, Reservation, Active
<1>2. p \in Place /\ d \in Marking
  BY <1>1, ConsumedArePlaces, NetAssumption
<1>3. p \notin Write(firing[f].t)
  BY DEF IInv, Exclusive, Conflict
<1>4. \A v \in Token : d[p][v] = 0
  BY <1>1, <1>2, <1>3, NetAssumption DEF Marking, Bag
<1>5. QED
  BY <1>1, <1>2, <1>4 DEF Add, Marking, Bag

LEMMA CompleteKeepsIInv ==
  ASSUME IInv, NEW f \in Firing, NEW d \in Deposits[firing[f].t], Complete(f, d)
  PROVE  IInv'
<1>1. f \in Active /\ TypeOK /\ Release(f, "completed")
  BY DEF Complete, Active, ActivePhase, IInv
<1>2. /\ Active' = Active \ {f}
      /\ \A g \in Active \ {f} : firing'[g] = firing[g]
      /\ firing' \in [Firing -> Reservation] /\ laneUse' \in [Lane -> Nat]
      /\ LaneAccounting' /\ Exclusive' /\ UnusedAhead' /\ HoldsABinding'
  BY <1>1, ReleaseKeeps
<1>3. TypeOK'
  <2>1. d \in Marking
    BY <1>1, NetAssumption DEF TypeOK, Reservation
  <2>2. marking' \in Marking
    BY <1>1, <2>1 DEF Complete, Add, TypeOK, Marking, Bag
  <2>3. QED
    BY <1>1, <1>2, <2>2 DEF Complete, Release, UnblockFor, TypeOK, arrivals
<1>4. ReservedInputsUntouched'
  <2>1. ASSUME NEW g \in Active \ {f}, NEW p \in Consume(firing[g].t)
        PROVE  marking'[p] = marking[p]
    BY <1>1, DepositIsIndependent DEF Complete
  <2>2. QED
    BY <1>2, <2>1 DEF IInv, ReservedInputsUntouched
<1>5. QED
  BY <1>2, <1>3, <1>4 DEF IInv

LEMMA RollBackKeepsIInv ==
  ASSUME IInv, NEW f \in Firing, RollsBack(f)
  PROVE  IInv'
<1>1. f \in Active /\ TypeOK /\ RollBack(f) /\ Release(f, "failed")
      /\ late' \subseteq Firing
  BY DEF RollsBack, HandlerFails, ContractViolated, CancelDelivered, RollBack,
         Active, ActivePhase, IInv, TypeOK
<1>2. /\ Active' = Active \ {f}
      /\ \A g \in Active \ {f} : firing'[g] = firing[g]
      /\ firing' \in [Firing -> Reservation] /\ laneUse' \in [Lane -> Nat]
      /\ LaneAccounting' /\ Exclusive' /\ UnusedAhead' /\ HoldsABinding'
  BY <1>1, ReleaseKeeps
<1>3. firing[f] \in Reservation
  BY <1>1 DEF TypeOK
<1>4. TypeOK'
  <2>1. marking' \in Marking
    BY <1>1, <1>3 DEF RollBack, TypeOK, Reservation, Marking
  <2>2. QED
    BY <1>1, <1>2, <1>3, <2>1 DEF RollBack, Release, TypeOK, Reservation, arrivals
<1>5. ReservedInputsUntouched'
  <2>1. ASSUME NEW g \in Active \ {f}, NEW p \in Consume(firing[g].t)
        PROVE  marking'[p] = marking[p]
    <3>1. firing[g].t \in Transition /\ p \notin Consume(firing[f].t)
      BY <1>1 DEF TypeOK, Reservation, Active, IInv, Exclusive, Conflict
    <3>2. QED
      BY <1>1, <3>1, ConsumedArePlaces DEF RollBack
  <2>2. QED
    BY <1>2, <2>1 DEF IInv, ReservedInputsUntouched
<1>6. QED
  BY <1>2, <1>4, <1>5 DEF IInv

-----------------------------------------------------------------------------
(* The inductive invariant and what follows from it.                       *)

LEMMA FreshIInv ==
  ASSUME Fresh, marking \in Marking
  PROVE  IInv
<1>1. NoTokens \in Marking
  BY DEF NoTokens, Marking, Bag
<1>2. Unused \in Reservation /\ Unused.phase = "free"
  BY <1>1, NetAssumption DEF Unused, Reservation, Phase
<1>3. Active = {}
  BY <1>2 DEF Fresh, Active, ActivePhase
<1>4. \A l : OnLane(l) = {}
  BY <1>3 DEF OnLane
<1>5. TypeOK
  BY <1>2, RuntimeAssumption DEF Fresh, TypeOK, Firing
<1>6. LaneAccounting
  <2> SUFFICES ASSUME NEW l \in Lane
               PROVE  /\ laneUse[l] = Cardinality(OnLane(l))
                      /\ laneUse[l] <= Capacity[l]
    BY DEF LaneAccounting
  <2>1. laneUse[l] = 0 /\ Cardinality(OnLane(l)) = 0
    BY <1>4, FS_EmptySet DEF Fresh
  <2>2. Capacity[l] \in Nat
    BY RuntimeAssumption
  <2>3. QED
    BY <2>1, <2>2
<1>7. UnusedAhead
  BY <1>2 DEF Fresh, UnusedAhead
<1>8. QED
  BY <1>3, <1>5, <1>6, <1>7
     DEF IInv, Exclusive, ReservedInputsUntouched, HoldsABinding

LEMMA InitIInv == Init => IInv
  BY FreshIInv, RuntimeAssumption DEF Init

LEMMA StepIInv == IInv /\ [Next]_vars => IInv'
<1> SUFFICES ASSUME IInv, [Next]_vars PROVE IInv'
  OBVIOUS
<1>1. TypeOK
  BY DEF IInv
<1>2. QED
  BY <1>1, StepKinds, QuietKeepsIInv, AdmitKeepsIInv, ResolverRaiseKeepsIInv,
     CompleteKeepsIInv, RollBackKeepsIInv, ArrivalKeepsIInv

LEMMA IInvHolds == Spec => []IInv
BY InitIInv, StepIInv, PTL DEF Spec

(* The state stays well-typed: in particular no place of the net ever      *)
(* holds a negative number of a token, and no lane counter goes below      *)
(* zero, whichever firings overlap, fail, are cancelled or leak.           *)
THEOREM TypeCorrect == Spec => []TypeOK
<1>1. IInv => TypeOK
  BY DEF IInv
<1>2. QED
  BY <1>1, IInvHolds, PTL

(* Runtime's hand-kept lane counters count the active firings and stay     *)
(* within capacity, for every net and lane layout.                         *)
THEOREM LanesAreAccounted == Spec => []LaneAccounting
<1>1. IInv => LaneAccounting
  BY DEF IInv
<1>2. QED
  BY <1>1, IInvHolds, PTL

(* While a firing is active, the places it consumes from hold exactly what *)
(* its reservation left, so _restore_reservation, which overwrites them    *)
(* with their old contents, undoes the reservation and nothing else.       *)
THEOREM RollbackIsExact == Spec => []ReservedInputsUntouched
<1>1. IInv => ReservedInputsUntouched
  BY DEF IInv
<1>2. QED
  BY <1>1, IInvHolds, PTL

-----------------------------------------------------------------------------
(* The committed marking.                                                  *)

Owned(p) == \E f \in Active : p \in Consume(firing[f].t)

CommittedIs ==
  \A p \in Place :
    /\ \A f \in Active :
         p \in Consume(firing[f].t) => Committed[p] = firing[f].saved[p]
    /\ ~Owned(p) => Committed[p] = marking[p]

(* At most one active firing consumes from a place, so the committed       *)
(* contents of a place are well determined.                                *)
LEMMA CommittedValue == IInv => CommittedIs
<1> SUFFICES ASSUME IInv, NEW p \in Place
             PROVE  /\ \A f \in Active : p \in Consume(firing[f].t)
                           => Committed[p] = firing[f].saved[p]
                    /\ ~Owned(p) => Committed[p] = marking[p]
  BY DEF CommittedIs
<1>1. ASSUME NEW f \in Active, NEW g \in Active, p \in Consume(firing[f].t),
             p \in Consume(firing[g].t)
      PROVE  f = g
  BY <1>1 DEF IInv, Exclusive, Conflict
<1>2. ASSUME NEW f \in Active, p \in Consume(firing[f].t)
      PROVE  Committed[p] = firing[f].saved[p]
  <2> DEFINE g == CHOOSE g \in Active : p \in Consume(firing[g].t)
  <2>1. g \in Active /\ p \in Consume(firing[g].t)
    BY <1>2
  <2>2. g = f
    BY <1>1, <1>2, <2>1
  <2>3. Committed[p] = firing[g].saved[p]
    BY <1>2 DEF Committed
  <2>4. QED
    BY <2>2, <2>3
<1>3. ~Owned(p) => Committed[p] = marking[p]
  BY DEF Committed, Owned
<1>4. QED
  BY <1>2, <1>3

LEMMA CommittedValueNext == IInv' => CommittedIs'
BY CommittedValue, PTL

LEMMA CommittedExt ==
  ASSUME NEW F, F = [p \in Place |-> F[p]],
         \A p \in Place : Committed'[p] = F[p]
  PROVE  Committed' = F
BY DEF Committed

LEMMA PhasesOnlyCommitted ==
  ASSUME IInv, IInv', PhasesOnly, NEW p \in Place
  PROVE  /\ Owned(p)' <=> Owned(p)
         /\ Owned(p) => Committed'[p] = Committed[p]
         /\ ~Owned(p) => /\ Committed'[p] = marking'[p]
                         /\ Committed[p] = marking[p]
<1>1. Active' = Active
  BY PhasesOnlyKeeps
<1>2. \A f \in Active : /\ firing'[f].t = firing[f].t
                        /\ firing'[f].saved = firing[f].saved
  BY DEF PhasesOnly, Active
<1>3. CommittedIs /\ CommittedIs'
  BY CommittedValue, CommittedValueNext
<1>4. Owned(p)' <=> Owned(p)
  BY <1>1, <1>2 DEF Owned
<1>5. QED
  BY <1>1, <1>2, <1>3, <1>4 DEF CommittedIs, Owned

LEMMA QuietCommitted ==
  ASSUME IInv, IInv', QuietStep
  PROVE  Committed' = Committed
<1>1. PhasesOnly /\ UNCHANGED marking
  BY QuietIsPhasesOnly DEF IInv
<1>2. \A p \in Place : Committed'[p] = Committed[p]
  BY <1>1, PhasesOnlyCommitted
<1>3. QED
  BY <1>2 DEF Committed

LEMMA ArrivalCommitted ==
  ASSUME IInv, IInv', NEW a \in Arrivals, Applies(a)
  PROVE  Committed' = Inject(Committed, a)
<1>1. PhasesOnly /\ marking' = Inject(marking, a) /\ a \in Arrival
  BY AppliesIsPhasesOnly, RuntimeAssumption DEF IInv, Applies, Apply
<1>2. \A p \in Place : Owned(p) => p \notin a.places
  BY DEF Owned, Applies, ArrivalConflicts
<1>3. ASSUME NEW p \in Place
      PROVE  Committed'[p] = Inject(Committed, a)[p]
  <2>1. /\ Owned(p) => Committed'[p] = Committed[p]
        /\ ~Owned(p) => Committed'[p] = marking'[p] /\ Committed[p] = marking[p]
    BY <1>1, PhasesOnlyCommitted
  <2>2. CASE Owned(p)
    BY <1>2, <2>1, <2>2 DEF Inject
  <2>3. CASE ~Owned(p)
    <3>1. marking'[p] = Inject(marking, a)[p]
      BY <1>1
    <3>2. Inject(marking, a)[p] = Inject(Committed, a)[p]
      BY <2>1, <2>3 DEF Inject
    <3>3. QED
      BY <2>1, <2>3, <3>1, <3>2
  <2>4. QED
    BY <2>2, <2>3
<1>4. QED
  BY <1>3, CommittedExt DEF Inject

LEMMA AdmitCommitted ==
  ASSUME IInv, IInv', NEW t \in Transition, NEW b \in Bindings[t],
         NEW scope \in ScopesOf[t], Admit(t, b, scope)
  PROVE  Committed' = Committed
<1> DEFINE r == Reserved(t, b, scope)
<1>1. TypeOK /\ attempt \in Firing /\ Admissible(t) /\ Enables(b, marking)
      /\ marking' = Remove(marking, b.take)
  BY DEF IInv, Admit
<1>2. attempt \notin Active
  BY <1>1 DEF IInv, UnusedAhead, Active, ActivePhase, TypeOK, Firing
<1>3. /\ firing'[attempt] = r
      /\ \A f \in Firing \ {attempt} : firing'[f] = firing[f]
  BY <1>1 DEF Admit, TypeOK
<1>4. r.phase = "created" /\ r.t = t
      /\ \A p \in Place \cap Consume(t) : r.saved[p] = marking[p]
  BY DEF Reserved
<1>5. Active' = Active \cup {attempt} /\ \A f \in Active : firing'[f] = firing[f]
  BY <1>1, <1>2, <1>3, <1>4 DEF Active, ActivePhase
<1>6. CommittedIs /\ CommittedIs'
  BY CommittedValue, CommittedValueNext
<1>7. ASSUME NEW p \in Place
      PROVE  Committed'[p] = Committed[p]
  <2>1. CASE Owned(p)
    BY <2>1, <1>5, <1>6 DEF CommittedIs, Owned
  <2>2. CASE ~Owned(p) /\ p \in Consume(t)
    BY <2>2, <1>3, <1>4, <1>5, <1>6 DEF CommittedIs
  <2>3. CASE ~Owned(p) /\ p \notin Consume(t)
    <3>1. ~Owned(p)'
      BY <2>3, <1>3, <1>4, <1>5 DEF Owned
    <3>2. marking'[p] = marking[p]
      BY <2>3, <1>1, ReserveTakesItsOwn
    <3>3. QED
      BY <2>3, <3>1, <3>2, <1>6 DEF CommittedIs
  <2>4. QED
    BY <2>1, <2>2, <2>3
<1>8. QED
  BY <1>7 DEF Committed

LEMMA RollBackCommitted ==
  ASSUME IInv, IInv', NEW f \in Firing, RollsBack(f)
  PROVE  Committed' = Committed
<1>1. f \in Active /\ TypeOK /\ RollBack(f) /\ Release(f, "failed")
  BY DEF RollsBack, HandlerFails, ContractViolated, CancelDelivered, RollBack,
         Active, ActivePhase, IInv
<1>2. /\ Active' = Active \ {f}
      /\ \A g \in Active \ {f} : firing'[g] = firing[g]
  BY <1>1, ReleaseKeeps
<1>3. CommittedIs /\ CommittedIs'
  BY CommittedValue, CommittedValueNext
<1>4. \A g \in Active \ {f} : Consume(firing[g].t) \cap Consume(firing[f].t) = {}
  BY <1>1 DEF IInv, Exclusive, Conflict
<1>5. ASSUME NEW p \in Place
      PROVE  Committed'[p] = Committed[p]
  <2>0. marking'[p] = IF p \in Consume(firing[f].t) THEN firing[f].saved[p]
                                                  ELSE marking[p]
    BY <1>1 DEF RollBack
  <2>1. CASE p \in Consume(firing[f].t)
    <3>1. ~Owned(p)'
      BY <2>1, <1>2, <1>4 DEF Owned
    <3>2. QED
      BY <2>0, <2>1, <3>1, <1>1, <1>3 DEF CommittedIs
  <2>2. ASSUME NEW g \in Active \ {f}, p \in Consume(firing[g].t)
        PROVE  Committed'[p] = Committed[p]
    BY <2>2, <1>2, <1>3 DEF CommittedIs
  <2>3. CASE ~Owned(p)
    BY <2>0, <2>3, <1>1, <1>2, <1>3 DEF CommittedIs, Owned
  <2>4. QED
    BY <2>1, <2>2, <2>3 DEF Owned
<1>6. QED
  BY <1>5 DEF Committed

(* A completion takes a binding's tokens, all committed, and deposits.     *)
LEMMA CompleteCommitted ==
  ASSUME IInv, IInv', NEW f \in Firing, NEW d \in Deposits[firing[f].t],
         Complete(f, d)
  PROVE  /\ firing[f].t \in Transition
         /\ d \in Marking
         /\ \E b \in Bindings[firing[f].t] :
              /\ b \in Binding
              /\ firing[f].take = b.take /\ firing[f].read = b.read
              /\ \A p \in Place, v \in Token : b.take[p][v] <= Committed[p][v]
              /\ Committed' = Add(Remove(Committed, b.take), d)
<1>1. f \in Active /\ TypeOK /\ Release(f, "completed") /\ marking' = Add(marking, d)
  BY DEF Complete, Active, ActivePhase, IInv
<1>2. /\ Active' = Active \ {f}
      /\ \A g \in Active \ {f} : firing'[g] = firing[g]
  BY <1>1, ReleaseKeeps
<1>3. CommittedIs /\ CommittedIs'
  BY CommittedValue, CommittedValueNext
<1>4. firing[f].t \in Transition
  BY <1>1 DEF TypeOK, Reservation
<1>5. PICK b \in Bindings[firing[f].t] : firing[f].take = b.take /\ firing[f].read = b.read
  BY <1>1 DEF IInv, HoldsABinding
<1>6. b \in Binding /\ d \in Marking
  BY <1>4, NetAssumption
<1>7. \A p \in Place, v \in Token :
        /\ b.take[p][v] \in Nat /\ d[p][v] \in Nat /\ marking[p][v] \in Nat
        /\ p \notin Consume(firing[f].t) => b.take[p][v] = 0
  BY <1>1, <1>4, <1>6, NetAssumption DEF Binding, Marking, Bag, TypeOK
<1>8. \A g \in Active \ {f} : Consume(firing[g].t) \cap Consume(firing[f].t) = {}
  BY <1>1 DEF IInv, Exclusive, Conflict
<1>9. Committed \in Marking /\ Committed' \in Marking
  <2>1. \A g \in Active : firing[g].saved \in Marking
    BY <1>1 DEF TypeOK, Reservation, Active
  <2>2. \A g \in Active' : firing'[g].saved \in Marking
    BY <1>2, <2>1
  <2>3. marking \in Marking /\ marking' \in Marking
    BY DEF IInv, TypeOK
  <2>4. \A p \in Place : Committed[p] \in Bag /\ Committed'[p] \in Bag
    BY <1>3, <2>1, <2>2, <2>3 DEF CommittedIs, Owned, Marking
  <2>5. QED
    BY <2>4 DEF Committed, Marking
<1>10. ASSUME NEW p \in Place, NEW v \in Token
       PROVE  /\ b.take[p][v] <= Committed[p][v]
              /\ Committed'[p][v] = Committed[p][v] - b.take[p][v] + d[p][v]
  <2>0. marking'[p][v] = marking[p][v] + d[p][v]
    BY <1>1 DEF Add
  <2>1. CASE p \in Consume(firing[f].t)
    <3>1. ~Owned(p)'
      BY <2>1, <1>2, <1>8 DEF Owned
    <3>2. Committed'[p][v] = marking'[p][v] /\ Committed[p][v] = firing[f].saved[p][v]
      BY <2>1, <3>1, <1>1, <1>3 DEF CommittedIs
    <3>3. marking[p][v] + b.take[p][v] = firing[f].saved[p][v]
      BY <2>1, <1>1, <1>5 DEF IInv, ReservedInputsUntouched
    <3>4. QED
      BY <2>0, <3>2, <3>3, <1>7
  <2>2. ASSUME NEW g \in Active \ {f}, p \in Consume(firing[g].t)
        PROVE  /\ b.take[p][v] <= Committed[p][v]
               /\ Committed'[p][v] = Committed[p][v] - b.take[p][v] + d[p][v]
    <3>1. d[p][v] = 0 /\ b.take[p][v] = 0
      BY <2>2, <1>1, <1>7, <1>8, DepositIsIndependent
    <3>2. Committed'[p] = Committed[p]
      BY <2>2, <1>2, <1>3 DEF CommittedIs
    <3>3. Committed[p][v] \in Nat
      BY <1>9 DEF Marking, Bag
    <3>4. QED
      BY <3>1, <3>2, <3>3
  <2>3. CASE ~Owned(p)
    <3>1. ~Owned(p)' /\ p \notin Consume(firing[f].t)
      BY <2>3, <1>1, <1>2 DEF Owned
    <3>2. Committed'[p][v] = marking'[p][v] /\ Committed[p][v] = marking[p][v]
      BY <2>3, <3>1, <1>3 DEF CommittedIs
    <3>3. QED
      BY <2>0, <3>1, <3>2, <1>7
  <2>4. QED
    BY <2>1, <2>2, <2>3 DEF Owned
<1>11. Committed' = Add(Remove(Committed, b.take), d)
  BY <1>9, <1>10 DEF Add, Remove, Marking, Bag
<1>12. QED
  BY <1>4, <1>5, <1>6, <1>10, <1>11

-----------------------------------------------------------------------------
(* Refinement.                                                             *)

LEMMA InitRefines == Init => Abstract!Init
<1> SUFFICES ASSUME Init PROVE Abstract!Init
  OBVIOUS
<1>1. IInv
  BY InitIInv
<1>2. Active = {}
  <2>1. Unused.phase = "free"
    BY DEF Unused
  <2>2. QED
    BY <2>1 DEF Init, Fresh, Active, ActivePhase
<1>3. CommittedIs
  BY <1>1, CommittedValue
<1>4. \A p \in Place : Committed[p] = InitialMarking[p]
  BY <1>2, <1>3 DEF Init, CommittedIs, Owned
<1>5. Committed = InitialMarking
  BY <1>4, RuntimeAssumption DEF Committed, Marking
<1>6. QED
  BY <1>5 DEF Abstract!Init

LEMMA StepRefines ==
  ASSUME ScopeMayRaise = {}, IInv, IInv', [Next]_vars
  PROVE  [Abstract!Next]_Committed
<1>1. TypeOK
  BY DEF IInv
<1>2. CASE QuietStep
  BY <1>2, QuietCommitted
<1>3. ASSUME NEW t \in Transition, NEW b \in Bindings[t],
             NEW scope \in ScopesOf[t], Admit(t, b, scope)
      PROVE  Committed' = Committed
  BY <1>3, AdmitCommitted
<1>4. ASSUME NEW t \in Transition, NEW b \in Bindings[t]
      PROVE  ~ScopeResolverRaises(t, b)
  BY DEF ScopeResolverRaises
<1>5. ASSUME NEW f \in Firing, NEW d \in Deposits[firing[f].t], Complete(f, d)
      PROVE  Abstract!Next
  <2>1. Abstract!Fire(firing[f].t)
    BY <1>5, CompleteCommitted DEF Abstract!Fire, Abstract!Add, Abstract!Remove,
       Add, Remove
  <2>2. QED
    BY <2>1, <1>5, CompleteCommitted DEF Abstract!Next
<1>6. ASSUME NEW f \in Firing, RollsBack(f)
      PROVE  Committed' = Committed
  BY <1>6, RollBackCommitted
<1>7. ASSUME NEW a \in Arrivals, Applies(a)
      PROVE  Abstract!Next
  BY <1>7, ArrivalCommitted DEF Abstract!Next, Abstract!Arrive, Abstract!Inject, Inject
<1>8. QED
  BY <1>1, <1>2, <1>3, <1>4, <1>5, <1>6, <1>7, StepKinds

(* The Runtime implements the atomic net: as long as no scope resolver     *)
(* raises, every overlapping, failing, cancelled or leaking run changes    *)
(* the committed marking only by whole firings and whole arrivals.         *)
THEOREM RuntimeIsAtomic ==
  ASSUME ScopeMayRaise = {}
  PROVE  Spec => ImplementsAtomicNet
<1>1. Init => Abstract!Init
  BY InitRefines
<1>2. IInv /\ IInv' /\ [Next]_vars => [Abstract!Next]_Committed
  BY StepRefines
<1>3. QED
  BY <1>1, <1>2, IInvHolds, PTL DEF Spec, Abstract!Spec, ImplementsAtomicNet

-----------------------------------------------------------------------------
(* Blocking and unblocking.                                                *)

LEMMA ReadArePlaces == \A t \in Transition : Read(t) \subseteq Place
BY NetAssumption DEF Read

LEMMA CommittedTyped == IInv => Committed \in Marking
<1> SUFFICES ASSUME IInv PROVE Committed \in Marking
  OBVIOUS
<1>1. \A f \in Active : firing[f].saved \in Marking
  BY DEF IInv, TypeOK, Reservation, Active
<1>2. \A p \in Place : Committed[p] \in Bag
  BY <1>1, CommittedValue DEF CommittedIs, Owned, Marking, IInv, TypeOK
<1>3. QED
  BY <1>2 DEF Committed, Marking

LEMMA QuietKeepsBudgets ==
  ASSUME QuietStep
  PROVE  UNCHANGED <<failures, blocked>>
BY DEF QuietStep, Start, AdmitReturns, Stop, StopReturns, HandlerStarts,
       CancelSwallowed, SettleRaises, NeverStarted, LateWorkerEnds, CancelScope,
       InjectRaises, InjectWaits, InjectNowRaises, budgets, vars

(* A resolver that raises commits the loss of the tokens reserve took.     *)
LEMMA ResolverRaiseOnlyLoses ==
  ASSUME IInv, IInv', NEW t \in Transition, NEW b \in Bindings[t],
         ScopeResolverRaises(t, b), NEW p \in Place, NEW v \in Token
  PROVE  Committed'[p][v] <= Committed[p][v]
<1>1. TypeOK /\ attempt \in Firing /\ Admissible(t) /\ Enables(b, marking)
      /\ marking' = Remove(marking, b.take)
  BY DEF IInv, ScopeResolverRaises
<1>2. /\ firing'[attempt].phase = "orphaned"
      /\ \A f \in Firing \ {attempt} : firing'[f] = firing[f]
  BY <1>1 DEF ScopeResolverRaises, TypeOK, Reserved
<1>3. attempt \notin Active
  <2>1. firing[attempt].phase = "free"
    BY <1>1 DEF IInv, UnusedAhead, Firing
  <2>2. QED
    BY <2>1 DEF Active, ActivePhase
<1>4. Active' = Active /\ \A f \in Active : firing'[f] = firing[f]
  BY <1>1, <1>2, <1>3 DEF Active, ActivePhase
<1>5. CommittedIs /\ CommittedIs' /\ Committed \in Marking
  BY CommittedValue, CommittedValueNext, CommittedTyped
<1>6. CASE Owned(p)
  <2>1. Committed'[p] = Committed[p]
    BY <1>4, <1>5, <1>6 DEF CommittedIs, Owned
  <2>2. QED
    BY <1>5, <2>1 DEF Marking, Bag
<1>7. CASE ~Owned(p)
  <2>1. Committed'[p] = marking'[p] /\ Committed[p] = marking[p]
    BY <1>4, <1>5, <1>7 DEF CommittedIs, Owned
  <2>2. marking'[p][v] = marking[p][v] - b.take[p][v]
    BY <1>1 DEF Remove
  <2>3. marking[p][v] \in Nat /\ b.take[p][v] \in Nat
    BY <1>1, NetAssumption DEF TypeOK, Marking, Bag, Binding
  <2>4. QED
    BY <2>1, <2>2, <2>3
<1>8. QED
  BY <1>6, <1>7

(* No step commits a token to a place a still-blocked transition consumes  *)
(* or reads from, for every net: _unblock_for is called wherever it must   *)
(* be.                                                                     *)
THEOREM GainsUnblock == Spec => CommittedGainUnblocks
<1> DEFINE Gains == \A t \in blocked' : \A p \in Consume(t) \cup Read(t) :
                      \A v \in Token : Committed'[p][v] <= Committed[p][v]
<1>1. ASSUME IInv, IInv', [Next]_vars
      PROVE  Gains
  <2> SUFFICES ASSUME NEW t \in blocked', NEW p \in Consume(t) \cup Read(t),
                      NEW v \in Token
               PROVE  Committed'[p][v] <= Committed[p][v]
    OBVIOUS
  <2>1. TypeOK /\ t \in Transition /\ p \in Place
    BY <1>1, ConsumedArePlaces, ReadArePlaces DEF IInv, TypeOK
  <2>2. Committed[p][v] \in Nat
    BY <1>1, <2>1, CommittedTyped DEF Marking, Bag
  <2>3. CASE Committed' = Committed
    BY <2>2, <2>3
  <2>4. ASSUME NEW u \in Transition, NEW b \in Bindings[u],
               ScopeResolverRaises(u, b)
        PROVE  Committed'[p][v] <= Committed[p][v]
    BY <1>1, <2>1, <2>4, ResolverRaiseOnlyLoses
  <2>5. ASSUME NEW f \in Firing, NEW d \in Deposits[firing[f].t], Complete(f, d)
        PROVE  Committed'[p][v] <= Committed[p][v]
    <3>1. d[p][v] = 0
      BY <2>1, <2>5 DEF Complete, UnblockFor, NoTokens
    <3>2. PICK b \in Binding : Committed' = Add(Remove(Committed, b.take), d)
      BY <1>1, <2>5, CompleteCommitted
    <3>3. Committed'[p][v] = Committed[p][v] - b.take[p][v] + d[p][v]
      BY <2>1, <3>2 DEF Add, Remove
    <3>4. b.take[p][v] \in Nat
      BY <2>1 DEF Binding, Marking, Bag
    <3>5. QED
      BY <2>2, <3>1, <3>3, <3>4
  <2>6. ASSUME NEW a \in Arrivals, Applies(a)
        PROVE  Committed'[p][v] <= Committed[p][v]
    <3>1. p \notin a.places
      BY <2>6 DEF Applies, Apply, UnblockFor
    <3>2. Committed' = Inject(Committed, a)
      BY <1>1, <2>6, ArrivalCommitted
    <3>3. Committed'[p] = Committed[p]
      BY <2>1, <3>1, <3>2 DEF Inject
    <3>4. QED
      BY <2>2, <3>3
  <2>7. QED
    BY <1>1, <2>1, <2>3, <2>4, <2>5, <2>6, StepKinds, QuietCommitted,
       AdmitCommitted, RollBackCommitted
<1>2. QED
  BY <1>1, IInvHolds, PTL DEF Spec, CommittedGainUnblocks

-----------------------------------------------------------------------------
(* Admission.                                                              *)

(* Quiet steps between two free event loops change nothing _admit looks    *)
(* at; the one that frees the loop is _admit's own return.                 *)
LEMMA QuietKeepsAdmissible ==
  ASSUME TypeOK, QuietStep, turn' = "loop", status' = "running"
  PROVE  \/ AdmitReturns
         \/ /\ turn = "loop" /\ status = "running"
            /\ \A t \in Transition : Admissible(t)' <=> Admissible(t)
<1>1. PhasesOnly /\ UNCHANGED <<marking, failures, blocked>>
  BY QuietIsPhasesOnly, QuietKeepsBudgets
<1>2. Active' = Active /\ \A f \in Active : firing'[f].t = firing[f].t
  BY <1>1 DEF PhasesOnly, Active
<1>3. \A t \in Transition : Admissible(t)' <=> Admissible(t)
  BY <1>1, <1>2 DEF Admissible, PhasesOnly
<1>4. AdmitReturns \/ (turn = "loop" /\ status = "running")
  BY DEF QuietStep, Start, AdmitReturns, Stop, StopReturns, HandlerStarts,
         CancelSwallowed, SettleRaises, NeverStarted, LateWorkerEnds, CancelScope,
         InjectRaises, InjectWaits, InjectNowRaises, CanCallInject, vars
<1>5. QED
  BY <1>3, <1>4

(* No admission opportunity is ever missed, for every net: when the event  *)
(* loop is free, _admit would find no candidate.                           *)
THEOREM AdmissionIsEager == Spec => []NothingLeftToAdmit
<1>1. Init => NothingLeftToAdmit
  BY DEF Init, Fresh, NothingLeftToAdmit
<1>2. ASSUME IInv, NothingLeftToAdmit, [Next]_vars
      PROVE  NothingLeftToAdmit'
  <2> SUFFICES ASSUME status' = "running", turn' = "loop", attempt' \in Firing,
                      ~PolicyMayDecline, ScopeMayRaise = {},
                      NEW t \in Transition
               PROVE  ~Admissible(t)'
    BY DEF NothingLeftToAdmit
  <2>1. TypeOK
    BY <1>2 DEF IInv
  <2>2. QuietStep
    <3>1. \A u \in Transition : \A b \in Bindings[u] :
            /\ ~ScopeResolverRaises(u, b)
            /\ \A scope \in ScopesOf[u] : ~Admit(u, b, scope)
      BY DEF ScopeResolverRaises, Admit, Admitting
    <3>2. \A f \in Firing :
            ~RollsBack(f) /\ \A d \in Deposits[firing[f].t] : ~Complete(f, d)
      BY DEF RollsBack, HandlerFails, ContractViolated, CancelDelivered, RollBack,
             Complete, Release
    <3>3. \A a \in Arrivals : ~Applies(a)
      BY DEF Applies, Apply
    <3>4. QED
      BY <1>2, <2>1, <3>1, <3>2, <3>3, StepKinds
  <2>3. attempt' = attempt
    BY <2>1, <2>2, QuietIsPhasesOnly DEF PhasesOnly
  <2>4. CASE AdmitReturns
    <3>1. /\ \A u \in Transition : ~Admissible(u)
          /\ UNCHANGED <<marking, laneUse, firing, failures, blocked>>
      BY <2>3, <2>4 DEF AdmitReturns, admission, budgets
    <3>2. QED
      BY <3>1 DEF Admissible, Active
  <2>5. CASE turn = "loop" /\ status = "running" /\ (Admissible(t)' <=> Admissible(t))
    BY <1>2, <2>3, <2>5 DEF NothingLeftToAdmit
  <2>6. QED
    BY <2>1, <2>2, <2>4, <2>5, QuietKeepsAdmissible
<1>3. QED
  BY <1>1, <1>2, IInvHolds, PTL DEF Spec

-----------------------------------------------------------------------------
(* The failure budget.                                                     *)

(* The failures counted, with room for the one firing in flight.           *)
BudgetInv ==
  Budget # 0 => \A t \in Transition : Consume(t) \cup Write(t) # {} =>
    /\ failures[t] <= Budget
    /\ (\E f \in Active : firing[f].t = t) => failures[t] < Budget

(* A transition that consumes or produces never overlaps itself.           *)
LEMMA OneInFlight ==
  ASSUME IInv, NEW f \in Active, NEW g \in Active, firing[f].t = firing[g].t,
         Consume(firing[f].t) \cup Write(firing[f].t) # {}
  PROVE  f = g
BY DEF IInv, Exclusive, Conflict

LEMMA StepBudget ==
  ASSUME IInv, BudgetInv, [Next]_vars
  PROVE  BudgetInv'
<1> SUFFICES ASSUME Budget # 0, NEW t \in Transition,
                    Consume(t) \cup Write(t) # {}
             PROVE  /\ failures'[t] <= Budget
                    /\ (\E f \in Active' : firing'[f].t = t) => failures'[t] < Budget
  BY DEF BudgetInv
<1> USE RuntimeAssumption
<1>1. /\ TypeOK /\ failures[t] \in Nat /\ failures[t] <= Budget
      /\ (\E f \in Active : firing[f].t = t) => failures[t] < Budget
  BY DEF IInv, TypeOK, BudgetInv
<1>2. CASE PhasesOnly /\ UNCHANGED failures
  <2>1. Active' = Active /\ \A f \in Active : firing'[f].t = firing[f].t
    BY <1>2 DEF PhasesOnly, Active
  <2>2. QED
    BY <1>1, <1>2, <2>1
<1>3. ASSUME NEW u \in Transition, NEW b \in Bindings[u], NEW scope \in ScopesOf[u],
             Admit(u, b, scope)
      PROVE  /\ failures'[t] <= Budget
             /\ (\E f \in Active' : firing'[f].t = t) => failures'[t] < Budget
  <2>1. firing'[attempt].t = u /\ attempt \in Firing
        /\ \A f \in Firing \ {attempt} : firing'[f] = firing[f]
    BY <1>1, <1>3 DEF Admit, TypeOK, Reserved
  <2>2. failures' = failures /\ failures[u] < Budget
    BY <1>3 DEF Admit, Admissible, budgets
  <2>3. QED
    BY <1>1, <2>1, <2>2 DEF Active
<1>4. ASSUME NEW u \in Transition, NEW b \in Bindings[u], ScopeResolverRaises(u, b)
      PROVE  /\ failures'[t] <= Budget
             /\ (\E f \in Active' : firing'[f].t = t) => failures'[t] < Budget
  <2>1. firing'[attempt].phase = "orphaned" /\ attempt \in Firing
        /\ \A f \in Firing \ {attempt} : firing'[f] = firing[f]
    BY <1>1, <1>4 DEF ScopeResolverRaises, TypeOK, Reserved
  <2>2. failures' = failures
    BY <1>4 DEF ScopeResolverRaises, budgets
  <2>3. QED
    BY <1>1, <2>1, <2>2 DEF Active, ActivePhase
<1>5. ASSUME NEW f \in Firing, NEW d \in Deposits[firing[f].t], Complete(f, d)
      PROVE  /\ failures'[t] <= Budget
             /\ (\E g \in Active' : firing'[g].t = t) => failures'[t] < Budget
  BY <1>5 DEF Complete
<1>6. ASSUME NEW f \in Firing, RollsBack(f)
      PROVE  /\ failures'[t] <= Budget
             /\ (\E g \in Active' : firing'[g].t = t) => failures'[t] < Budget
  <2>1. f \in Active /\ RollBack(f) /\ Release(f, "failed")
    BY <1>6 DEF RollsBack, HandlerFails, ContractViolated, CancelDelivered, RollBack,
                Active, ActivePhase
  <2>2. Active' = Active \ {f} /\ \A g \in Active \ {f} : firing'[g] = firing[g]
    BY <2>1, ReleaseKeeps
  <2>3. failures'[t] = IF firing[f].t = t THEN failures[t] + 1 ELSE failures[t]
    BY <1>1, <2>1 DEF RollBack, TypeOK
  <2>4. CASE firing[f].t = t
    <3>1. ~\E g \in Active' : firing'[g].t = t
      BY <2>1, <2>2, <2>4, OneInFlight
    <3>2. QED
      BY <1>1, <2>1, <2>3, <2>4, <3>1
  <2>5. CASE firing[f].t # t
    BY <1>1, <2>2, <2>3, <2>5
  <2>6. QED
    BY <2>4, <2>5
<1>7. ASSUME NEW a \in Arrivals, Applies(a)
      PROVE  PhasesOnly /\ UNCHANGED failures
  BY <1>1, <1>7, AppliesIsPhasesOnly DEF Applies, Apply
<1>8. QED
  BY <1>1, <1>2, <1>3, <1>4, <1>5, <1>6, <1>7, StepKinds, QuietIsPhasesOnly,
     QuietKeepsBudgets

(* A transition that consumes or produces never fails more often in a row  *)
(* than max_consecutive_failures, although the count is compared before    *)
(* the firing and raised after it.                                         *)
THEOREM BudgetIsKept == Spec => []BudgetBoundsFailures
<1>1. Init => BudgetInv
  <2> SUFFICES ASSUME Init PROVE BudgetInv
    OBVIOUS
  <2>1. Active = {}
    BY DEF Init, Fresh, Active, ActivePhase, Unused
  <2>2. QED
    BY <2>1, RuntimeAssumption DEF Init, Fresh, BudgetInv
<1>2. IInv /\ BudgetInv /\ [Next]_vars => BudgetInv'
  BY StepBudget
<1>3. BudgetInv => BudgetBoundsFailures
  BY DEF BudgetInv, BudgetBoundsFailures
<1>4. QED
  BY <1>1, <1>2, <1>3, IInvHolds, PTL DEF Spec
=============================================================================
