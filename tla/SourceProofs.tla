---------------------------- MODULE SourceProofs ----------------------------
(***************************************************************************)
(* Proofs about SourceMailbox: no arrival after stop(), the counters of    *)
(* every mailbox, the refinement of Channel, and that no wakeup is lost.   *)
(***************************************************************************)
EXTENDS SourceMailbox, SubsequenceProofs

-----------------------------------------------------------------------------
(* Tasks.                                                                  *)

LEMMA TasksDiffer ==
  ASSUME NEW s, NEW u
  PROVE  /\ Supervisor(s) # Dispatcher(u) /\ Supervisor(s) # Firing(u)
         /\ Supervisor(s) # Waiter(u) /\ Dispatcher(s) # Firing(u)
         /\ Dispatcher(s) # Waiter(u) /\ Firing(s) # Waiter(u)
         /\ (Supervisor(s) = Supervisor(u)) => s = u
         /\ (Dispatcher(s) = Dispatcher(u)) => s = u
         /\ (Firing(s) = Firing(u)) => s = u
         /\ (Waiter(s) = Waiter(u)) => s = u
BY DEF Supervisor, Dispatcher, Firing, Waiter

LEMMA TasksAreTasks ==
  /\ \A s \in Source : Supervisor(s) \in Task /\ Dispatcher(s) \in Task
  /\ \A t \in Transition : Firing(t) \in Task
  /\ \A c \in Client : Waiter(c) \in Task
BY DEF Task, Supervisors, Dispatchers, Firings, Waiters

(* Who can have a CancelledError on its way.                               *)
LEMMA NobodyElseLives ==
  ASSUME NEW t \in Living
  PROVE  /\ t \in Task /\ pc[t] \notin Ended
         /\ \/ \E s \in Source : t = Supervisor(s) \/ t = Dispatcher(s)
            \/ \E x \in Transition : t = Firing(x)
BY DEF Living, Task, Supervisors, Dispatchers, Firings

-----------------------------------------------------------------------------
(* stop().                                                                 *)

(* While the Runtime runs nothing is cancelled; afterwards every task that *)
(* has not ended is, so none of them takes a step of its own.              *)
Cancellation ==
  /\ status \in {"running", "stopping", "stopped"}
  /\ pc \in [Task -> Point]
  /\ status = "running" => cancelled = {}
  /\ status # "running" => Living \subseteq cancelled

LEMMA InitCancellation == Init => Cancellation
<1> SUFFICES ASSUME Init PROVE Cancellation
  OBVIOUS
<1>1. pc \in [Task -> Point]
  BY DEF Init, Point
<1>2. QED
  BY <1>1 DEF Init, Cancellation

(* A task that lives, or does not count as one of the Runtime's, moves on. *)
LEMMA MovingOn ==
  ASSUME Cancellation, NEW t \in Task, NEW point \in Point, GoesTo(t, point),
         UNCHANGED <<status, cancelled>>,
         pc[t] \notin Ended \/ t \in Waiters
  PROVE  Cancellation'
<1>1. pc' \in [Task -> Point] /\ \A u \in Task : u # t => pc'[u] = pc[u]
  BY DEF Cancellation, GoesTo
<1>2. Living' \subseteq Living
  <2>1. ASSUME NEW u \in Living' PROVE u \in Living
    <3>1. /\ u \in Supervisors \cup Dispatchers \cup Firings
          /\ u \in Task /\ pc'[u] \notin Ended
      BY DEF Living, Task, Ended
    <3>2. CASE u # t
      BY <3>1, <3>2, <1>1 DEF Living, Ended
    <3>3. CASE u = t
      BY <3>1, <3>3, TasksDiffer
         DEF Living, Supervisors, Dispatchers, Firings, Waiters
    <3>4. QED
      BY <3>2, <3>3
  <2>2. QED
    BY <2>1
<1>3. QED
  BY <1>1, <1>2 DEF Cancellation

(* Whatever runs without being cancelled runs while the Runtime does.      *)
LEMMA OnlyTheRunningRun ==
  ASSUME Cancellation, NEW t \in Living, Runs(t)
  PROVE  status = "running"
BY DEF Cancellation, Runs

LEMMA Admitting ==
  ASSUME Cancellation, status = "running",
         NEW points \in [Task -> Point], NEW o, Admitted(points, o),
         UNCHANGED <<status, cancelled>>
  PROVE  Cancellation'
<1>1. pc' \in [Task -> Point]
  BY DEF Admitted, Point
<1>2. QED
  BY <1>1 DEF Cancellation

LEMMA SupervisorStepCancellation ==
  ASSUME Cancellation, NEW s \in Source,
         \/ SourceOpens(s) \/ SourceSuspends(s)
         \/ PutsItem(s) \/ PutCoalesces(s) \/ PutBlocks(s)
         \/ SupervisorBacksOff(s) \/ SupervisorReturns(s)
         \/ \E k \in Kind : SourceYields(s, k)
         \/ SourceRaises(s) \/ SourceEnds(s) \/ BackoffElapses(s)
  PROVE  Cancellation'
<1>1. Supervisor(s) \in Task
  BY TasksAreTasks
<1>2. PICK point \in Point : GoesTo(Supervisor(s), point)
  BY DEF SourceOpens, SourceSuspends, PutsItem, PutCoalesces, PutBlocks,
         PutReturns, SupervisorBacksOff, SupervisorReturns, SourceYields,
         SourceRaises, SourceEnds, SourceAnswers, BackoffElapses, Point
<1>3. pc[Supervisor(s)] \notin Ended
  BY DEF SourceOpens, SourceSuspends, PutsItem, PutCoalesces, PutBlocks,
         PutReturns, SupervisorBacksOff, SupervisorReturns, SourceYields,
         SourceRaises, SourceEnds, SourceAnswers, BackoffElapses, Ended
<1>4. UNCHANGED <<status, cancelled>>
  BY DEF SourceOpens, SourceSuspends, PutsItem, PutCoalesces, PutBlocks,
         PutReturns, SupervisorBacksOff, SupervisorReturns, SourceYields,
         SourceRaises, SourceEnds, SourceAnswers, BackoffElapses
<1>5. QED
  BY <1>1, <1>2, <1>3, <1>4, MovingOn

LEMMA DispatcherStepCancellation ==
  ASSUME Cancellation, NEW s \in Source,
         \/ DispatcherAwaitsItem(s) \/ DispatcherTakes(s)
         \/ ArrivalWaits(s) \/ ArrivalRaises(s)
         \/ \E o \in Orders(Transition) : ArrivalApplies(s, o)
  PROVE  Cancellation'
<1> DEFINE d == Dispatcher(s)
<1>1. d \in Task /\ d \in Dispatchers
  BY TasksAreTasks DEF Dispatchers
<1>2. CASE \/ DispatcherAwaitsItem(s) \/ DispatcherTakes(s) \/ ArrivalRaises(s)
  <2>1. PICK point \in Point : GoesTo(d, point)
    BY <1>2 DEF DispatcherAwaitsItem, DispatcherTakes, ArrivalRaises, Point
  <2>2. pc[d] \notin Ended /\ UNCHANGED <<status, cancelled>>
    BY <1>2 DEF DispatcherAwaitsItem, DispatcherTakes, ArrivalRaises, Ended
  <2>3. QED
    BY <1>1, <2>1, <2>2, MovingOn
<1>3. CASE ArrivalWaits(s)
  BY <1>3 DEF ArrivalWaits, Cancellation, Living
<1>4. CASE \E o \in Orders(Transition) : ArrivalApplies(s, o)
  <2>1. PICK o : ArrivalApplies(s, o)
    BY <1>4
  <2>2. d \in Living /\ Runs(d)
    BY <1>1, <2>1 DEF ArrivalApplies, Living, Ended
  <2>3. status = "running"
    BY <2>2, OnlyTheRunningRun
  <2>4. [pc EXCEPT ![d] = "looping"] \in [Task -> Point]
    BY <1>1 DEF Cancellation, Point
  <2>5. QED
    BY <2>1, <2>3, <2>4, Admitting DEF ArrivalApplies
<1>5. QED
  BY <1>2, <1>3, <1>4

LEMMA FiringStepCancellation ==
  ASSUME Cancellation, NEW t \in Transition,
         \/ HandlerSuspends(t) \/ HandlerEnds(t)
         \/ \E o \in Orders(Transition) : FiringSettles(t, o)
  PROVE  Cancellation'
<1> DEFINE f == Firing(t)
<1>1. f \in Task /\ f \in Firings
  BY TasksAreTasks DEF Firings
<1>2. CASE HandlerSuspends(t) \/ HandlerEnds(t)
  <2>1. PICK point \in Point : GoesTo(f, point)
    BY <1>2 DEF HandlerSuspends, HandlerEnds, Point
  <2>2. pc[f] \notin Ended /\ UNCHANGED <<status, cancelled>>
    BY <1>2 DEF HandlerSuspends, HandlerEnds, Ended
  <2>3. QED
    BY <1>1, <2>1, <2>2, MovingOn
<1>3. CASE \E o \in Orders(Transition) : FiringSettles(t, o)
  <2>1. PICK o : FiringSettles(t, o)
    BY <1>3
  <2>2. f \in Living /\ Runs(f)
    BY <1>1, <2>1 DEF FiringSettles, Living, Ended
  <2>3. status = "running"
    BY <2>2, OnlyTheRunningRun
  <2>4. [pc EXCEPT ![f] = "idle"] \in [Task -> Point]
    BY <1>1 DEF Cancellation, Point
  <2>5. QED
    BY <2>1, <2>3, <2>4, Admitting DEF FiringSettles
<1>4. QED
  BY <1>2, <1>3

LEMMA WaiterStepCancellation ==
  ASSUME Cancellation, NEW c \in Client,
         WaitIdleCalled(c) \/ WaitIdleWaits(c) \/ WaitIdleReturns(c)
  PROVE  Cancellation'
<1>1. Waiter(c) \in Task /\ Waiter(c) \in Waiters
  BY TasksAreTasks DEF Waiters
<1>2. CASE WaitIdleCalled(c) \/ WaitIdleReturns(c)
  <2>1. /\ \E point \in Point : GoesTo(Waiter(c), point)
        /\ UNCHANGED <<status, cancelled>>
    BY <1>2 DEF WaitIdleCalled, WaitIdleReturns, Point
  <2>2. QED
    BY <1>1, <2>1, MovingOn
<1>3. CASE WaitIdleWaits(c)
  BY <1>3 DEF WaitIdleWaits, Cancellation, Living
<1>4. QED
  BY <1>2, <1>3

(* A task that was cancelled ends by it.                                   *)
LEMMA CancelledStepCancellation ==
  ASSUME Cancellation,
         \/ \E s \in Source : SupervisorCancelled(s) \/ DispatcherCancelled(s)
         \/ \E t \in Transition : FiringCancelled(t)
  PROVE  Cancellation'
<1>1. PICK t \in Task, point \in Point :
        /\ t \in cancelled /\ cancelled' = cancelled \ {t}
        /\ status' = status
        /\ point \in Ended /\ pc' = [pc EXCEPT ![t] = point]
  <2>1. ASSUME NEW s \in Source, SupervisorCancelled(s)
        PROVE  /\ Supervisor(s) \in cancelled
               /\ cancelled' = cancelled \ {Supervisor(s)}
               /\ status' = status
               /\ pc' = [pc EXCEPT ![Supervisor(s)] = "done"]
    BY <2>1 DEF SupervisorCancelled, Cancelling, GoesTo
  <2>2. ASSUME NEW s \in Source, DispatcherCancelled(s)
        PROVE  /\ Dispatcher(s) \in cancelled
               /\ cancelled' = cancelled \ {Dispatcher(s)}
               /\ status' = status
               /\ pc' = [pc EXCEPT ![Dispatcher(s)] = "done"]
    BY <2>2 DEF DispatcherCancelled, Cancelling, GoesTo
  <2>3. ASSUME NEW t \in Transition, FiringCancelled(t)
        PROVE  /\ Firing(t) \in cancelled
               /\ cancelled' = cancelled \ {Firing(t)}
               /\ status' = status
               /\ \/ pc' = [pc EXCEPT ![Firing(t)] = "lost"]
                  \/ pc' = [pc EXCEPT ![Firing(t)] = "idle"]
    BY <2>3 DEF FiringCancelled, Cancelling, GoesTo
  <2>4. {"done", "lost", "idle"} \subseteq Point \cap Ended
    BY DEF Point, Ended
  <2>5. QED
    BY <2>1, <2>2, <2>3, <2>4, TasksAreTasks
<1>2. /\ pc' \in [Task -> Point] /\ pc'[t] \in Ended
      /\ \A u \in Task : u # t => pc'[u] = pc[u]
  BY <1>1 DEF Cancellation
<1>3. Living' \subseteq Living \ {t}
  <2>1. ASSUME NEW u \in Living' PROVE u \in Living /\ u # t
    <3>1. /\ u \in Supervisors \cup Dispatchers \cup Firings
          /\ u \in Task /\ pc'[u] \notin Ended
      BY DEF Living, Task, Ended
    <3>2. QED
      BY <3>1, <1>2 DEF Living, Ended
  <2>2. QED
    BY <2>1
<1>4. QED
  BY <1>1, <1>2, <1>3 DEF Cancellation

LEMMA NextCancellation == Cancellation /\ [Next]_vars => Cancellation'
<1> SUFFICES ASSUME Cancellation, [Next]_vars PROVE Cancellation'
  OBVIOUS
<1>1. ASSUME NEW s \in Source,
             \/ SourceOpens(s) \/ SourceSuspends(s)
             \/ PutsItem(s) \/ PutCoalesces(s) \/ PutBlocks(s)
             \/ SupervisorBacksOff(s) \/ SupervisorReturns(s)
             \/ \E k \in Kind : SourceYields(s, k)
             \/ SourceRaises(s) \/ SourceEnds(s) \/ BackoffElapses(s)
      PROVE  Cancellation'
  BY <1>1, SupervisorStepCancellation
<1>2. ASSUME NEW s \in Source,
             \/ DispatcherAwaitsItem(s) \/ DispatcherTakes(s)
             \/ ArrivalWaits(s) \/ ArrivalRaises(s)
             \/ \E o \in Orders(Transition) : ArrivalApplies(s, o)
      PROVE  Cancellation'
  BY <1>2, DispatcherStepCancellation
<1>3. ASSUME NEW t \in Transition,
             \/ HandlerSuspends(t) \/ HandlerEnds(t)
             \/ \E o \in Orders(Transition) : FiringSettles(t, o)
      PROVE  Cancellation'
  BY <1>3, FiringStepCancellation
<1>4. ASSUME NEW c \in Client,
             WaitIdleCalled(c) \/ WaitIdleWaits(c) \/ WaitIdleReturns(c)
      PROVE  Cancellation'
  BY <1>4, WaiterStepCancellation
<1>5. CASE \/ \E s \in Source : SupervisorCancelled(s) \/ DispatcherCancelled(s)
           \/ \E t \in Transition : FiringCancelled(t)
  BY <1>5, CancelledStepCancellation
<1>6. CASE Stop
  BY <1>6 DEF Stop, CancelTargets, Cancellation, Living
<1>7. CASE StopReturns
  BY <1>7 DEF StopReturns, Cancellation, Living
<1>8. CASE UNCHANGED vars
  BY <1>8 DEF vars, Cancellation, Living
<1>9. QED
  BY <1>1, <1>2, <1>3, <1>4, <1>5, <1>6, <1>7, <1>8 DEF Next, LoopStep

(* stop() ends what sources do to the marking: every arrival after it      *)
(* would be a step of a dispatcher that has been cancelled.                *)
THEOREM ArrivalsEnd == Spec => StopEndsArrivals
<1>1. ASSUME Cancellation, [Next]_vars PROVE status # "running" => applied' = applied
  <2>1. CASE \E s \in Source : \E o \in Orders(Transition) : ArrivalApplies(s, o)
    <3>1. PICK s \in Source, o \in Orders(Transition) : ArrivalApplies(s, o)
      BY <2>1
    <3>2. Dispatcher(s) \in Living /\ Runs(Dispatcher(s))
      BY <3>1 DEF ArrivalApplies, Living, Ended, Dispatchers
    <3>3. QED
      BY <1>1, <3>2, OnlyTheRunningRun
  <2>2. CASE ~\E s \in Source : \E o \in Orders(Transition) : ArrivalApplies(s, o)
    <3>1. CASE LoopStep
      BY <2>2, <3>1
         DEF LoopStep, SourceOpens, SourceSuspends, PutsItem, PutCoalesces,
             PutBlocks, PutReturns, SupervisorBacksOff, SupervisorReturns,
             SupervisorCancelled, Cancelling, DispatcherAwaitsItem,
             DispatcherTakes, ArrivalWaits, ArrivalRaises, DispatcherCancelled,
             HandlerSuspends, FiringCancelled, FiringSettles, WaitIdleWaits,
             WaitIdleReturns
    <3>2. QED
      BY <1>1, <3>1
         DEF Next, SourceYields, SourceRaises, SourceEnds, SourceAnswers,
             BackoffElapses, HandlerEnds, WaitIdleCalled, Stop, StopReturns, vars
  <2>3. QED
    BY <2>1, <2>2
<1>2. Spec => []Cancellation
  BY InitCancellation, NextCancellation, PTL DEF Spec
<1>3. QED
  BY <1>1, <1>2, PTL DEF Spec, StopEndsArrivals

-----------------------------------------------------------------------------
(* The mailboxes.                                                          *)

Health == [state : {"starting", "running", "backing_off", "stopped"},
           restarts : Nat, coalesced : Nat]

MailboxTypes ==
  /\ queue \in [Source -> Seq(Item)]
  /\ unfinished \in [Source -> Int]
  /\ held \in [Source -> Item \cup {NoItem}]
  /\ hand \in [Source -> Item \cup {NoItem}]
  /\ health \in [Source -> Health]
  /\ sent \in [Source -> Nat]
  /\ applied \in [Source -> Seq(Item)]

(* How much there is; kept folded where the arithmetic is what matters.    *)
Count(item) == IF item = NoItem THEN 0 ELSE 1

Size(q) == Len(q)

(* What the source has yielded is in the marking, under way, or was        *)
(* counted as coalesced or as a restart.                                   *)
Accounted(s) ==
  sent[s] <= Size(applied[s]) + Count(hand[s]) + Size(queue[s]) + Count(held[s])
             + health[s].coalesced + health[s].restarts

(* What the two tasks of a source have between them fits where they stand. *)
Books(s) ==
  /\ Size(queue[s]) <= Capacity[s]
  /\ hand[s] # NoItem <=> pc[Dispatcher(s)] = "applying"
  /\ held[s] # NoItem <=> pc[Supervisor(s)] \in {"putting", "blocked"}
  /\ pc[Supervisor(s)] = "blocked" => held[s].fits
  /\ unfinished[s] = Size(queue[s]) + Count(hand[s])
  /\ status = "running" /\ pc[Dispatcher(s)] # "dead" => Accounted(s)

Mailboxes == MailboxTypes /\ \A s \in Source : Books(s)

(* What a source has, and where its tasks stand.                           *)
BooksOf(s) ==
  <<queue[s], unfinished[s], held[s], hand[s], health[s].restarts,
    health[s].coalesced, sent[s], applied[s], pc[Supervisor(s)], pc[Dispatcher(s)]>>

LEMMA BooksKept ==
  ASSUME NEW s \in Source, Books(s), UNCHANGED BooksOf(s),
         status' = "running" => status = "running"
  PROVE  Books(s)'
BY DEF Books, BooksOf, Accounted

LEMMA HealthChanges ==
  ASSUME NEW h \in Health
  PROVE  /\ LET new == [h EXCEPT !.state = "running"]
            IN  /\ new \in Health /\ new.restarts = h.restarts
                /\ new.coalesced = h.coalesced
         /\ LET new == [h EXCEPT !.coalesced = @ + 1]
            IN  /\ new \in Health /\ new.restarts = h.restarts
                /\ new.coalesced = h.coalesced + 1
         /\ LET new == [h EXCEPT !.state = "backing_off", !.restarts = @ + 1]
            IN  /\ new \in Health /\ new.restarts = h.restarts + 1
                /\ new.coalesced = h.coalesced
<1>1. h.restarts \in Nat /\ h.coalesced \in Nat
  BY DEF Health
<1>2. h = [state |-> h.state, restarts |-> h.restarts, coalesced |-> h.coalesced]
  BY DEF Health
<1>3. [h EXCEPT !.state = "running"] =
        [state |-> "running", restarts |-> h.restarts, coalesced |-> h.coalesced]
  BY <1>2
<1>4. [h EXCEPT !.coalesced = @ + 1] =
        [state |-> h.state, restarts |-> h.restarts, coalesced |-> h.coalesced + 1]
  BY <1>2
<1>5. [h EXCEPT !.state = "backing_off", !.restarts = @ + 1] =
        [state |-> "backing_off", restarts |-> h.restarts + 1,
         coalesced |-> h.coalesced]
  <2> DEFINE g == [state |-> "backing_off", restarts |-> h.restarts,
                   coalesced |-> h.coalesced]
  <2>1. [h EXCEPT !.state = "backing_off"] = g
    BY <1>2
  <2>2. [h EXCEPT !.state = "backing_off", !.restarts = @ + 1] =
          [[h EXCEPT !.state = "backing_off"] EXCEPT !.restarts = @ + 1]
    OBVIOUS
  <2>3. [g EXCEPT !.restarts = @ + 1] =
          [state |-> "backing_off", restarts |-> h.restarts + 1,
           coalesced |-> h.coalesced]
    OBVIOUS
  <2>4. QED
    BY <2>1, <2>2, <2>3
<1>6. QED
  BY <1>1, <1>3, <1>4, <1>5 DEF Health

Numbers(s) ==
  /\ sent[s] \in Nat /\ Size(applied[s]) \in Nat /\ Size(queue[s]) \in Nat
  /\ Count(hand[s]) \in Nat /\ Count(held[s]) \in Nat
  /\ unfinished[s] \in Int
  /\ health[s].coalesced \in Nat /\ health[s].restarts \in Nat
  /\ Capacity[s] \in Nat /\ MaxItems[s] \in Nat
  /\ Policy[s] = "coalesce" => Capacity[s] = 1

LEMMA BookNumbers ==
  ASSUME MailboxTypes, NEW s \in Source
  PROVE  Numbers(s)
BY SourceAssumption DEF MailboxTypes, Health, Numbers, Count, Size

LEMMA ItemIsNotNoItem == NoItem \notin Item
BY ItemAssumption

LEMMA InitMailboxes == Init => Mailboxes
<1> SUFFICES ASSUME Init PROVE Mailboxes
  OBVIOUS
<1>1. MailboxTypes
  BY DEF Init, MailboxTypes, Health
<1>2. ASSUME NEW s \in Source PROVE Books(s)
  <2>1. pc[Dispatcher(s)] = "looping" /\ pc[Supervisor(s)] = "opening"
    <3>1. /\ Supervisor(s) \in Supervisors /\ Dispatcher(s) \in Dispatchers
          /\ Supervisor(s) \notin Dispatchers \cup Waiters
          /\ Dispatcher(s) \notin Supervisors \cup Waiters
      BY TasksDiffer DEF Supervisors, Dispatchers, Waiters
    <3>2. Supervisor(s) \in Task /\ Dispatcher(s) \in Task
      BY TasksAreTasks
    <3>3. PICK first :
            pc = [t \in Task |->
                    CASE t \in Supervisors -> "opening"
                      [] t \in Dispatchers -> "looping"
                      [] t \in Waiters -> "out"
                      [] OTHER -> IF \E i \in DOMAIN first : t = Firing(first[i])
                                  THEN "created" ELSE "idle"]
      BY DEF Init
    <3>4. pc[Supervisor(s)] = "opening"
      BY <3>1, <3>2, <3>3
    <3>5. pc[Dispatcher(s)] = "looping"
      BY <3>1, <3>2, <3>3
    <3>6. QED
      BY <3>4, <3>5
  <2>2. Capacity[s] \in Nat
    BY SourceAssumption
  <2>3. QED
    BY <2>1, <2>2 DEF Init, Books, Count, Size, Accounted
<1>3. QED
  BY <1>1, <1>2 DEF Mailboxes

(* A step of one source leaves the other sources' books alone.             *)
LEMMA OneSourceSteps ==
  ASSUME Mailboxes, NEW s \in Source, MailboxTypes', Books(s)',
         status' = "running" => status = "running",
         \A u \in Source \ {s} : UNCHANGED BooksOf(u)
  PROVE  Mailboxes'
BY BooksKept DEF Mailboxes

(* Where the tasks of a source stand after one of them has moved.          *)
LEMMA SupervisorMoves ==
  ASSUME Cancellation, NEW s \in Source, NEW point, GoesTo(Supervisor(s), point)
  PROVE  /\ pc'[Supervisor(s)] = point
         /\ pc'[Dispatcher(s)] = pc[Dispatcher(s)]
         /\ \A u \in Source \ {s} : /\ pc'[Supervisor(u)] = pc[Supervisor(u)]
                                   /\ pc'[Dispatcher(u)] = pc[Dispatcher(u)]
<1>1. \A u \in Source : Supervisor(u) \in Task /\ Dispatcher(u) \in Task
  BY TasksAreTasks
<1>2. /\ \A u \in Source : Dispatcher(u) # Supervisor(s)
      /\ \A u \in Source \ {s} : Supervisor(u) # Supervisor(s)
  BY TasksDiffer
<1>3. QED
  BY <1>1, <1>2 DEF Cancellation, GoesTo

LEMMA DispatcherMoves ==
  ASSUME Cancellation, NEW s \in Source, NEW point, GoesTo(Dispatcher(s), point)
  PROVE  /\ pc'[Dispatcher(s)] = point
         /\ pc'[Supervisor(s)] = pc[Supervisor(s)]
         /\ \A u \in Source \ {s} : /\ pc'[Supervisor(u)] = pc[Supervisor(u)]
                                   /\ pc'[Dispatcher(u)] = pc[Dispatcher(u)]
<1>1. \A u \in Source : Supervisor(u) \in Task /\ Dispatcher(u) \in Task
  BY TasksAreTasks
<1>2. /\ \A u \in Source : Supervisor(u) # Dispatcher(s)
      /\ \A u \in Source \ {s} : Dispatcher(u) # Dispatcher(s)
  BY TasksDiffer
<1>3. QED
  BY <1>1, <1>2 DEF Cancellation, GoesTo

(* Admission moves firings only.                                           *)
LEMMA AdmissionMoves ==
  ASSUME Cancellation, NEW points, NEW o \in Orders(Transition), Admitted(points, o)
  PROVE  \A u \in Source : /\ pc'[Supervisor(u)] = points[Supervisor(u)]
                           /\ pc'[Dispatcher(u)] = points[Dispatcher(u)]
<1>1. ASSUME NEW u \in Source, NEW i \in DOMAIN o
      PROVE  Supervisor(u) # Firing(o[i]) /\ Dispatcher(u) # Firing(o[i])
  BY TasksDiffer
<1>2. \A u \in Source : Supervisor(u) \in Task /\ Dispatcher(u) \in Task
  BY TasksAreTasks
<1>3. QED
  BY <1>1, <1>2 DEF Admitted

-----------------------------------------------------------------------------
(* The books are kept by every step.                                       *)

(* The supervisor moves while it holds nothing.                            *)
LEMMA QuietSupervisorBooks ==
  ASSUME Cancellation, Mailboxes, NEW s \in Source,
         \/ SourceOpens(s) \/ SourceSuspends(s) \/ SourceRaises(s)
         \/ SourceEnds(s) \/ BackoffElapses(s) \/ SupervisorReturns(s)
  PROVE  Mailboxes'
<1>1. PICK point :
        /\ GoesTo(Supervisor(s), point)
        /\ {point, pc[Supervisor(s)]} \cap {"putting", "blocked"} = {}
  BY DEF SourceOpens, SourceSuspends, SourceRaises, SourceEnds, SourceAnswers,
         BackoffElapses, SupervisorReturns
<1>2. /\ UNCHANGED <<status, queue, unfinished, held, hand, sent, applied>>
      /\ \/ UNCHANGED health
         \/ health' = [health EXCEPT ![s].state = "running"]
  BY DEF SourceOpens, SourceSuspends, SourceRaises, SourceEnds, SourceAnswers,
         BackoffElapses, SupervisorReturns, boxes
<1>3. MailboxTypes' /\ \A u \in Source : /\ health'[u].restarts = health[u].restarts
                                         /\ health'[u].coalesced = health[u].coalesced
  <2>1. health' = [health EXCEPT ![s].state = "running"]
        => /\ health' \in [Source -> Health]
           /\ \A u \in Source : /\ health'[u].restarts = health[u].restarts
                              /\ health'[u].coalesced = health[u].coalesced
    <3>1. health \in [Source -> Health] /\ health[s] \in Health
      BY DEF Mailboxes, MailboxTypes
    <3>2. QED
      BY <3>1, HealthChanges
  <2>2. QED
    BY <1>2, <2>1 DEF Mailboxes, MailboxTypes
<1>4. Books(s)'
  <2>1. Books(s)
    BY DEF Mailboxes
  <2>2. Accounted(s) => Accounted(s)'
    BY <1>2, <1>3 DEF Accounted
  <2>3. QED
    BY <1>1, <1>2, <2>1, <2>2, SupervisorMoves DEF Books
<1>5. \A u \in Source \ {s} : UNCHANGED BooksOf(u)
  BY <1>1, <1>2, <1>3, SupervisorMoves DEF BooksOf
<1>6. QED
  BY <1>2, <1>3, <1>4, <1>5, OneSourceSteps

LEMMA YieldBooks ==
  ASSUME Cancellation, Mailboxes, NEW s \in Source, NEW k \in Kind, SourceYields(s, k)
  PROVE  Mailboxes' /\ held'[s] \in Item /\ held[s] = NoItem
<1>1. /\ GoesTo(Supervisor(s), "putting")
      /\ pc[Supervisor(s)] \in {"asking", "reading"}
      /\ UNCHANGED <<status, queue, unfinished, hand, health, applied>>
  BY DEF SourceYields, SourceAnswers
<1> DEFINE item == [n |-> sent[s] + 1, key |-> k.key, places |-> k.places,
                    fits |-> k.fits, accepted |-> k.accepted]
<1>2. /\ sent' = [sent EXCEPT ![s] = @ + 1] /\ held' = [held EXCEPT ![s] = item]
      /\ sent[s] < MaxItems[s]
  BY DEF SourceYields
<1>3. item \in Item
  <2>1. sent[s] + 1 \in 1..MaxItems[s]
    BY <1>2, BookNumbers DEF Mailboxes, Numbers
  <2>2. k.fits \in BOOLEAN /\ k.accepted \in BOOLEAN
    BY ItemAssumption
  <2>3. k.key \in {x.key : x \in Kind} /\ k.places \in {x.places : x \in Kind}
    OBVIOUS
  <2>4. sent[s] + 1 \in UNION {1..MaxItems[u] : u \in Source}
    BY <2>1
  <2>5. QED
    BY <2>2, <2>3, <2>4 DEF Item
<1> HIDE DEF item
<1>4. MailboxTypes' /\ held'[s] = item /\ sent'[s] = sent[s] + 1
  BY <1>1, <1>2, <1>3 DEF Mailboxes, MailboxTypes
<1>5. Books(s)' /\ held[s] = NoItem
  <2>1. Books(s)
    BY DEF Mailboxes
  <2>2. held[s] = NoItem
    BY <1>1, <2>1 DEF Books
  <2>3. item # NoItem
    BY <1>3, ItemIsNotNoItem
  <2>4. Numbers(s)
    BY BookNumbers DEF Mailboxes
  <2>5. /\ pc'[Supervisor(s)] = "putting"
        /\ pc'[Dispatcher(s)] = pc[Dispatcher(s)]
    BY <1>1, SupervisorMoves
  <2>6. Count(held[s]) = 0 /\ Count(held'[s]) = 1
    BY <1>4, <2>2, <2>3 DEF Count
  <2>7. Accounted(s) => Accounted(s)'
    BY <1>1, <1>4, <2>4, <2>6 DEF Accounted, Numbers
  <2>8. QED
    BY <1>1, <1>4, <2>1, <2>3, <2>5, <2>7 DEF Books
<1>6. \A u \in Source \ {s} : UNCHANGED BooksOf(u)
  BY <1>1, <1>2, SupervisorMoves DEF BooksOf, Mailboxes, MailboxTypes
<1>7. QED
  BY <1>1, <1>3, <1>4, <1>5, <1>6, OneSourceSteps

LEMMA PutBooks ==
  ASSUME Cancellation, Mailboxes, NEW s \in Source, PutsItem(s)
  PROVE  Mailboxes' /\ held[s] \in Item /\ held[s].fits
<1>1. /\ GoesTo(Supervisor(s), "asking")
      /\ pc[Supervisor(s)] \in {"putting", "blocked"}
      /\ pc[Supervisor(s)] = "putting" => held[s].fits
      /\ ~Full(s)
      /\ queue' = [queue EXCEPT ![s] = Append(@, held[s])]
      /\ unfinished' = [unfinished EXCEPT ![s] = @ + 1]
      /\ held' = [held EXCEPT ![s] = NoItem]
      /\ UNCHANGED <<status, hand, health, sent, applied>>
  BY DEF PutsItem, PutReturns
<1>2. Books(s)
  BY DEF Mailboxes
<1>3. held[s] \in Item /\ held[s].fits
  BY <1>1, <1>2 DEF Books, Mailboxes, MailboxTypes
<1>4. /\ MailboxTypes' /\ Size(queue'[s]) = Size(queue[s]) + 1
      /\ unfinished'[s] = unfinished[s] + 1 /\ held'[s] = NoItem
  BY <1>1, <1>3 DEF Mailboxes, MailboxTypes, Size
<1>5. Books(s)'
  <2>1. Numbers(s)
    BY BookNumbers DEF Mailboxes
  <2>2. held[s] # NoItem
    BY <1>3, ItemIsNotNoItem
  <2>3. Size(queue[s]) < Capacity[s]
    BY <1>1, <2>1 DEF Full, Numbers, Size
  <2>4. /\ Count(held[s]) = 1 /\ Count(held'[s]) = 0
        /\ Accounted(s) => Accounted(s)'
    <3>1. Count(held[s]) = 1 /\ Count(held'[s]) = 0
      BY <1>4, <2>2 DEF Count
    <3>2. QED
      BY <1>1, <1>4, <2>1, <3>1 DEF Accounted, Numbers
  <2>5. Size(queue[s]) + 1 <= Capacity[s]
    BY <2>1, <2>3 DEF Numbers
  <2>6. unfinished'[s] = Size(queue'[s]) + Count(hand'[s])
    BY <1>1, <1>2, <1>4, <2>1 DEF Books, Numbers
  <2>7. /\ pc'[Supervisor(s)] = "asking"
        /\ pc'[Dispatcher(s)] = pc[Dispatcher(s)]
    BY <1>1, SupervisorMoves
  <2>8. QED
    BY <1>1, <1>2, <1>4, <2>4, <2>5, <2>6, <2>7 DEF Books
<1>6. \A u \in Source \ {s} : UNCHANGED BooksOf(u)
  BY <1>1, SupervisorMoves DEF BooksOf, Mailboxes, MailboxTypes
<1>7. QED
  BY <1>1, <1>3, <1>4, <1>5, <1>6, OneSourceSteps

(* A coalescing mailbox holds one item, which the new one replaces.        *)
LEMMA CoalesceBooks ==
  ASSUME Cancellation, Mailboxes, NEW s \in Source, PutCoalesces(s)
  PROVE  /\ Mailboxes' /\ held[s] \in Item /\ held[s].fits
         /\ Len(queue[s]) = 1
<1>1. /\ GoesTo(Supervisor(s), "asking")
      /\ pc[Supervisor(s)] = "putting" /\ held[s].fits
      /\ Full(s) /\ Policy[s] = "coalesce"
      /\ queue' = [queue EXCEPT ![s] = <<held[s]>>]
      /\ health' = [health EXCEPT ![s].coalesced = @ + 1]
      /\ held' = [held EXCEPT ![s] = NoItem]
      /\ UNCHANGED <<status, unfinished, hand, sent, applied>>
  BY DEF PutCoalesces, PutReturns, Replaceable
<1>2. Books(s)
  BY DEF Mailboxes
<1>3. held[s] \in Item
  BY <1>1, <1>2 DEF Books, Mailboxes, MailboxTypes
<1>4. Size(queue[s]) \in Nat /\ Size(queue[s]) = 1
  <2>1. Numbers(s)
    BY BookNumbers DEF Mailboxes
  <2>2. Size(queue[s]) >= Capacity[s] /\ Size(queue[s]) <= Capacity[s] /\ Capacity[s] = 1
    BY <1>1, <1>2, <2>1 DEF Full, Books, Numbers, Size
  <2>3. QED
    BY <2>1, <2>2 DEF Numbers
<1>5. /\ MailboxTypes' /\ Size(queue'[s]) = 1 /\ held'[s] = NoItem
      /\ health'[s].coalesced = health[s].coalesced + 1
      /\ health'[s].restarts = health[s].restarts
  <2>1. /\ <<held[s]>> \in Seq(Item) /\ Size(<<held[s]>>) = 1
        /\ queue' \in [Source -> Seq(Item)] /\ queue'[s] = <<held[s]>>
    BY <1>1, <1>3 DEF Mailboxes, MailboxTypes, Size
  <2>2. /\ health' \in [Source -> Health]
        /\ health'[s].coalesced = health[s].coalesced + 1
        /\ health'[s].restarts = health[s].restarts
    <3>1. health[s] \in Health
      BY DEF Mailboxes, MailboxTypes
    <3>2. QED
      BY <1>1, <3>1, HealthChanges DEF Mailboxes, MailboxTypes
  <2>3. QED
    BY <1>1, <2>1, <2>2 DEF Mailboxes, MailboxTypes
<1>6. Books(s)'
  <2>1. Numbers(s)
    BY BookNumbers DEF Mailboxes
  <2>2. held[s] # NoItem
    BY <1>3, ItemIsNotNoItem
  <2>3. Accounted(s) => Accounted(s)'
    <3>1. Count(held[s]) = 1 /\ Count(held'[s]) = 0
      BY <1>5, <2>2 DEF Count
    <3>2. QED
      BY <1>1, <1>4, <1>5, <2>1, <3>1 DEF Accounted, Numbers
  <2>4. /\ pc'[Supervisor(s)] = "asking"
        /\ pc'[Dispatcher(s)] = pc[Dispatcher(s)]
    BY <1>1, SupervisorMoves
  <2>5. QED
    BY <1>1, <1>2, <1>4, <1>5, <2>3, <2>4 DEF Books
<1>7. \A u \in Source \ {s} : UNCHANGED BooksOf(u)
  BY <1>1, SupervisorMoves DEF BooksOf, Mailboxes, MailboxTypes
<1>8. Len(queue[s]) = 1
  BY <1>4 DEF Size
<1>9. Mailboxes'
  BY <1>1, <1>2, <1>5, <1>6, <1>7, OneSourceSteps DEF Books
<1>10. QED
  BY <1>1, <1>3, <1>8, <1>9

LEMMA BlockBooks ==
  ASSUME Cancellation, Mailboxes, NEW s \in Source, PutBlocks(s)
  PROVE  Mailboxes'
<1>1. /\ GoesTo(Supervisor(s), "blocked")
      /\ pc[Supervisor(s)] = "putting" /\ held[s].fits
      /\ UNCHANGED <<status, queue, unfinished, held, hand, health, sent, applied>>
  BY DEF PutBlocks, boxes
<1>2. MailboxTypes'
  BY <1>1 DEF Mailboxes, MailboxTypes
<1>3. Books(s)'
  <2>1. Accounted(s) => Accounted(s)'
    BY <1>1 DEF Accounted
  <2>2. QED
    BY <1>1, <2>1, SupervisorMoves DEF Books, Mailboxes
<1>4. \A u \in Source \ {s} : UNCHANGED BooksOf(u)
  BY <1>1, SupervisorMoves DEF BooksOf
<1>5. QED
  BY <1>1, <1>2, <1>3, <1>4, OneSourceSteps

(* The restart pays for the misfit it drops.                               *)
LEMMA BackOffBooks ==
  ASSUME Cancellation, Mailboxes, NEW s \in Source, SupervisorBacksOff(s)
  PROVE  Mailboxes' /\ (held[s] # NoItem => ~held[s].fits)
<1>1. PICK point \in {"dead", "backoff"} : GoesTo(Supervisor(s), point)
  BY DEF SupervisorBacksOff
<1>2. /\ \/ pc[Supervisor(s)] = "failing"
         \/ pc[Supervisor(s)] = "putting" /\ ~held[s].fits
      /\ health' = [health EXCEPT ![s].state = "backing_off", ![s].restarts = @ + 1]
      /\ held' = [held EXCEPT ![s] = NoItem]
      /\ UNCHANGED <<status, queue, unfinished, hand, sent, applied>>
  BY DEF SupervisorBacksOff
<1>3. Books(s)
  BY DEF Mailboxes
<1>4. /\ MailboxTypes' /\ held'[s] = NoItem
      /\ health'[s].coalesced = health[s].coalesced
      /\ health'[s].restarts = health[s].restarts + 1
  <2>1. /\ health' \in [Source -> Health]
        /\ health'[s].coalesced = health[s].coalesced
        /\ health'[s].restarts = health[s].restarts + 1
    <3>1. health[s] \in Health
      BY DEF Mailboxes, MailboxTypes
    <3>2. QED
      BY <1>2, <3>1, HealthChanges DEF Mailboxes, MailboxTypes
  <2>2. QED
    BY <1>2, <2>1 DEF Mailboxes, MailboxTypes
<1>5. Books(s)'
  <2>1. Numbers(s)
    BY BookNumbers DEF Mailboxes
  <2>2. Accounted(s) => Accounted(s)'
    <3>1. Count(held[s]) <= 1 /\ Count(held'[s]) = 0
      BY <1>4 DEF Count
    <3>2. QED
      BY <1>2, <1>4, <2>1, <3>1 DEF Accounted, Numbers
  <2>3. /\ pc'[Supervisor(s)] \in {"dead", "backoff"}
        /\ pc'[Dispatcher(s)] = pc[Dispatcher(s)]
    BY <1>1, SupervisorMoves
  <2>4. QED
    BY <1>2, <1>3, <1>4, <2>2, <2>3 DEF Books
<1>6. \A u \in Source \ {s} : UNCHANGED BooksOf(u)
  BY <1>1, <1>2, SupervisorMoves DEF BooksOf, Mailboxes, MailboxTypes
<1>7. QED
  BY <1>1, <1>2, <1>3, <1>4, <1>5, <1>6, OneSourceSteps DEF Books

LEMMA GetBooks ==
  ASSUME Cancellation, Mailboxes, NEW s \in Source, DispatcherAwaitsItem(s)
  PROVE  Mailboxes'
<1>1. /\ GoesTo(Dispatcher(s), "getting") /\ pc[Dispatcher(s)] = "looping"
      /\ UNCHANGED <<status, queue, unfinished, held, hand, health, sent, applied>>
  BY DEF DispatcherAwaitsItem, boxes
<1>2. MailboxTypes'
  BY <1>1 DEF Mailboxes, MailboxTypes
<1>3. Books(s)'
  <2>1. Accounted(s) => Accounted(s)'
    BY <1>1 DEF Accounted
  <2>2. QED
    BY <1>1, <2>1, DispatcherMoves DEF Books, Mailboxes
<1>4. \A u \in Source \ {s} : UNCHANGED BooksOf(u)
  BY <1>1, DispatcherMoves DEF BooksOf
<1>5. QED
  BY <1>1, <1>2, <1>3, <1>4, OneSourceSteps

LEMMA TakeBooks ==
  ASSUME Cancellation, Mailboxes, NEW s \in Source, DispatcherTakes(s)
  PROVE  Mailboxes' /\ hand[s] = NoItem /\ hand'[s] \in Item
<1>1. /\ GoesTo(Dispatcher(s), "applying")
      /\ pc[Dispatcher(s)] \in {"looping", "getting"} /\ queue[s] # <<>>
      /\ hand' = [hand EXCEPT ![s] = Head(queue[s])]
      /\ queue' = [queue EXCEPT ![s] = Tail(@)]
      /\ UNCHANGED <<status, unfinished, held, health, sent, applied>>
  BY DEF DispatcherTakes
<1>2. Books(s) /\ Numbers(s)
  BY BookNumbers DEF Mailboxes
<1>3. hand[s] = NoItem
  BY <1>1, <1>2 DEF Books
<1>4. /\ MailboxTypes' /\ hand'[s] \in Item
      /\ Size(queue'[s]) = Size(queue[s]) - 1
  <2>1. queue[s] \in Seq(Item)
    BY DEF Mailboxes, MailboxTypes
  <2>2. /\ Head(queue[s]) \in Item /\ Tail(queue[s]) \in Seq(Item)
        /\ Len(Tail(queue[s])) = Len(queue[s]) - 1
    BY <1>1, <2>1
  <2>3. QED
    BY <1>1, <2>2 DEF Mailboxes, MailboxTypes, Size
<1>5. Count(hand[s]) = 0 /\ Count(hand'[s]) = 1 /\ hand'[s] # NoItem
  BY <1>3, <1>4, ItemIsNotNoItem DEF Count
<1>6. Books(s)'
  <2>1. Accounted(s) => Accounted(s)'
    BY <1>1, <1>2, <1>4, <1>5 DEF Accounted, Numbers
  <2>2. Size(queue'[s]) <= Capacity[s] /\ unfinished'[s] = Size(queue'[s]) + Count(hand'[s])
    <3>1. Size(queue[s]) <= Capacity[s] /\ unfinished[s] = Size(queue[s]) + 0
      BY <1>2, <1>5 DEF Books
    <3>2. unfinished'[s] = unfinished[s]
      BY <1>1
    <3>3. QED
      BY <1>2, <1>4, <1>5, <3>1, <3>2 DEF Numbers
  <2>3. /\ pc'[Dispatcher(s)] = "applying"
        /\ pc'[Supervisor(s)] = pc[Supervisor(s)]
    BY <1>1, DispatcherMoves
  <2>4. QED
    BY <1>1, <1>2, <1>5, <2>1, <2>2, <2>3 DEF Books
<1>7. \A u \in Source \ {s} : UNCHANGED BooksOf(u)
  BY <1>1, DispatcherMoves DEF BooksOf, Mailboxes, MailboxTypes
<1>8. QED
  BY <1>1, <1>3, <1>4, <1>6, <1>7, OneSourceSteps

(* The finally clause settles the account of the item in hand.             *)
LEMMA DoneBooks ==
  ASSUME Mailboxes, NEW s \in Source, hand[s] # NoItem, TaskDone(s), UNCHANGED queue
  PROVE  /\ hand' \in [Source -> Item \cup {NoItem}]
         /\ unfinished' \in [Source -> Int]
         /\ hand'[s] = NoItem
         /\ unfinished'[s] = Size(queue'[s]) + Count(hand'[s])
         /\ Count(hand[s]) = 1 /\ Count(hand'[s]) = 0
         /\ \A u \in Source \ {s} : UNCHANGED <<hand[u], unfinished[u]>>
<1>1. Books(s) /\ Numbers(s)
  BY BookNumbers DEF Mailboxes
<1>2. /\ hand' \in [Source -> Item \cup {NoItem}] /\ hand'[s] = NoItem
      /\ unfinished' \in [Source -> Int] /\ unfinished'[s] = unfinished[s] - 1
      /\ \A u \in Source \ {s} : UNCHANGED <<hand[u], unfinished[u]>>
  BY DEF TaskDone, Mailboxes, MailboxTypes
<1>3. Count(hand[s]) = 1 /\ Count(hand'[s]) = 0
  BY <1>2 DEF Count
<1>4. QED
  BY <1>1, <1>2, <1>3 DEF Books, Numbers

LEMMA ApplyBooks ==
  ASSUME Cancellation, Mailboxes, NEW s \in Source, NEW o \in Orders(Transition),
         ArrivalApplies(s, o)
  PROVE  /\ Mailboxes' /\ hand[s] \in Item /\ hand'[s] = NoItem
         /\ status = "running"
<1>1. /\ Admitted([pc EXCEPT ![Dispatcher(s)] = "looping"], o)
      /\ pc[Dispatcher(s)] = "applying" /\ Runs(Dispatcher(s))
      /\ TaskDone(s)
      /\ applied' = [applied EXCEPT ![s] = Append(@, hand[s])]
      /\ UNCHANGED <<status, queue, held, health, sent>>
  BY DEF ArrivalApplies
<1>2. Books(s) /\ Numbers(s)
  BY BookNumbers DEF Mailboxes
<1>3. hand[s] \in Item /\ hand[s] # NoItem
  BY <1>1, <1>2 DEF Books, Mailboxes, MailboxTypes
<1>4. /\ applied' \in [Source -> Seq(Item)]
      /\ Size(applied'[s]) = Size(applied[s]) + 1
  <2>1. applied[s] \in Seq(Item)
    BY DEF Mailboxes, MailboxTypes
  <2>2. /\ Append(applied[s], hand[s]) \in Seq(Item)
        /\ Len(Append(applied[s], hand[s])) = Len(applied[s]) + 1
    BY <1>3, <2>1
  <2>3. QED
    BY <1>1, <2>2 DEF Mailboxes, MailboxTypes, Size
<1>5. MailboxTypes'
  BY <1>1, <1>3, <1>4, DoneBooks DEF Mailboxes, MailboxTypes
<1>6. /\ pc'[Dispatcher(s)] = "looping" /\ pc'[Supervisor(s)] = pc[Supervisor(s)]
      /\ \A u \in Source \ {s} : /\ pc'[Supervisor(u)] = pc[Supervisor(u)]
                                /\ pc'[Dispatcher(u)] = pc[Dispatcher(u)]
  <2>1. \A u \in Source : Supervisor(u) \in Task /\ Dispatcher(u) \in Task
    BY TasksAreTasks
  <2>2. /\ \A u \in Source : Supervisor(u) # Dispatcher(s)
        /\ \A u \in Source \ {s} : Dispatcher(u) # Dispatcher(s)
    BY TasksDiffer
  <2>3. \A u \in Source :
          /\ pc'[Supervisor(u)] = [pc EXCEPT ![Dispatcher(s)] = "looping"][Supervisor(u)]
          /\ pc'[Dispatcher(u)] = [pc EXCEPT ![Dispatcher(s)] = "looping"][Dispatcher(u)]
    BY <1>1, AdmissionMoves
  <2>4. QED
    BY <2>1, <2>2, <2>3 DEF Cancellation
<1>7. Books(s)'
  <2>1. /\ hand'[s] = NoItem /\ unfinished'[s] = Size(queue'[s]) + Count(hand'[s])
        /\ Count(hand[s]) = 1 /\ Count(hand'[s]) = 0
    BY <1>1, <1>3, DoneBooks
  <2>2. Accounted(s) => Accounted(s)'
    BY <1>1, <1>2, <1>4, <2>1 DEF Accounted, Numbers
  <2>3. QED
    BY <1>1, <1>2, <1>6, <2>1, <2>2 DEF Books
<1>8. \A u \in Source \ {s} : UNCHANGED BooksOf(u)
  <2>1. \A u \in Source \ {s} : UNCHANGED <<hand[u], unfinished[u]>>
    BY <1>1, <1>3, DoneBooks
  <2>2. QED
    BY <1>1, <1>6, <2>1 DEF BooksOf, Mailboxes, MailboxTypes
<1>9. Dispatcher(s) \in Living
  BY <1>1 DEF Living, Ended, Dispatchers
<1>10. QED
  BY <1>1, <1>3, <1>5, <1>7, <1>8, <1>9, DoneBooks, OneSourceSteps, OnlyTheRunningRun

LEMMA RaiseBooks ==
  ASSUME Cancellation, Mailboxes, NEW s \in Source, ArrivalRaises(s)
  PROVE  Mailboxes' /\ hand[s] \in Item /\ hand'[s] = NoItem
<1>1. /\ GoesTo(Dispatcher(s), "dead") /\ pc[Dispatcher(s)] = "applying"
      /\ TaskDone(s)
      /\ UNCHANGED <<status, queue, held, health, sent, applied>>
  BY DEF ArrivalRaises
<1>2. Books(s)
  BY DEF Mailboxes
<1>3. hand[s] \in Item /\ hand[s] # NoItem
  BY <1>1, <1>2 DEF Books, Mailboxes, MailboxTypes
<1>4. MailboxTypes'
  BY <1>1, <1>3, DoneBooks DEF Mailboxes, MailboxTypes
<1>5. Books(s)'
  <2>1. hand'[s] = NoItem /\ unfinished'[s] = Size(queue'[s]) + Count(hand'[s])
    BY <1>1, <1>3, DoneBooks
  <2>2. QED
    BY <1>1, <1>2, <2>1, DispatcherMoves DEF Books
<1>6. \A u \in Source \ {s} : UNCHANGED BooksOf(u)
  <2>1. \A u \in Source \ {s} : UNCHANGED <<hand[u], unfinished[u]>>
    BY <1>1, <1>3, DoneBooks
  <2>2. QED
    BY <1>1, <2>1, DispatcherMoves DEF BooksOf
<1>7. QED
  BY <1>1, <1>3, <1>4, <1>5, <1>6, DoneBooks, OneSourceSteps

(* Cancellation drops what the task held, and the Runtime runs no longer.  *)
LEMMA NobodyIsCancelledInVain ==
  ASSUME Cancellation, NEW t, Cancelling(t)
  PROVE  status # "running" /\ status' = status
BY DEF Cancellation, Cancelling

LEMMA CancelledBooks ==
  ASSUME Cancellation, Mailboxes, NEW s \in Source,
         SupervisorCancelled(s) \/ DispatcherCancelled(s)
  PROVE  Mailboxes'
<1>1. /\ status # "running" /\ status' = status
      /\ UNCHANGED <<queue, health, sent, applied>>
  BY NobodyIsCancelledInVain DEF SupervisorCancelled, DispatcherCancelled, Cancelling
<1>2. Books(s)
  BY DEF Mailboxes
<1>3. CASE SupervisorCancelled(s)
  <2>1. /\ GoesTo(Supervisor(s), "done") /\ held' = [held EXCEPT ![s] = NoItem]
        /\ UNCHANGED <<unfinished, hand>>
    BY <1>3 DEF SupervisorCancelled
  <2>2. MailboxTypes' /\ held'[s] = NoItem
    BY <1>1, <2>1 DEF Mailboxes, MailboxTypes
  <2>3. Books(s)'
    BY <1>1, <1>2, <2>1, <2>2, SupervisorMoves DEF Books
  <2>4. \A u \in Source \ {s} : UNCHANGED BooksOf(u)
    BY <1>1, <2>1, SupervisorMoves DEF BooksOf, Mailboxes, MailboxTypes
  <2>5. QED
    BY <1>1, <2>2, <2>3, <2>4, OneSourceSteps
<1>4. CASE DispatcherCancelled(s)
  <2>1. /\ GoesTo(Dispatcher(s), "done")
        /\ \/ hand[s] # NoItem /\ TaskDone(s)
           \/ hand[s] = NoItem /\ UNCHANGED <<unfinished, hand>>
        /\ UNCHANGED held
    BY <1>4 DEF DispatcherCancelled
  <2>2. /\ MailboxTypes' /\ hand'[s] = NoItem
        /\ unfinished'[s] = Size(queue'[s]) + Count(hand'[s])
    BY <1>1, <1>2, <2>1, DoneBooks DEF Books, Mailboxes, MailboxTypes
  <2>3. Books(s)'
    BY <1>1, <1>2, <2>1, <2>2, DispatcherMoves DEF Books
  <2>4. \A u \in Source \ {s} : UNCHANGED <<hand[u], unfinished[u]>>
    BY <1>1, <2>1, DoneBooks
  <2>5. \A u \in Source \ {s} : UNCHANGED BooksOf(u)
    BY <1>1, <2>1, <2>4, DispatcherMoves DEF BooksOf
  <2>6. QED
    BY <1>1, <2>2, <2>3, <2>5, OneSourceSteps
<1>5. QED
  BY <1>3, <1>4

(* Firings, wait_idle and stop() leave the mailboxes alone.                *)
LEMMA OtherStepBooks ==
  ASSUME Cancellation, Mailboxes,
         \/ \E s \in Source : ArrivalWaits(s)
         \/ \E t \in Transition :
              \/ HandlerSuspends(t) \/ HandlerEnds(t) \/ FiringCancelled(t)
              \/ \E o \in Orders(Transition) : FiringSettles(t, o)
         \/ \E c \in Client :
              WaitIdleCalled(c) \/ WaitIdleWaits(c) \/ WaitIdleReturns(c)
         \/ Stop \/ StopReturns \/ UNCHANGED vars
  PROVE  Mailboxes' /\ UNCHANGED <<queue, held, hand, applied>>
<1>1. UNCHANGED <<queue, unfinished, held, hand, sent, applied>>
  BY DEF ArrivalWaits, HandlerSuspends, HandlerEnds, FiringCancelled, Cancelling,
         FiringSettles, WaitIdleCalled, WaitIdleWaits, WaitIdleReturns, Stop,
         StopReturns, vars, boxes
<1>2. \/ UNCHANGED health
      \/ health' = [s \in Source |-> [health[s] EXCEPT !.state = "stopped"]]
  BY DEF ArrivalWaits, HandlerSuspends, HandlerEnds, FiringCancelled, Cancelling,
         FiringSettles, WaitIdleCalled, WaitIdleWaits, WaitIdleReturns, Stop,
         StopReturns, vars
<1>3. /\ MailboxTypes'
      /\ \A u \in Source : /\ health'[u].restarts = health[u].restarts
                         /\ health'[u].coalesced = health[u].coalesced
  <2>1. \A u \in Source : health[u] \in Health
    BY DEF Mailboxes, MailboxTypes
  <2>2. \A h \in Health : /\ [h EXCEPT !.state = "stopped"] \in Health
                        /\ [h EXCEPT !.state = "stopped"].restarts = h.restarts
                        /\ [h EXCEPT !.state = "stopped"].coalesced = h.coalesced
    BY DEF Health
  <2>3. CASE health' = [s \in Source |-> [health[s] EXCEPT !.state = "stopped"]]
    BY <1>1, <2>1, <2>2, <2>3 DEF Mailboxes, MailboxTypes
  <2>4. CASE UNCHANGED health
    BY <1>1, <2>4 DEF Mailboxes, MailboxTypes
  <2>5. QED
    BY <1>2, <2>3, <2>4
<1>4. \A u \in Source : /\ pc'[Supervisor(u)] = pc[Supervisor(u)]
                       /\ pc'[Dispatcher(u)] = pc[Dispatcher(u)]
  <2>1. \A u \in Source : Supervisor(u) \in Task /\ Dispatcher(u) \in Task
    BY TasksAreTasks
  <2>2. ASSUME NEW t \in Transition, NEW point, pc' = [pc EXCEPT ![Firing(t)] = point]
        PROVE  \A u \in Source : /\ pc'[Supervisor(u)] = pc[Supervisor(u)]
                               /\ pc'[Dispatcher(u)] = pc[Dispatcher(u)]
    <3>1. \A u \in Source : Supervisor(u) # Firing(t) /\ Dispatcher(u) # Firing(t)
      BY TasksDiffer
    <3>2. QED
      BY <2>1, <2>2, <3>1 DEF Cancellation
  <2>3. ASSUME NEW c \in Client, NEW point, pc' = [pc EXCEPT ![Waiter(c)] = point]
        PROVE  \A u \in Source : /\ pc'[Supervisor(u)] = pc[Supervisor(u)]
                               /\ pc'[Dispatcher(u)] = pc[Dispatcher(u)]
    <3>1. \A u \in Source : Supervisor(u) # Waiter(c) /\ Dispatcher(u) # Waiter(c)
      BY TasksDiffer
    <3>2. QED
      BY <2>1, <2>3, <3>1 DEF Cancellation
  <2>4. ASSUME NEW t \in Transition, NEW o \in Orders(Transition), FiringSettles(t, o)
        PROVE  \A u \in Source : /\ pc'[Supervisor(u)] = pc[Supervisor(u)]
                               /\ pc'[Dispatcher(u)] = pc[Dispatcher(u)]
    <3>1. \A u \in Source : Supervisor(u) # Firing(t) /\ Dispatcher(u) # Firing(t)
      BY TasksDiffer
    <3>2. Admitted([pc EXCEPT ![Firing(t)] = "idle"], o)
      BY <2>4 DEF FiringSettles
    <3>3. \A u \in Source :
            /\ pc'[Supervisor(u)] = [pc EXCEPT ![Firing(t)] = "idle"][Supervisor(u)]
            /\ pc'[Dispatcher(u)] = [pc EXCEPT ![Firing(t)] = "idle"][Dispatcher(u)]
      BY <3>2, AdmissionMoves
    <3>4. QED
      BY <2>1, <3>1, <3>3 DEF Cancellation
  <2>5. ASSUME NEW t \in Transition,
               HandlerSuspends(t) \/ HandlerEnds(t) \/ FiringCancelled(t)
        PROVE  \E point : pc' = [pc EXCEPT ![Firing(t)] = point]
    BY <2>5 DEF HandlerSuspends, HandlerEnds, FiringCancelled, GoesTo
  <2>6. ASSUME NEW c \in Client, WaitIdleCalled(c) \/ WaitIdleReturns(c)
        PROVE  \E point : pc' = [pc EXCEPT ![Waiter(c)] = point]
    BY <2>6 DEF WaitIdleCalled, WaitIdleReturns, GoesTo
  <2>7. ASSUME \/ \E s \in Source : ArrivalWaits(s)
               \/ \E c \in Client : WaitIdleWaits(c)
               \/ Stop \/ StopReturns \/ UNCHANGED vars
        PROVE  UNCHANGED pc
    BY <2>7 DEF ArrivalWaits, WaitIdleWaits, Stop, StopReturns, vars
  <2>8. QED
    BY <2>2, <2>3, <2>4, <2>5, <2>6, <2>7
<1>5. status' = "running" => status = "running"
  BY DEF ArrivalWaits, HandlerSuspends, HandlerEnds, FiringCancelled, Cancelling,
         FiringSettles, WaitIdleCalled, WaitIdleWaits, WaitIdleReturns, Stop,
         StopReturns, vars
<1>6. \A u \in Source : Books(u)'
  BY <1>1, <1>3, <1>4, <1>5, BooksKept DEF BooksOf, Mailboxes
<1>7. QED
  BY <1>1, <1>3, <1>6 DEF Mailboxes

LEMMA NextMailboxes == Cancellation /\ Mailboxes /\ [Next]_vars => Mailboxes'
<1> SUFFICES ASSUME Cancellation, Mailboxes, [Next]_vars PROVE Mailboxes'
  OBVIOUS
<1>1. ASSUME NEW s \in Source,
             \/ SourceOpens(s) \/ SourceSuspends(s) \/ SourceRaises(s)
             \/ SourceEnds(s) \/ BackoffElapses(s) \/ SupervisorReturns(s)
      PROVE  Mailboxes'
  BY <1>1, QuietSupervisorBooks
<1>2. ASSUME NEW s \in Source,
             \/ \E k \in Kind : SourceYields(s, k)
             \/ PutsItem(s) \/ PutCoalesces(s) \/ PutBlocks(s)
             \/ SupervisorBacksOff(s)
      PROVE  Mailboxes'
  BY <1>2, YieldBooks, PutBooks, CoalesceBooks, BlockBooks, BackOffBooks
<1>3. ASSUME NEW s \in Source,
             \/ DispatcherAwaitsItem(s) \/ DispatcherTakes(s) \/ ArrivalRaises(s)
             \/ \E o \in Orders(Transition) : ArrivalApplies(s, o)
             \/ SupervisorCancelled(s) \/ DispatcherCancelled(s)
      PROVE  Mailboxes'
  BY <1>3, GetBooks, TakeBooks, RaiseBooks, ApplyBooks, CancelledBooks
<1>4. CASE \/ \E s \in Source : ArrivalWaits(s)
           \/ \E t \in Transition :
                \/ HandlerSuspends(t) \/ HandlerEnds(t) \/ FiringCancelled(t)
                \/ \E o \in Orders(Transition) : FiringSettles(t, o)
           \/ \E c \in Client :
                WaitIdleCalled(c) \/ WaitIdleWaits(c) \/ WaitIdleReturns(c)
           \/ Stop \/ StopReturns \/ UNCHANGED vars
  BY <1>4, OtherStepBooks
<1>5. QED
  BY <1>1, <1>2, <1>3, <1>4 DEF Next, LoopStep

LEMMA SpecMailboxes == Spec => [](Cancellation /\ Mailboxes)
BY InitCancellation, NextCancellation, InitMailboxes, NextMailboxes, PTL DEF Spec

(* Nothing a source yields disappears uncounted, for any policies and      *)
(* capacities, whatever fails and however long arrivals wait.              *)
THEOREM LossesAreCounted == Spec => []NothingLostUncounted
<1>1. ASSUME Mailboxes PROVE NothingLostUncounted
  <2>1. ASSUME NEW s \in Source, status = "running"
        PROVE  /\ unfinished[s] = Len(queue[s]) + Len(One(hand[s]))
               /\ pc[Dispatcher(s)] # "dead" =>
                    sent[s] <= Len(applied[s]) + Len(Pending[s]) + health[s].coalesced
                               + health[s].restarts
                               + (IF held[s] # NoItem /\ ~held[s].fits THEN 1 ELSE 0)
    <3> DEFINE kept == IF held[s] # NoItem /\ held[s].fits THEN <<held[s]>> ELSE <<>>
               lost == IF held[s] # NoItem /\ ~held[s].fits THEN 1 ELSE 0
    <3>1. Books(s) /\ Numbers(s)
      BY <1>1, BookNumbers DEF Mailboxes
    <3>2. Size(One(hand[s])) = Count(hand[s]) /\ One(hand[s]) \in Seq(Item)
      BY <1>1 DEF Count, One, Size, Mailboxes, MailboxTypes
    <3>3. /\ Size(kept) \in Nat /\ lost \in Nat /\ kept \in Seq(Item)
          /\ Size(kept) + lost = Count(held[s])
      BY <1>1 DEF Count, Size, Mailboxes, MailboxTypes
    <3>4. Size(Pending[s]) = Count(hand[s]) + Size(queue[s]) + Size(kept)
      <4>1. Pending[s] = (One(hand[s]) \o queue[s]) \o kept
        BY DEF Pending
      <4>2. queue[s] \in Seq(Item)
        BY <1>1 DEF Mailboxes, MailboxTypes
      <4>3. Size((One(hand[s]) \o queue[s]) \o kept) =
              Size(One(hand[s])) + Size(queue[s]) + Size(kept)
        <5>1. /\ One(hand[s]) \o queue[s] \in Seq(Item)
              /\ Len(One(hand[s]) \o queue[s]) = Len(One(hand[s])) + Len(queue[s])
          BY <3>2, <4>2, ConcatProperties
        <5>2. Len((One(hand[s]) \o queue[s]) \o kept) =
                Len(One(hand[s]) \o queue[s]) + Len(kept)
          BY <3>3, <5>1, ConcatProperties
        <5>3. QED
          BY <5>1, <5>2 DEF Size
      <4>4. QED
        BY <3>2, <4>1, <4>3
    <3> HIDE DEF kept, lost
    <3>5. Accounted(s) =>
            sent[s] <= Size(applied[s]) + Size(Pending[s]) + health[s].coalesced
                       + health[s].restarts + lost
      <4>1. Size(Pending[s]) \in Nat
        BY <3>1, <3>3, <3>4 DEF Numbers
      <4>2. Count(hand[s]) + Size(queue[s]) + Count(held[s]) = Size(Pending[s]) + lost
        BY <3>1, <3>3, <3>4 DEF Numbers
      <4>3. \A x, a, h, q, e, c, r, p, l \in Nat :
              h + q + e = p + l /\ x <= a + h + q + e + c + r => x <= a + p + c + r + l
        OBVIOUS
      <4> DEFINE a == Size(applied[s])
                 h == Count(hand[s])
                 q == Size(queue[s])
                 e == Count(held[s])
                 c == health[s].coalesced
                 r == health[s].restarts
                 p == Size(Pending[s])
                 x == sent[s]
      <4>4. /\ x \in Nat /\ a \in Nat /\ h \in Nat /\ q \in Nat /\ e \in Nat
            /\ c \in Nat /\ r \in Nat /\ p \in Nat /\ lost \in Nat
            /\ h + q + e = p + lost
            /\ Accounted(s) => x <= a + h + q + e + c + r
        BY <3>1, <3>3, <4>1, <4>2 DEF Accounted, Numbers
      <4>5. QED
        <5> HIDE DEF a, h, q, e, c, r, p, x
        <5>1. Accounted(s) => x <= a + p + c + r + lost
          BY <4>3, <4>4
        <5>2. QED
          BY <5>1 DEF a, h, q, e, c, r, p, x
    <3>6. QED
      BY <2>1, <3>1, <3>2, <3>5 DEF Books, Size, lost
  <2>2. QED
    BY <2>1 DEF NothingLostUncounted
<1>2. QED
  BY <1>1, SpecMailboxes, PTL

-----------------------------------------------------------------------------
(* The mailbox and the two tasks at its ends are one channel.              *)

Kept(e) == IF e # NoItem /\ e.fits THEN <<e>> ELSE <<>>

InTransit(h, q, e) == One(h) \o q \o Kept(e)

LEMMA PendingIsInTransit ==
  ASSUME NEW s \in Source
  PROVE  /\ Pending[s] = InTransit(hand[s], queue[s], held[s])
         /\ Pending'[s] = InTransit(hand'[s], queue'[s], held'[s])
BY DEF Pending, InTransit, Kept

LEMMA TransitType ==
  ASSUME NEW h \in Item \cup {NoItem}, NEW q \in Seq(Item), NEW e \in Item \cup {NoItem}
  PROVE  /\ One(h) \in Seq(Item) /\ Kept(e) \in Seq(Item)
         /\ InTransit(h, q, e) \in Seq(Item)
<1>1. One(h) \in Seq(Item) /\ Kept(e) \in Seq(Item)
  BY DEF One, Kept
<1>2. QED
  BY <1>1 DEF InTransit

(* What the supervisor gets to put comes last.                             *)
LEMMA TransitSends ==
  ASSUME NEW h \in Item \cup {NoItem}, NEW q \in Seq(Item), NEW i \in Item, i.fits
  PROVE  /\ InTransit(h, q, i) = Append(InTransit(h, q, NoItem), i)
         /\ InTransit(h, Append(q, i), NoItem) = InTransit(h, q, i)
<1>1. One(h) \in Seq(Item) /\ Kept(i) = <<i>> /\ Kept(NoItem) = <<>>
  BY TransitType, ItemIsNotNoItem DEF Kept
<1>2. One(h) \o q \in Seq(Item) /\ Append(q, i) \in Seq(Item)
  BY <1>1
<1>3. InTransit(h, q, NoItem) = One(h) \o q
  BY <1>1, <1>2, ConcatEmptySeq DEF InTransit
<1>4. InTransit(h, q, i) = Append(One(h) \o q, i)
  BY <1>1, <1>2, AppendIsConcat DEF InTransit
<1>5. InTransit(h, Append(q, i), NoItem) = One(h) \o Append(q, i)
  <2>1. One(h) \o Append(q, i) \in Seq(Item)
    BY <1>1, <1>2
  <2>2. QED
    BY <1>1, <2>1, ConcatEmptySeq DEF InTransit
<1>6. One(h) \o Append(q, i) = Append(One(h) \o q, i)
  <2>1. Append(q, i) = q \o <<i>> /\ <<i>> \in Seq(Item)
    BY AppendIsConcat
  <2>2. (One(h) \o q) \o <<i>> = One(h) \o (q \o <<i>>)
    BY <1>1, <2>1, ConcatAssociative
  <2>3. QED
    BY <1>2, <2>1, <2>2, AppendIsConcat
<1>7. QED
  BY <1>3, <1>4, <1>5, <1>6

(* An item no mailbox takes is not in transit.                             *)
LEMMA TransitIgnoresMisfits ==
  ASSUME NEW h, NEW q, NEW e, e = NoItem \/ ~e.fits
  PROVE  InTransit(h, q, e) = InTransit(h, q, NoItem)
BY DEF InTransit, Kept

(* The dispatcher's hand is the front of the queue.                        *)
LEMMA TransitTakes ==
  ASSUME NEW q \in Seq(Item), q # <<>>, NEW e \in Item \cup {NoItem}
  PROVE  InTransit(Head(q), Tail(q), e) = InTransit(NoItem, q, e)
<1>1. Head(q) \in Item /\ Tail(q) \in Seq(Item)
  OBVIOUS
<1>2. One(Head(q)) = <<Head(q)>> /\ One(NoItem) = <<>>
  BY <1>1, ItemIsNotNoItem DEF One
<1>3. <<Head(q)>> \o Tail(q) = q /\ <<>> \o q = q
  BY <1>1
<1>4. QED
  BY <1>2, <1>3 DEF InTransit

LEMMA TransitDelivers ==
  ASSUME NEW h \in Item, NEW q \in Seq(Item), NEW e \in Item \cup {NoItem}
  PROVE  /\ InTransit(h, q, e) # <<>> /\ Head(InTransit(h, q, e)) = h
         /\ Tail(InTransit(h, q, e)) = InTransit(NoItem, q, e)
<1> DEFINE r == q \o Kept(e)
<1>1. Kept(e) \in Seq(Item) /\ r \in Seq(Item) /\ <<h>> \in Seq(Item)
  BY TransitType
<1>2. One(h) = <<h>> /\ One(NoItem) = <<>>
  BY ItemIsNotNoItem DEF One
<1>3. InTransit(h, q, e) = <<h>> \o r
  BY <1>1, <1>2, ConcatAssociative DEF InTransit
<1>4. InTransit(NoItem, q, e) = r
  BY <1>1, <1>2, ConcatEmptySeq DEF InTransit
<1> HIDE DEF r
<1>5. <<h>> \o r # <<>> /\ Head(<<h>> \o r) = h /\ Tail(<<h>> \o r) = r
  BY <1>1
<1>6. QED
  BY <1>3, <1>4, <1>5

(* The supervisor's item can be dropped, or take the last one's place.     *)
LEMMA TransitDrops ==
  ASSUME NEW h \in Item \cup {NoItem}, NEW q \in Seq(Item), NEW i \in Item, i.fits
  PROVE  LET t == InTransit(h, q, i)
         IN  t # <<>> /\ SubSeq(t, 1, Len(t) - 1) = InTransit(h, q, NoItem)
<1> DEFINE r == InTransit(h, q, NoItem)
<1>1. r \in Seq(Item) /\ InTransit(h, q, i) = Append(r, i)
  BY TransitType, TransitSends
<1> HIDE DEF r
<1>2. Append(r, i) # <<>> /\ SubSeq(Append(r, i), 1, Len(Append(r, i)) - 1) = r
  BY <1>1
<1>3. QED
  BY <1>1, <1>2 DEF r

LEMMA TransitSupersedes ==
  ASSUME NEW h \in Item \cup {NoItem}, NEW q \in Seq(Item), Len(q) = 1,
         NEW i \in Item, i.fits
  PROVE  LET t == InTransit(h, q, i)
             n == Len(t)
         IN  /\ n >= 2 /\ t[n] = i /\ t[n - 1] = q[1]
             /\ Append(SubSeq(t, 1, n - 2), t[n]) = InTransit(h, <<i>>, NoItem)
<1> DEFINE r == One(h)
           x == q[1]
<1>1. r \in Seq(Item) /\ q = <<x>> /\ x \in Item
  <2>1. r \in Seq(Item) /\ x \in Item
    <3>1. r \in Seq(Item)
      BY TransitType
    <3>2. 1 \in 1..Len(q)
      OBVIOUS
    <3>3. q[1] \in Item
      BY <3>2, ElementOfSeq
    <3>4. QED
      BY <3>1, <3>3
  <2>2. <<x>> \in Seq(Item) /\ Len(<<x>>) = 1 /\ <<x>>[1] = x
    BY <2>1
  <2>3. \A j \in 1..Len(q) : q[j] = <<x>>[j]
    BY <2>2
  <2>4. QED
    BY <2>1, <2>2, <2>3, SeqEqual
<1>2. InTransit(h, q, i) = Append(Append(r, x), i)
  <2>1. InTransit(h, Append(q, i), NoItem) = InTransit(h, q, i)
    BY TransitSends
  <2>2. Append(r, x) \in Seq(Item) /\ r \o <<x>> = Append(r, x)
    BY <1>1, AppendIsConcat
  <2>3. InTransit(h, q, i) = (r \o <<x>>) \o <<i>>
    BY <1>1, ItemIsNotNoItem DEF InTransit, Kept
  <2>4. QED
    BY <2>2, <2>3, AppendIsConcat
<1>3. InTransit(h, <<i>>, NoItem) = Append(r, i)
  <2>1. Kept(NoItem) = <<>> /\ r \o <<i>> \in Seq(Item)
    BY <1>1 DEF Kept
  <2>2. QED
    BY <1>1, <2>1, ConcatEmptySeq, AppendIsConcat DEF InTransit
<1> HIDE DEF r, x
<1>4. LET t == Append(Append(r, x), i)
          n == Len(t)
      IN  /\ n >= 2 /\ t[n] = i /\ t[n - 1] = x
          /\ SubSeq(t, 1, n - 2) = r
  BY <1>1
<1>5. QED
  BY <1>2, <1>3, <1>4 DEF x

(* What changes for one source changes nothing for the others.             *)
LEMMA PendingChanges ==
  ASSUME NEW s \in Source,
         \A u \in Source \ {s} : UNCHANGED <<hand[u], queue[u], held[u]>>
  PROVE  Pending' = [Pending EXCEPT ![s] = Pending'[s]]
<1>1. \A u \in Source \ {s} : Pending'[u] = Pending[u]
  BY PendingIsInTransit
<1>2. /\ DOMAIN Pending = Source /\ Pending = [u \in Source |-> Pending[u]]
      /\ DOMAIN Pending' = Source /\ Pending' = [u \in Source |-> Pending'[u]]
  BY DEF Pending
<1> HIDE DEF Pending
<1>3. QED
  BY <1>1, <1>2

ChannelStep == [Promise!Next]_<<status = "running", Pending, applied>>

(* A step that changes nothing the channel has is none of its steps.       *)
LEMMA ChannelStutters ==
  ASSUME NEW s \in Source, UNCHANGED <<status, applied>>, Pending'[s] = Pending[s],
         \A u \in Source \ {s} : UNCHANGED <<hand[u], queue[u], held[u]>>
  PROVE  ChannelStep
<1>1. Pending' = [Pending EXCEPT ![s] = Pending'[s]]
  BY PendingChanges
<1>2. Pending = [u \in Source |-> Pending[u]] /\ DOMAIN Pending = Source
  BY DEF Pending
<1> HIDE DEF Pending
<1>3. Pending' = Pending
  BY <1>1, <1>2
<1>4. QED
  BY <1>3 DEF ChannelStep

LEMMA SupervisorStepChannel ==
  ASSUME Cancellation, Mailboxes, NEW s \in Source,
         \/ \E k \in Kind : SourceYields(s, k)
         \/ PutsItem(s) \/ PutCoalesces(s) \/ SupervisorBacksOff(s)
         \/ SupervisorCancelled(s)
  PROVE  ChannelStep
<1>1. /\ hand[s] \in Item \cup {NoItem} /\ held[s] \in Item \cup {NoItem}
      /\ queue[s] \in Seq(Item) /\ held \in [Source -> Item \cup {NoItem}]
      /\ queue \in [Source -> Seq(Item)]
  BY DEF Mailboxes, MailboxTypes
<1>2. \A u \in Source \ {s} : UNCHANGED <<hand[u], queue[u], held[u]>>
  BY <1>1 DEF SourceYields, SourceAnswers, PutsItem, PutReturns, PutCoalesces,
              SupervisorBacksOff, SupervisorCancelled, Cancelling
<1>3. UNCHANGED <<status, applied>>
  BY DEF SourceYields, SourceAnswers, PutsItem, PutReturns, PutCoalesces,
         SupervisorBacksOff, SupervisorCancelled, Cancelling
<1>4. Pending' = [Pending EXCEPT ![s] = Pending'[s]]
  BY <1>2, PendingChanges
<1>5. CASE \E k \in Kind : SourceYields(s, k)
  <2>1. PICK k \in Kind : SourceYields(s, k)
    BY <1>5
  <2>2. held'[s] \in Item /\ held[s] = NoItem
    BY <2>1, YieldBooks
  <2>3. UNCHANGED <<hand, queue>>
    BY <2>1 DEF SourceYields, SourceAnswers
  <2>4. CASE held'[s].fits
    <3>1. Pending'[s] = Append(Pending[s], held'[s])
      <4>1. /\ Pending[s] = InTransit(hand[s], queue[s], NoItem)
            /\ Pending'[s] = InTransit(hand[s], queue[s], held'[s])
        BY <2>2, <2>3, PendingIsInTransit
      <4>2. InTransit(hand[s], queue[s], held'[s])
              = Append(InTransit(hand[s], queue[s], NoItem), held'[s])
        BY <1>1, <2>2, <2>4, TransitSends
      <4>3. QED
        BY <4>1, <4>2
    <3>2. Promise!Send(s, held'[s])
      BY <1>3, <1>4, <3>1 DEF Promise!Send
    <3>3. QED
      BY <2>2, <3>2 DEF ChannelStep, Promise!Next
  <2>5. CASE ~held'[s].fits
    <3>1. Pending'[s] = Pending[s]
      BY <2>2, <2>3, <2>5, PendingIsInTransit, TransitIgnoresMisfits
    <3>2. QED
      BY <1>2, <1>3, <3>1, ChannelStutters
  <2>6. QED
    BY <2>4, <2>5
<1>6. CASE PutsItem(s)
  <2>1. held[s] \in Item /\ held[s].fits
    BY <1>6, PutBooks
  <2>2. /\ queue'[s] = Append(queue[s], held[s]) /\ held'[s] = NoItem
        /\ UNCHANGED hand
    BY <1>1, <1>6 DEF PutsItem, PutReturns
  <2>3. Pending'[s] = Pending[s]
    <3>1. /\ Pending[s] = InTransit(hand[s], queue[s], held[s])
          /\ Pending'[s] = InTransit(hand[s], Append(queue[s], held[s]), NoItem)
      BY <2>2, PendingIsInTransit
    <3>2. InTransit(hand[s], Append(queue[s], held[s]), NoItem)
            = InTransit(hand[s], queue[s], held[s])
      BY <1>1, <2>1, TransitSends
    <3>3. QED
      BY <3>1, <3>2
  <2>4. QED
    BY <1>2, <1>3, <2>3, ChannelStutters
<1>7. CASE PutCoalesces(s)
  <2>1. held[s] \in Item /\ held[s].fits /\ Len(queue[s]) = 1
    BY <1>7, CoalesceBooks
  <2>2. /\ queue'[s] = <<held[s]>> /\ held'[s] = NoItem /\ UNCHANGED hand
        /\ Policy[s] = "coalesce" /\ queue[s][1].key = held[s].key
    BY <1>1, <1>7 DEF PutCoalesces, PutReturns, Replaceable
  <2>3. LET n == Len(Pending[s])
        IN  /\ n >= 2 /\ Pending[s][n] = held[s] /\ Pending[s][n - 1] = queue[s][1]
            /\ Append(SubSeq(Pending[s], 1, n - 2), Pending[s][n]) = Pending'[s]
    <3>1. /\ Pending[s] = InTransit(hand[s], queue[s], held[s])
          /\ Pending'[s] = InTransit(hand[s], <<held[s]>>, NoItem)
      BY <2>2, PendingIsInTransit
    <3>2. LET t == InTransit(hand[s], queue[s], held[s])
              n == Len(t)
          IN  /\ n >= 2 /\ t[n] = held[s] /\ t[n - 1] = queue[s][1]
              /\ Append(SubSeq(t, 1, n - 2), t[n])
                   = InTransit(hand[s], <<held[s]>>, NoItem)
      BY <1>1, <2>1, TransitSupersedes
    <3>3. QED
      BY <3>1, <3>2
  <2>4. Promise!Supersede(s)
    BY <1>3, <1>4, <2>2, <2>3 DEF Promise!Supersede
  <2>5. QED
    BY <2>4 DEF ChannelStep, Promise!Next
<1>8. CASE SupervisorBacksOff(s)
  <2>1. (held[s] # NoItem => ~held[s].fits) /\ held'[s] = NoItem
    BY <1>1, <1>8, BackOffBooks DEF SupervisorBacksOff
  <2>2. UNCHANGED <<hand, queue>>
    BY <1>8 DEF SupervisorBacksOff
  <2>3. Pending'[s] = Pending[s]
    BY <2>1, <2>2, PendingIsInTransit, TransitIgnoresMisfits
  <2>4. QED
    BY <1>2, <1>3, <2>3, ChannelStutters
<1>9. CASE SupervisorCancelled(s)
  <2>1. /\ held'[s] = NoItem /\ UNCHANGED <<hand, queue>>
        /\ status # "running"
    BY <1>1, <1>9, NobodyIsCancelledInVain DEF SupervisorCancelled, Cancelling
  <2>2. CASE held[s] # NoItem /\ held[s].fits
    <3>1. /\ Pending[s] # <<>>
          /\ Pending'[s] = SubSeq(Pending[s], 1, Len(Pending[s]) - 1)
      <4>1. /\ Pending[s] = InTransit(hand[s], queue[s], held[s])
            /\ Pending'[s] = InTransit(hand[s], queue[s], NoItem)
        BY <2>1, PendingIsInTransit
      <4>2. /\ InTransit(hand[s], queue[s], held[s]) # <<>>
            /\ SubSeq(InTransit(hand[s], queue[s], held[s]), 1,
                      Len(InTransit(hand[s], queue[s], held[s])) - 1)
                 = InTransit(hand[s], queue[s], NoItem)
        BY <1>1, <2>2, TransitDrops
      <4>3. QED
        BY <4>1, <4>2
    <3>2. Promise!Abandon(s)
      BY <1>3, <1>4, <2>1, <3>1 DEF Promise!Abandon
    <3>3. QED
      BY <3>2 DEF ChannelStep, Promise!Next
  <2>3. CASE ~(held[s] # NoItem /\ held[s].fits)
    <3>1. Pending'[s] = Pending[s]
      BY <2>1, <2>3, PendingIsInTransit, TransitIgnoresMisfits
    <3>2. QED
      BY <1>2, <1>3, <3>1, ChannelStutters
  <2>4. QED
    BY <2>2, <2>3
<1>10. QED
  BY <1>5, <1>6, <1>7, <1>8, <1>9

LEMMA DispatcherStepChannel ==
  ASSUME Cancellation, Mailboxes, NEW s \in Source,
         \/ DispatcherTakes(s) \/ ArrivalRaises(s) \/ DispatcherCancelled(s)
         \/ \E o \in Orders(Transition) : ArrivalApplies(s, o)
  PROVE  ChannelStep
<1>1. /\ hand[s] \in Item \cup {NoItem} /\ held[s] \in Item \cup {NoItem}
      /\ queue[s] \in Seq(Item) /\ hand \in [Source -> Item \cup {NoItem}]
      /\ queue \in [Source -> Seq(Item)]
  BY DEF Mailboxes, MailboxTypes
<1>2. \A u \in Source \ {s} : UNCHANGED <<hand[u], queue[u], held[u]>>
  BY <1>1 DEF DispatcherTakes, ArrivalRaises, DispatcherCancelled, Cancelling,
              ArrivalApplies, TaskDone
<1>3. UNCHANGED status
  BY DEF DispatcherTakes, ArrivalRaises, DispatcherCancelled, Cancelling,
         ArrivalApplies
<1>4. Pending' = [Pending EXCEPT ![s] = Pending'[s]]
  BY <1>2, PendingChanges
<1>5. CASE DispatcherTakes(s)
  <2>1. hand[s] = NoItem
    BY <1>5, TakeBooks
  <2>2. /\ queue[s] # <<>> /\ hand'[s] = Head(queue[s]) /\ queue'[s] = Tail(queue[s])
        /\ UNCHANGED <<held, applied>>
    BY <1>1, <1>5 DEF DispatcherTakes
  <2>3. Pending'[s] = Pending[s]
    BY <1>1, <2>1, <2>2, PendingIsInTransit, TransitTakes
  <2>4. QED
    BY <1>2, <1>3, <2>2, <2>3, ChannelStutters
<1>6. ASSUME hand[s] \in Item, hand'[s] = NoItem, UNCHANGED <<queue, held>>
      PROVE  /\ Pending[s] # <<>> /\ Head(Pending[s]) = hand[s]
             /\ Pending'[s] = Tail(Pending[s])
  <2>1. /\ Pending[s] = InTransit(hand[s], queue[s], held[s])
        /\ Pending'[s] = InTransit(NoItem, queue[s], held[s])
    BY <1>6, PendingIsInTransit
  <2>2. LET t == InTransit(hand[s], queue[s], held[s])
        IN  /\ t # <<>> /\ Head(t) = hand[s]
            /\ Tail(t) = InTransit(NoItem, queue[s], held[s])
    BY <1>1, <1>6, TransitDelivers
  <2>3. QED
    BY <2>1, <2>2
<1>7. CASE ArrivalRaises(s)
  <2>1. hand[s] \in Item /\ hand'[s] = NoItem
    BY <1>7, RaiseBooks
  <2>2. ~hand[s].accepted /\ UNCHANGED <<queue, held, applied>>
    BY <1>7 DEF ArrivalRaises
  <2>3. Promise!Refuse(s)
    BY <1>3, <1>4, <1>6, <2>1, <2>2 DEF Promise!Refuse
  <2>4. QED
    BY <2>3 DEF ChannelStep, Promise!Next
<1>8. CASE \E o \in Orders(Transition) : ArrivalApplies(s, o)
  <2>1. PICK o \in Orders(Transition) : ArrivalApplies(s, o)
    BY <1>8
  <2>2. hand[s] \in Item /\ hand'[s] = NoItem /\ status = "running"
    BY <2>1, ApplyBooks
  <2>3. /\ hand[s].accepted /\ UNCHANGED <<queue, held>>
        /\ applied' = [applied EXCEPT ![s] = Append(@, hand[s])]
    BY <2>1 DEF ArrivalApplies
  <2>4. Promise!Deliver(s)
    BY <1>3, <1>4, <1>6, <2>2, <2>3 DEF Promise!Deliver
  <2>5. QED
    BY <2>4 DEF ChannelStep, Promise!Next
<1>9. CASE DispatcherCancelled(s)
  <2>1. status # "running" /\ UNCHANGED <<queue, held, applied>>
    BY <1>9, NobodyIsCancelledInVain DEF DispatcherCancelled, Cancelling
  <2>2. CASE hand[s] # NoItem
    <3>1. hand[s] \in Item /\ hand'[s] = NoItem
      BY <1>1, <1>9, <2>2 DEF DispatcherCancelled, TaskDone
    <3>2. Promise!Abandon(s)
      BY <1>3, <1>4, <1>6, <2>1, <3>1 DEF Promise!Abandon
    <3>3. QED
      BY <3>2 DEF ChannelStep, Promise!Next
  <2>3. CASE hand[s] = NoItem
    <3>1. UNCHANGED hand
      BY <1>9, <2>3 DEF DispatcherCancelled
    <3>2. Pending'[s] = Pending[s]
      BY <2>1, <3>1, PendingIsInTransit
    <3>3. QED
      BY <1>2, <1>3, <2>1, <3>2, ChannelStutters
  <2>4. QED
    BY <2>2, <2>3
<1>10. QED
  BY <1>5, <1>7, <1>8, <1>9

(* Every other step leaves the channel as it is, but stop(), which closes  *)
(* it.                                                                     *)
LEMMA OtherStepChannel ==
  ASSUME UNCHANGED <<queue, held, hand, applied>>,
         \/ UNCHANGED status \/ Stop \/ StopReturns
  PROVE  ChannelStep
<1>1. Pending' = Pending
  <2>1. UNCHANGED <<queue, held, hand>> => Pending' = Pending
    BY DEF Pending
  <2>2. QED
    BY <2>1
<1>2. CASE UNCHANGED status
  BY <1>1, <1>2 DEF ChannelStep
<1>3. CASE Stop
  <2>1. Promise!Close
    BY <1>1, <1>3 DEF Promise!Close, Stop
  <2>2. QED
    BY <2>1 DEF ChannelStep, Promise!Next
<1>4. CASE StopReturns
  <2>1. (status = "running")' = (status = "running")
    BY <1>4 DEF StopReturns
  <2>2. QED
    BY <1>1, <2>1 DEF ChannelStep
<1>5. QED
  BY <1>2, <1>3, <1>4

LEMMA NextChannel == Cancellation /\ Mailboxes /\ [Next]_vars => ChannelStep
<1> SUFFICES ASSUME Cancellation, Mailboxes, [Next]_vars PROVE ChannelStep
  OBVIOUS
<1>1. ASSUME NEW s \in Source,
             \/ SourceOpens(s) \/ SourceSuspends(s) \/ SourceRaises(s)
             \/ SourceEnds(s) \/ BackoffElapses(s) \/ SupervisorReturns(s)
             \/ PutBlocks(s) \/ DispatcherAwaitsItem(s)
      PROVE  ChannelStep
  <2>1. UNCHANGED <<queue, held, hand, applied>> /\ UNCHANGED status
    BY <1>1 DEF SourceOpens, SourceSuspends, SourceRaises, SourceEnds,
                SourceAnswers, BackoffElapses, SupervisorReturns, PutBlocks,
                DispatcherAwaitsItem, boxes
  <2>2. QED
    BY <2>1, OtherStepChannel
<1>2. ASSUME NEW s \in Source,
             \/ \E k \in Kind : SourceYields(s, k)
             \/ PutsItem(s) \/ PutCoalesces(s) \/ SupervisorBacksOff(s)
             \/ SupervisorCancelled(s)
      PROVE  ChannelStep
  BY <1>2, SupervisorStepChannel
<1>3. ASSUME NEW s \in Source,
             \/ DispatcherTakes(s) \/ ArrivalRaises(s) \/ DispatcherCancelled(s)
             \/ \E o \in Orders(Transition) : ArrivalApplies(s, o)
      PROVE  ChannelStep
  BY <1>3, DispatcherStepChannel
<1>4. CASE \/ \E s \in Source : ArrivalWaits(s)
           \/ \E t \in Transition :
                \/ HandlerSuspends(t) \/ HandlerEnds(t) \/ FiringCancelled(t)
                \/ \E o \in Orders(Transition) : FiringSettles(t, o)
           \/ \E c \in Client :
                WaitIdleCalled(c) \/ WaitIdleWaits(c) \/ WaitIdleReturns(c)
           \/ Stop \/ StopReturns \/ UNCHANGED vars
  <2>1. UNCHANGED <<queue, held, hand, applied>>
    BY <1>4, OtherStepBooks
  <2>2. UNCHANGED status \/ Stop \/ StopReturns
    BY <1>4 DEF ArrivalWaits, HandlerSuspends, HandlerEnds, FiringCancelled,
                Cancelling, FiringSettles, WaitIdleCalled, WaitIdleWaits,
                WaitIdleReturns, vars
  <2>3. QED
    BY <2>1, <2>2, OtherStepChannel
<1>5. QED
  BY <1>1, <1>2, <1>3, <1>4 DEF Next, LoopStep

LEMMA InitChannel == Init => Promise!Init
<1> SUFFICES ASSUME Init PROVE Promise!Init
  OBVIOUS
<1>1. /\ queue = [s \in Source |-> <<>>] /\ held = [s \in Source |-> NoItem]
      /\ hand = [s \in Source |-> NoItem]
  BY DEF Init
<1>2. \A s \in Source : Pending[s] = <<>>
  <2>1. <<>> \o <<>> = <<>>
    OBVIOUS
  <2>2. QED
    BY <1>1, <2>1 DEF Pending, One
<1>3. Pending = [s \in Source |-> Pending[s]]
  BY DEF Pending
<1> HIDE DEF Pending
<1>4. Pending = [s \in Source |-> <<>>]
  BY <1>2, <1>3
<1>5. QED
  BY <1>4 DEF Init, Promise!Init

(* A source's items reach the marking once each and in order, or are       *)
(* superseded by the next of their key, whatever the capacities and the    *)
(* footprints, and whenever stop() is called: the mailboxes, the hands of  *)
(* supervisor and dispatcher and the arrivals that wait implement one      *)
(* channel per source.                                                     *)
THEOREM SourcesKeepTheirPromise == Spec => ImplementsChannel
<1>1. ChannelStep <=> [Promise!Next]_(Promise!channel)
  BY DEF ChannelStep, Promise!channel
<1>2. Cancellation /\ Mailboxes /\ [Next]_vars => [Promise!Next]_(Promise!channel)
  BY <1>1, NextChannel
<1>3. QED
  BY <1>2, InitChannel, SpecMailboxes, PTL DEF Spec, ImplementsChannel, Promise!Spec

-----------------------------------------------------------------------------
(* No wakeup is lost or given twice.  The loop's queue and the event's     *)
(* waiters are two sequences in which no task stands twice, and where a    *)
(* task stands says where its coroutine is: that keeps a waiting task from *)
(* running.  A dispatcher's conflict and a wait_idle's reason to wait then *)
(* go away only in steps that wake all waiters, but for the step that      *)
(* takes the last item of a mailbox: it is followed, in the same coroutine *)
(* run, by one that wakes them or by a conflict, which is a reason to wait.*)

Standing ==
  /\ \A x \in Elements(waiters) :
       \/ x \in Dispatchers /\ pc[x] = "applying"
       \/ x \in Waiters /\ pc[x] = "checking"
  /\ \A x \in Elements(ready) :
       /\ x \in Waiters => pc[x] = "checking"
       /\ x \in Firings => pc[x] # "idle"

Loop ==
  /\ ready \in Seq(Task) /\ waiters \in Seq(Task)
  /\ Apart(ready, waiters)
  /\ Standing

(* A dispatcher has just taken an item, and goes on without suspending.    *)
Arriving ==
  /\ mid /\ ready # <<>>
  /\ \E s \in Source : /\ Head(ready) = Dispatcher(s)
                       /\ pc[Dispatcher(s)] = "applying"

Wakeups ==
  /\ \A s \in Source :
       Dispatcher(s) \in Elements(waiters) => WriteConflicts(hand[s].places)
  /\ \A x \in Elements(waiters) : x \in Waiters => ~Idle \/ Arriving

-----------------------------------------------------------------------------
(* The two sequences.                                                      *)

LEMMA TaskKinds ==
  /\ \A s \in Source : /\ Supervisor(s) \in Supervisors
                       /\ Dispatcher(s) \in Dispatchers
  /\ \A t \in Transition : Firing(t) \in Firings
  /\ \A c \in Client : Waiter(c) \in Waiters
  /\ Supervisors \cap Dispatchers = {} /\ Supervisors \cap Firings = {}
  /\ Supervisors \cap Waiters = {} /\ Dispatchers \cap Firings = {}
  /\ Dispatchers \cap Waiters = {} /\ Firings \cap Waiters = {}
  /\ Task = Supervisors \cup Dispatchers \cup Firings \cup Waiters
BY TasksDiffer DEF Task, Supervisors, Dispatchers, Firings, Waiters

LEMMA ReadyIsElements ==
  ASSUME ready \in Seq(Task), NEW t
  PROVE  IsReady(t) <=> t \in Elements(ready)
BY DEF IsReady, Elements

LEMMA HeadLeaves ==
  ASSUME Loop, ready # <<>>
  PROVE  /\ Tail(ready) \in Seq(Task) /\ Apart(Tail(ready), waiters)
         /\ Head(ready) \in Task /\ Head(ready) \in Elements(ready)
         /\ Elements(Tail(ready)) = Elements(ready) \ {Head(ready)}
         /\ Head(ready) \notin Elements(waiters)
BY TailDistinct DEF Loop, Apart

LEMMA HeadWaits ==
  ASSUME Loop, ready # <<>>
  PROVE  LET w == Append(waiters, Head(ready))
         IN  /\ w \in Seq(Task) /\ Apart(Tail(ready), w)
             /\ Elements(w) = Elements(waiters) \cup {Head(ready)}
BY HeadLeaves, AppendDistinct DEF Loop, Apart

LEMMA TaskJoins ==
  ASSUME Loop, NEW x \in Task, x \notin Elements(ready), x \notin Elements(waiters)
  PROVE  /\ Append(ready, x) \in Seq(Task) /\ Apart(Append(ready, x), waiters)
         /\ Elements(Append(ready, x)) = Elements(ready) \cup {x}
BY AppendDistinct DEF Loop, Apart

(* The waiters become ready, behind r and before the new tasks n.          *)
LEMMA EveryoneJoins ==
  ASSUME Loop, NEW r \in Seq(Task), Apart(r, waiters),
         NEW n \in Seq(Task), Distinct(n),
         Elements(n) \cap (Elements(r) \cup Elements(waiters)) = {}
  PROVE  LET q == (r \o waiters) \o n
         IN  /\ q \in Seq(Task) /\ <<>> \in Seq(Task) /\ Apart(q, <<>>)
             /\ Elements(q) = Elements(r) \cup Elements(waiters) \cup Elements(n)
<1> DEFINE w == r \o waiters
<1>1. w \in Seq(Task) /\ Distinct(w) /\ Elements(w) = Elements(r) \cup Elements(waiters)
  BY ConcatDistinct DEF Loop
<1> HIDE DEF w
<1>2. Apart(w, n)
  BY <1>1 DEF Apart
<1>3. /\ w \o n \in Seq(Task) /\ Distinct(w \o n)
      /\ Elements(w \o n) = Elements(w) \cup Elements(n)
  BY <1>1, <1>2, ConcatDistinct
<1>4. /\ w \o n \in Seq(Task) /\ <<>> \in Seq(Task) /\ Apart(w \o n, <<>>)
      /\ Elements(w \o n) = Elements(r) \cup Elements(waiters) \cup Elements(n)
  BY <1>1, <1>3, EmptyIsDistinct DEF Apart
<1>5. QED
  BY <1>4 DEF w

(* Event.set, as it is written without new tasks.                          *)
LEMMA SignalJoins ==
  ASSUME Loop, NEW r \in Seq(Task), Apart(r, waiters), Signal(r)
  PROVE  /\ ready' \in Seq(Task) /\ waiters' \in Seq(Task) /\ Apart(ready', waiters')
         /\ Elements(ready') = Elements(r) \cup Elements(waiters)
         /\ waiters' = <<>> /\ Elements(waiters') = {}
<1>1. /\ r \o waiters \in Seq(Task) /\ Distinct(r \o waiters)
      /\ Elements(r \o waiters) = Elements(r) \cup Elements(waiters)
  BY ConcatDistinct DEF Loop
<1>2. QED
  BY <1>1, EmptyIsDistinct DEF Apart, Signal

LEMMA WokenJoins ==
  ASSUME Loop, NEW x \in Task, x \notin Elements(waiters), NEW points
  PROVE  /\ Woken(ready, x, points) \in Seq(Task)
         /\ Apart(Woken(ready, x, points), waiters)
         /\ Elements(Woken(ready, x, points)) \subseteq Elements(ready) \cup {x}
         /\ ready # <<>> => /\ Woken(ready, x, points) # <<>>
                            /\ Head(Woken(ready, x, points)) = Head(ready)
<1>1. ready \in Seq(Task) /\ waiters \in Seq(Task)
  BY DEF Loop
<1>2. CASE pc[x] \in points /\ ~IsReady(x)
  <2>1. x \notin Elements(ready)
    BY <1>1, <1>2, ReadyIsElements
  <2>2. /\ Append(ready, x) \in Seq(Task) /\ Apart(Append(ready, x), waiters)
        /\ Elements(Append(ready, x)) = Elements(ready) \cup {x}
    BY <2>1, TaskJoins
  <2>3. ready # <<>> => Append(ready, x) # <<>> /\ Head(Append(ready, x)) = Head(ready)
    BY <1>1
  <2>4. QED
    BY <1>2, <2>2, <2>3 DEF Woken
<1>3. CASE ~(pc[x] \in points /\ ~IsReady(x))
  BY <1>1, <1>3 DEF Woken, Loop
<1>4. QED
  BY <1>2, <1>3

-----------------------------------------------------------------------------
(* What a step has to leave alone.                                         *)

LEMMA StandingKept ==
  ASSUME Loop,
         \A y \in Elements(waiters') : y \in Elements(waiters),
         \A y \in Elements(waiters) : pc'[y] = pc[y],
         \A y \in Elements(ready') :
           \/ y \in Elements(waiters)
           \/ y \in Elements(ready) /\ pc'[y] = pc[y]
           \/ y \in Supervisors \cup Dispatchers
           \/ y \in Waiters /\ pc'[y] = "checking"
           \/ y \in Firings /\ pc'[y] # "idle"
  PROVE  Standing'
<1>1. /\ \A x \in Elements(waiters) :
           \/ x \in Dispatchers /\ pc[x] = "applying"
           \/ x \in Waiters /\ pc[x] = "checking"
      /\ \A x \in Elements(ready) :
           /\ x \in Waiters => pc[x] = "checking"
           /\ x \in Firings => pc[x] # "idle"
  BY DEF Loop, Standing
<1>2. \A x \in Elements(waiters') :
        \/ x \in Dispatchers /\ pc'[x] = "applying"
        \/ x \in Waiters /\ pc'[x] = "checking"
  BY <1>1
<1>3. \A x \in Elements(ready') :
        /\ x \in Waiters => pc'[x] = "checking"
        /\ x \in Firings => pc'[x] # "idle"
  BY <1>1, TaskKinds
<1>4. QED
  BY <1>2, <1>3 DEF Standing, Elements

(* Nobody's reason to wait goes away: no firing ends, no mailbox is        *)
(* emptied, no waiting dispatcher gets another item.                       *)
LEMMA WakeupsKept ==
  ASSUME Wakeups, ~Arriving,
         \A y \in Elements(waiters') : y \in Elements(waiters),
         \A t \in Transition : pc[Firing(t)] # "idle" => pc'[Firing(t)] # "idle",
         \A s \in Source : Dispatcher(s) \in Elements(waiters) => hand'[s] = hand[s],
         \A s \in Source : queue[s] # <<>> => queue'[s] # <<>>
  PROVE  Wakeups'
<1>1. Active \subseteq Active'
  BY DEF Active
<1>2. ~Idle => ~Idle'
  BY <1>1 DEF Idle
<1>3. ASSUME NEW s \in Source, Dispatcher(s) \in Elements(waiters')
      PROVE  WriteConflicts(hand[s].places)'
  <2>1. Dispatcher(s) \in Elements(waiters) /\ hand'[s] = hand[s]
    BY <1>3
  <2>2. WriteConflicts(hand[s].places)
    BY <2>1 DEF Wakeups
  <2>3. QED
    BY <1>1, <2>1, <2>2 DEF WriteConflicts
<1>4. ASSUME NEW x \in Elements(waiters'), x \in Waiters PROVE ~Idle'
  BY <1>2, <1>4 DEF Wakeups
<1>5. QED
  BY <1>3, <1>4 DEF Wakeups, Elements

LEMMA NobodyWaits ==
  ASSUME waiters' = <<>>
  PROVE  Wakeups' /\ Elements(waiters') = {}
BY EmptyIsDistinct DEF Wakeups, Elements

(* While a dispatcher has an item in hand, only it takes steps.            *)
LEMMA OnlyTheArriving ==
  ASSUME Arriving, Mailboxes
  PROVE  /\ ~Between
         /\ \A s \in Source : ~Runs(Supervisor(s)) /\ ~Cancelling(Supervisor(s))
         /\ \A t \in Transition : ~Runs(Firing(t)) /\ ~Cancelling(Firing(t))
         /\ \A c \in Client : ~Runs(Waiter(c))
         /\ \A s \in Source : Runs(Dispatcher(s)) \/ Cancelling(Dispatcher(s))
                              => pc[Dispatcher(s)] = "applying" /\ hand[s] # NoItem
<1>1. PICK u \in Source : /\ mid /\ ready # <<>> /\ Head(ready) = Dispatcher(u)
                         /\ pc[Dispatcher(u)] = "applying"
  BY DEF Arriving
<1>2. hand[u] # NoItem
  BY <1>1 DEF Mailboxes, Books
<1>3. \A s \in Source : Dispatcher(s) = Dispatcher(u) => s = u
  BY TasksDiffer
<1>4. /\ \A s \in Source : Dispatcher(u) # Supervisor(s)
      /\ \A t \in Transition : Dispatcher(u) # Firing(t)
      /\ \A c \in Client : Dispatcher(u) # Waiter(c)
  BY TasksDiffer
<1>5. QED
  BY <1>1, <1>2, <1>3, <1>4 DEF Between, Runs, Cancelling

-----------------------------------------------------------------------------
(* The steps.                                                              *)

Before == Cancellation /\ Mailboxes /\ Loop /\ Wakeups

LEMMA BeforeTypes ==
  ASSUME Before
  PROVE  /\ pc \in [Task -> Point]
         /\ ready \in Seq(Task) /\ waiters \in Seq(Task) /\ Apart(ready, waiters)
         /\ hand \in [Source -> Item \cup {NoItem}]
         /\ queue \in [Source -> Seq(Item)]
         /\ \A x \in Elements(waiters) : x \in Dispatchers \cup Waiters
         /\ \A x \in Elements(waiters) :
              /\ x \in Dispatchers => pc[x] = "applying"
              /\ x \in Waiters => pc[x] = "checking"
         /\ \A x \in Elements(ready) :
              /\ x \in Waiters => pc[x] = "checking"
              /\ x \in Firings => pc[x] # "idle"
BY TaskKinds DEF Before, Cancellation, Mailboxes, MailboxTypes, Loop, Standing

(* What a step of a supervisor does to the loop.                           *)
LEMMA SupervisorStepLoop ==
  ASSUME Before, NEW s \in Source,
         \/ SourceOpens(s) \/ SourceSuspends(s)
         \/ PutsItem(s) \/ PutCoalesces(s) \/ PutBlocks(s)
         \/ SupervisorBacksOff(s) \/ SupervisorReturns(s) \/ SupervisorCancelled(s)
         \/ \E k \in Kind : SourceYields(s, k)
         \/ SourceRaises(s) \/ SourceEnds(s) \/ BackoffElapses(s)
  PROVE  Loop' /\ Wakeups'
<1> DEFINE d == Supervisor(s)
<1>1. /\ d \in Task /\ d \in Supervisors /\ Dispatcher(s) \in Task
      /\ Dispatcher(s) \in Dispatchers /\ d \notin Elements(waiters)
      /\ pc \in [Task -> Point]
  BY BeforeTypes, TaskKinds
<1>2. /\ \A x \in Task : x # d => pc'[x] = pc[x]
      /\ UNCHANGED <<hand>>
  <2>1. PICK point : pc' = [pc EXCEPT ![d] = point]
    BY DEF SourceOpens, SourceSuspends, PutsItem, PutCoalesces, PutBlocks,
           PutReturns, SupervisorBacksOff, SupervisorReturns, SourceYields,
           SourceRaises, SourceEnds, SourceAnswers, BackoffElapses,
           SupervisorCancelled, GoesTo
  <2>2. UNCHANGED hand
    BY DEF SourceOpens, SourceSuspends, PutsItem, PutCoalesces, PutBlocks,
           PutReturns, SupervisorBacksOff, SupervisorReturns, SourceYields,
           SourceRaises, SourceEnds, SourceAnswers, BackoffElapses,
           SupervisorCancelled, boxes
  <2>3. QED
    BY <1>1, <2>1, <2>2
<1>3. /\ \A y \in Elements(waiters) : y \in Task /\ y # d
      /\ \A y \in Elements(ready) : y \in Task
  BY <1>1, BeforeTypes DEF Elements
<1>4. \A t \in Transition : pc'[Firing(t)] = pc[Firing(t)]
  BY <1>1, <1>2, TaskKinds
<1>5. ~Arriving
  <2>1. Runs(d) \/ Cancelling(d) \/ Between
    BY DEF SourceOpens, SourceSuspends, PutsItem, PutCoalesces, PutBlocks,
           SupervisorBacksOff, SupervisorReturns, SourceYields,
           SourceRaises, SourceEnds, SourceAnswers, BackoffElapses,
           SupervisorCancelled
  <2>2. QED
    BY <2>1, OnlyTheArriving DEF Before
<1>6. CASE ~(PutsItem(s) \/ PutCoalesces(s))
  <2>1. /\ UNCHANGED waiters /\ UNCHANGED queue
        /\ \/ UNCHANGED ready
           \/ ready # <<>> /\ ready' = Tail(ready)
           \/ ~IsReady(d) /\ ready' = Append(ready, d)
    BY <1>6 DEF SourceOpens, SourceSuspends, PutBlocks, Runs, Suspends, boxes,
         SupervisorBacksOff, SupervisorReturns, SourceYields, Cancelling,
         SourceRaises, SourceEnds, SourceAnswers, BackoffElapses,
         SupervisorCancelled
  <2>2. /\ ready' \in Seq(Task) /\ Apart(ready', waiters)
        /\ \A y \in Elements(ready') : y \in Elements(ready) \/ y = d
    <3>1. CASE UNCHANGED ready
      BY <3>1, BeforeTypes
    <3>2. CASE ready # <<>> /\ ready' = Tail(ready)
      BY <3>2, HeadLeaves DEF Before
    <3>3. CASE ~IsReady(d) /\ ready' = Append(ready, d)
      BY <1>1, <3>3, BeforeTypes, ReadyIsElements, TaskJoins DEF Before
    <3>4. QED
      BY <2>1, <3>1, <3>2, <3>3
  <2>3. Standing'
    BY <1>1, <1>2, <1>3, <2>1, <2>2, StandingKept DEF Before
  <2>4. Loop'
    BY <2>1, <2>2, <2>3, BeforeTypes DEF Loop, Apart
  <2>5. QED
    BY <1>2, <1>4, <1>5, <2>1, <2>4, WakeupsKept DEF Before
<1>7. CASE PutsItem(s) \/ PutCoalesces(s)
  <2>1. Signal(Woken(ready, Dispatcher(s), {"getting"}))
    BY <1>7 DEF PutsItem, PutCoalesces, PutReturns
  <2>2. CASE Dispatcher(s) \in Elements(waiters)
    <3>1. Woken(ready, Dispatcher(s), {"getting"}) = ready
      BY <2>2, <1>1, BeforeTypes DEF Woken
    <3>2. /\ ready' \in Seq(Task) /\ waiters' \in Seq(Task) /\ Apart(ready', waiters')
          /\ Elements(ready') = Elements(ready) \cup Elements(waiters)
          /\ waiters' = <<>> /\ Elements(waiters') = {}
      BY <2>1, <3>1, BeforeTypes, SignalJoins DEF Before
    <3>3. Standing'
      BY <1>1, <1>2, <1>3, <3>2, StandingKept DEF Before
    <3>4. QED
      BY <3>2, <3>3, NobodyWaits DEF Loop
  <2>3. CASE Dispatcher(s) \notin Elements(waiters)
    <3>1. PICK w : /\ w = Woken(ready, Dispatcher(s), {"getting"})
                   /\ w \in Seq(Task) /\ Apart(w, waiters)
                   /\ Elements(w) \subseteq Elements(ready) \cup {Dispatcher(s)}
      BY <1>1, <2>3, WokenJoins DEF Before
    <3>2. /\ ready' \in Seq(Task) /\ waiters' \in Seq(Task) /\ Apart(ready', waiters')
          /\ Elements(ready') = Elements(w) \cup Elements(waiters)
          /\ waiters' = <<>> /\ Elements(waiters') = {}
      BY <2>1, <3>1, SignalJoins DEF Before
    <3>3. Standing'
      BY <1>1, <1>2, <1>3, <3>1, <3>2, StandingKept DEF Before
    <3>4. QED
      BY <3>2, <3>3, NobodyWaits DEF Loop
  <2>4. QED
    BY <2>2, <2>3
<1>8. QED
  BY <1>6, <1>7

(* The tasks of transitions in some order are one each.                    *)
LEMMA OrderedTasks ==
  ASSUME NEW T \in SUBSET Transition, NEW o \in Orders(T)
  PROVE  /\ NewTasks(o) \in Seq(Task) /\ Distinct(NewTasks(o))
         /\ \A y \in Elements(NewTasks(o)) :
              /\ y \in Firings /\ \E t \in T : y = Firing(t)
              /\ \E i \in DOMAIN o : y = Firing(o[i])
<1>1. PICK n \in Nat : o \in [1..n -> T]
  BY DEF Orders
<1>2. \A i, j \in DOMAIN o : i # j => o[i] # o[j]
  BY DEF Orders
<1> DEFINE f == NewTasks(o)
<1>3. f = [i \in 1..n |-> Firing(o[i])]
  BY <1>1 DEF NewTasks
<1>4. \A i \in 1..n : o[i] \in T /\ Firing(o[i]) \in Firings /\ Firing(o[i]) \in Task
  BY <1>1, TaskKinds
<1> HIDE DEF f
<1>5. f \in Seq(Task) /\ DOMAIN f = 1..n
  BY <1>3, <1>4
<1>6. Distinct(f)
  <2>1. \A i \in 1..n, j \in 1..n : i # j => Firing(o[i]) # Firing(o[j])
    BY <1>1, <1>2, TasksDiffer
  <2>2. QED
    BY <1>3, <1>5, <2>1 DEF Distinct
<1>7. \A y \in Elements(f) : \E i \in 1..n : y = Firing(o[i])
  BY <1>3, <1>5 DEF Elements
<1>8. QED
  BY <1>1, <1>4, <1>5, <1>6, <1>7 DEF f

(* The tasks _admit creates are those of idle transitions.                 *)
LEMMA NewTasksJoin ==
  ASSUME NEW active, NEW o \in Admissions(active)
  PROVE  /\ NewTasks(o) \in Seq(Task) /\ Distinct(NewTasks(o))
         /\ \A y \in Elements(NewTasks(o)) :
              /\ y \in Firings /\ \E t \in Transition \ active : y = Firing(t)
              /\ \E i \in DOMAIN o : y = Firing(o[i])
<1>1. o \in Orders(Transition \ active)
  BY DEF Admissions
<1>2. QED
  BY <1>1, OrderedTasks

(* What a step of a dispatcher does to the loop.                           *)
LEMMA DispatcherStepLoop ==
  ASSUME Before, NEW s \in Source,
         \/ DispatcherAwaitsItem(s) \/ DispatcherTakes(s) \/ ArrivalWaits(s)
         \/ ArrivalRaises(s) \/ DispatcherCancelled(s)
  PROVE  Loop' /\ Wakeups'
<1> DEFINE d == Dispatcher(s)
<1>1. /\ d \in Task /\ d \in Dispatchers /\ Supervisor(s) \in Task
      /\ Supervisor(s) \in Supervisors /\ Supervisor(s) \notin Elements(waiters)
      /\ pc \in [Task -> Point]
      /\ \A u \in Source : u # s => Dispatcher(u) # d
  BY BeforeTypes, TaskKinds, TasksDiffer
<1>2. ready # <<>> /\ Head(ready) = d
  BY DEF DispatcherAwaitsItem, DispatcherTakes, ArrivalWaits, ArrivalRaises,
         DispatcherCancelled, Runs, Cancelling
<1>3. /\ Tail(ready) \in Seq(Task) /\ Apart(Tail(ready), waiters)
      /\ Elements(Tail(ready)) = Elements(ready) \ {d}
      /\ d \notin Elements(waiters)
  BY <1>2, HeadLeaves DEF Before
<1>4. \A x \in Task : x # d => pc'[x] = pc[x]
  <2>1. (\E point : pc' = [pc EXCEPT ![d] = point]) \/ pc' = pc
    BY DEF DispatcherAwaitsItem, DispatcherTakes, ArrivalWaits, ArrivalRaises,
           DispatcherCancelled, GoesTo
  <2>2. QED
    BY <1>1, <2>1
<1>5. /\ \A y \in Elements(waiters) : y \in Task /\ y # d
      /\ \A y \in Elements(ready) : y \in Task
  BY <1>3, BeforeTypes DEF Elements
<1>6. \A t \in Transition : pc'[Firing(t)] = pc[Firing(t)]
  BY <1>1, <1>4, TaskKinds
<1>7. \A u \in Source : Dispatcher(u) \in Elements(waiters) => hand'[u] = hand[u]
  <2>1. \/ UNCHANGED hand
        \/ \E x : hand' = [hand EXCEPT ![s] = x]
    BY DEF DispatcherAwaitsItem, DispatcherTakes, ArrivalWaits, ArrivalRaises,
           DispatcherCancelled, TaskDone, boxes
  <2>2. QED
    BY <1>3, <2>1, BeforeTypes
<1>8. CASE DispatcherAwaitsItem(s) \/ (DispatcherCancelled(s) /\ hand[s] = NoItem)
  <2>1. ready' = Tail(ready) /\ UNCHANGED <<waiters, queue>>
    BY <1>8 DEF DispatcherAwaitsItem, DispatcherCancelled, Cancelling, Suspends, boxes
  <2>2. Standing'
    BY <1>3, <1>4, <1>5, <2>1, StandingKept DEF Before
  <2>3. Loop'
    BY <1>3, <2>1, <2>2, BeforeTypes DEF Loop, Apart
  <2>4. ~Arriving
    <3>1. pc[d] # "applying" \/ hand[s] = NoItem
      BY <1>8 DEF DispatcherAwaitsItem
    <3>2. Runs(d) \/ Cancelling(d)
      BY <1>8 DEF DispatcherAwaitsItem, DispatcherCancelled
    <3>3. QED
      BY <3>1, <3>2, OnlyTheArriving DEF Before
  <2>5. QED
    BY <1>6, <1>7, <2>1, <2>3, <2>4, WakeupsKept DEF Before
<1>9. CASE ArrivalRaises(s) \/ (DispatcherCancelled(s) /\ hand[s] # NoItem)
  <2>1. Signal(Tail(ready))
    BY <1>9 DEF ArrivalRaises, DispatcherCancelled
  <2>2. /\ ready' \in Seq(Task) /\ waiters' \in Seq(Task) /\ Apart(ready', waiters')
        /\ Elements(ready') = Elements(Tail(ready)) \cup Elements(waiters)
        /\ waiters' = <<>> /\ Elements(waiters') = {}
    BY <1>3, <2>1, SignalJoins DEF Before
  <2>3. Standing'
    BY <1>3, <1>4, <1>5, <2>2, StandingKept DEF Before
  <2>4. QED
    BY <2>2, <2>3, NobodyWaits DEF Loop
<1>10. CASE DispatcherTakes(s)
  <2>1. /\ ready' = Woken(ready, Supervisor(s), {"blocked"})
        /\ pc' = [pc EXCEPT ![d] = "applying"] /\ mid' = TRUE /\ UNCHANGED waiters
    BY <1>10 DEF DispatcherTakes, GoesTo
  <2>2. /\ ready' \in Seq(Task) /\ Apart(ready', waiters)
        /\ Elements(ready') \subseteq Elements(ready) \cup {Supervisor(s)}
        /\ ready' # <<>> /\ Head(ready') = d
    BY <1>1, <1>2, <2>1, WokenJoins DEF Before
  <2>3. \A y \in Elements(ready') :
          \/ y \in Elements(ready) /\ pc'[y] = pc[y]
          \/ y \in Supervisors \cup Dispatchers
    BY <1>1, <1>4, <1>5, <2>2
  <2>4. Standing'
    BY <1>4, <1>5, <2>1, <2>3, StandingKept DEF Before
  <2>5. Loop'
    BY <2>1, <2>2, <2>4, BeforeTypes DEF Loop, Apart
  <2>6. pc'[d] = "applying"
    BY <1>1, <2>1
  <2>7. Arriving'
    BY <2>1, <2>2, <2>6 DEF Arriving
  <2>8. ASSUME NEW u \in Source, Dispatcher(u) \in Elements(waiters')
        PROVE  WriteConflicts(hand[u].places)'
    <3>1. Dispatcher(u) \in Elements(waiters) /\ hand'[u] = hand[u]
      BY <1>7, <2>1, <2>8
    <3>2. WriteConflicts(hand[u].places)
      BY <3>1 DEF Before, Wakeups
    <3>3. QED
      BY <1>6, <3>1, <3>2 DEF WriteConflicts, Active
  <2>9. QED
    BY <2>5, <2>7, <2>8 DEF Wakeups, Elements
<1>11. CASE ArrivalWaits(s)
  <2>1. /\ ready' = Tail(ready) /\ waiters' = Append(waiters, d)
        /\ UNCHANGED <<pc, hand, queue>> /\ pc[d] = "applying"
        /\ WriteConflicts(hand[s].places)
    BY <1>2, <1>11 DEF ArrivalWaits, AwaitsChange, Suspends, boxes
  <2>2. /\ waiters' \in Seq(Task) /\ Apart(ready', waiters')
        /\ Elements(waiters') = Elements(waiters) \cup {d}
    BY <1>2, <2>1, HeadWaits DEF Before
  <2>3. Standing'
    <3>1. /\ \A x \in Elements(waiters') :
                \/ x \in Dispatchers /\ pc'[x] = "applying"
                \/ x \in Waiters /\ pc'[x] = "checking"
          /\ \A x \in Elements(ready') :
                /\ x \in Waiters => pc'[x] = "checking"
                /\ x \in Firings => pc'[x] # "idle"
      BY <1>1, <1>3, <2>1, <2>2 DEF Before, Loop, Standing
    <3>2. QED
      BY <3>1 DEF Standing, Elements
  <2>4. Loop'
    BY <1>3, <2>1, <2>2, <2>3 DEF Loop
  <2>5. \A u \in Source : Dispatcher(u) \in Elements(waiters')
                            => WriteConflicts(hand[u].places)'
    <3>1. \A u \in Source : Dispatcher(u) \in Elements(waiters')
                              => WriteConflicts(hand[u].places)
      BY <1>1, <2>1, <2>2 DEF Before, Wakeups
    <3>2. QED
      BY <2>1, <3>1 DEF WriteConflicts, Active
  <2>6. ~Idle'
    BY <2>1 DEF Idle, WriteConflicts, Active
  <2>7. QED
    BY <2>4, <2>5, <2>6 DEF Wakeups, Elements
<1>12. QED
  BY <1>8, <1>9, <1>10, <1>11

(* Whoever admits wakes everyone who waits; the new tasks are of idle      *)
(* transitions, which are not in the queue yet.                            *)
LEMMA AdmittingLoop ==
  ASSUME Before, NEW active, NEW o \in Admissions(active),
         NEW points, Admitted(points, o),
         NEW r \in Seq(Task), Apart(r, waiters), Elements(r) \subseteq Elements(ready),
         ready' = r \o waiters \o NewTasks(o), waiters' = <<>>,
         \A y \in Elements(r) \cup Elements(waiters) :
           points[y] = pc[y] \/ (y \in Dispatchers /\ y \in Elements(r)),
         \A t \in Transition \ active : Firing(t) \notin Elements(r)
  PROVE  Loop' /\ Wakeups'
<1> DEFINE n == NewTasks(o)
<1>1. /\ n \in Seq(Task) /\ Distinct(n)
      /\ \A y \in Elements(n) :
           /\ y \in Firings /\ \E t \in Transition \ active : y = Firing(t)
           /\ \E i \in DOMAIN o : y = Firing(o[i])
  BY NewTasksJoin
<1> HIDE DEF n
<1>2. Elements(n) \cap (Elements(r) \cup Elements(waiters)) = {}
  BY <1>1, BeforeTypes, TaskKinds
<1>3. /\ ready' \in Seq(Task) /\ waiters' \in Seq(Task) /\ Apart(ready', waiters')
      /\ Elements(ready') = Elements(r) \cup Elements(waiters) \cup Elements(n)
      /\ Elements(waiters') = {}
  BY <1>1, <1>2, EveryoneJoins, NobodyWaits DEF Before, n
<1>4. /\ \A y \in Elements(r) \cup Elements(waiters) \cup Elements(n) : y \in Task
      /\ \A y \in Elements(n) : y \in Task
  BY <1>1, BeforeTypes DEF Elements
<1>5. \A y \in Task : pc'[y] = (IF \E i \in DOMAIN o : y = Firing(o[i])
                               THEN "created" ELSE points[y])
  BY DEF Admitted
<1>6. \A i \in DOMAIN o : Firing(o[i]) \in Elements(n)
  BY DEF n, NewTasks, Elements
<1>7. \A y \in Elements(n) : pc'[y] # "idle"
  BY <1>1, <1>4, <1>5
<1>8. \A y \in Elements(r) \cup Elements(waiters) :
        pc'[y] = pc[y] \/ (y \in Dispatchers /\ y \in Elements(r))
  BY <1>2, <1>4, <1>5, <1>6
<1>9. Elements(r) \cap Elements(waiters) = {}
  BY DEF Apart
<1>10. Standing'
  <2>1. \A y \in Elements(waiters) : pc'[y] = pc[y]
    BY <1>8, <1>9
  <2>2. \A y \in Elements(ready') :
          \/ y \in Elements(waiters)
          \/ y \in Elements(ready) /\ pc'[y] = pc[y]
          \/ y \in Supervisors \cup Dispatchers
          \/ y \in Firings /\ pc'[y] # "idle"
    BY <1>1, <1>3, <1>7, <1>8
  <2>3. QED
    BY <1>3, <2>1, <2>2, StandingKept DEF Before
<1>11. QED
  BY <1>3, <1>10, NobodyWaits DEF Loop

LEMMA AppliesLoop ==
  ASSUME Before, NEW s \in Source, NEW o, ArrivalApplies(s, o)
  PROVE  Loop' /\ Wakeups'
<1> DEFINE points == [pc EXCEPT ![Dispatcher(s)] = "looping"]
<1>1. /\ o \in Admissions(Active) /\ Admitted(points, o)
      /\ ready' = ready \o waiters \o NewTasks(o) /\ waiters' = <<>>
      /\ ready # <<>> /\ Head(ready) = Dispatcher(s)
  BY DEF ArrivalApplies, Runs
<1>2. /\ Dispatcher(s) \in Elements(ready) /\ Dispatcher(s) \notin Elements(waiters)
      /\ Dispatcher(s) \in Dispatchers
  BY <1>1, HeadLeaves, TaskKinds DEF Before
<1>3. /\ \A y \in Elements(ready) \cup Elements(waiters) : y \in Task
      /\ pc \in [Task -> Point]
  BY BeforeTypes DEF Elements
<1>4. \A y \in Elements(ready) \cup Elements(waiters) :
        points[y] = pc[y] \/ (y \in Dispatchers /\ y \in Elements(ready))
  BY <1>2, <1>3
<1>5. \A t \in Transition \ Active : Firing(t) \notin Elements(ready)
  BY BeforeTypes, TaskKinds DEF Active
<1> HIDE DEF points
<1>6. /\ ready \in Seq(Task) /\ Apart(ready, waiters)
      /\ Elements(ready) \subseteq Elements(ready)
  BY BeforeTypes
<1>7. QED
  BY <1>1, <1>4, <1>5, <1>6, AdmittingLoop

LEMMA SettlesLoop ==
  ASSUME Before, NEW t \in Transition, NEW o, FiringSettles(t, o)
  PROVE  Loop' /\ Wakeups'
<1> DEFINE points == [pc EXCEPT ![Firing(t)] = "idle"]
<1>1. /\ o \in Admissions(Active \ {t}) /\ Admitted(points, o)
      /\ ready' = Tail(ready) \o waiters \o NewTasks(o) /\ waiters' = <<>>
      /\ ready # <<>> /\ Head(ready) = Firing(t)
  BY DEF FiringSettles, Settlement, Runs
<1>2. /\ Tail(ready) \in Seq(Task) /\ Apart(Tail(ready), waiters)
      /\ Elements(Tail(ready)) = Elements(ready) \ {Firing(t)}
      /\ Firing(t) \notin Elements(waiters)
  BY <1>1, HeadLeaves DEF Before
<1>3. /\ \A y \in Elements(ready) \cup Elements(waiters) : y \in Task
      /\ pc \in [Task -> Point]
  BY BeforeTypes DEF Elements
<1>4. \A y \in Elements(Tail(ready)) \cup Elements(waiters) : points[y] = pc[y]
  BY <1>2, <1>3
<1>5. \A x \in Transition \ (Active \ {t}) : Firing(x) \notin Elements(Tail(ready))
  BY <1>2, BeforeTypes, TaskKinds DEF Active
<1> HIDE DEF points
<1>6. QED
  BY <1>1, <1>2, <1>4, <1>5, AdmittingLoop

LEMMA FiringStepLoop ==
  ASSUME Before, NEW t \in Transition,
         HandlerSuspends(t) \/ HandlerEnds(t) \/ FiringCancelled(t)
  PROVE  Loop' /\ Wakeups'
<1> DEFINE f == Firing(t)
<1>1. /\ f \in Task /\ f \in Firings /\ f \notin Elements(waiters)
      /\ pc \in [Task -> Point]
      /\ \A x \in Transition : x # t => Firing(x) # f
  BY BeforeTypes, TaskKinds, TasksDiffer
<1>2. /\ \A y \in Elements(waiters) : y \in Task /\ y # f
      /\ \A y \in Elements(ready) : y \in Task
  BY <1>1, BeforeTypes DEF Elements
<1>3. \A x \in Task : x # f => pc'[x] = pc[x]
  <2>1. \E point : pc' = [pc EXCEPT ![f] = point]
    BY DEF HandlerSuspends, HandlerEnds, FiringCancelled, GoesTo
  <2>2. QED
    BY <1>1, <2>1
<1>4. ~Arriving
  <2>1. Runs(f) \/ Cancelling(f) \/ Between
    BY DEF HandlerSuspends, HandlerEnds, FiringCancelled
  <2>2. QED
    BY <2>1, OnlyTheArriving DEF Before
<1>5. CASE \/ HandlerSuspends(t) \/ HandlerEnds(t)
           \/ FiringCancelled(t) /\ pc[f] = "created"
  <2>1. /\ UNCHANGED <<waiters, hand, queue>> /\ pc'[f] # "idle"
        /\ \/ ready # <<>> /\ Head(ready) = f /\ ready' = Tail(ready)
           \/ ~IsReady(f) /\ ready' = Append(ready, f)
    BY <1>1, <1>5 DEF HandlerSuspends, HandlerEnds, FiringCancelled, Cancelling,
                      Runs, Suspends, GoesTo, boxes
  <2>2. /\ ready' \in Seq(Task) /\ Apart(ready', waiters)
        /\ \A y \in Elements(ready') : y \in Elements(ready) \/ y = f
    <3>1. CASE ready # <<>> /\ Head(ready) = f /\ ready' = Tail(ready)
      BY <3>1, HeadLeaves DEF Before
    <3>2. CASE ~IsReady(f) /\ ready' = Append(ready, f)
      BY <1>1, <3>2, BeforeTypes, ReadyIsElements, TaskJoins DEF Before
    <3>3. QED
      BY <2>1, <3>1, <3>2
  <2>3. Standing'
    BY <1>1, <1>2, <1>3, <2>1, <2>2, StandingKept DEF Before
  <2>4. Loop'
    BY <2>1, <2>2, <2>3, BeforeTypes DEF Loop, Apart
  <2>5. \A x \in Transition : pc[Firing(x)] # "idle" => pc'[Firing(x)] # "idle"
    BY <1>1, <1>3, <2>1, TaskKinds
  <2>6. QED
    BY <1>4, <2>1, <2>4, <2>5, WakeupsKept DEF Before
<1>6. CASE FiringCancelled(t) /\ pc[f] # "created"
  <2>1. ready # <<>> /\ Head(ready) = f /\ Signal(Tail(ready))
    BY <1>6 DEF FiringCancelled, Cancelling
  <2>2. /\ Tail(ready) \in Seq(Task) /\ Apart(Tail(ready), waiters)
        /\ Elements(Tail(ready)) = Elements(ready) \ {f}
    BY <2>1, HeadLeaves DEF Before
  <2>3. /\ ready' \in Seq(Task) /\ waiters' \in Seq(Task) /\ Apart(ready', waiters')
        /\ Elements(ready') = Elements(Tail(ready)) \cup Elements(waiters)
        /\ waiters' = <<>> /\ Elements(waiters') = {}
    BY <2>1, <2>2, SignalJoins DEF Before
  <2>4. Standing'
    BY <1>2, <1>3, <2>2, <2>3, StandingKept DEF Before
  <2>5. QED
    BY <2>3, <2>4, NobodyWaits DEF Loop
<1>7. QED
  BY <1>5, <1>6

LEMMA WaiterStepLoop ==
  ASSUME Before, NEW c \in Client,
         WaitIdleCalled(c) \/ WaitIdleWaits(c) \/ WaitIdleReturns(c)
  PROVE  Loop' /\ Wakeups'
<1> DEFINE w == Waiter(c)
<1>1. w \in Task /\ w \in Waiters /\ pc \in [Task -> Point]
  BY BeforeTypes, TaskKinds
<1>2. /\ \A y \in Elements(waiters) : y \in Task
      /\ \A y \in Elements(ready) : y \in Task
  BY BeforeTypes DEF Elements
<1>3. /\ \A x \in Task : x # w => pc'[x] = pc[x]
      /\ UNCHANGED <<hand, queue>>
  <2>1. (\E point : pc' = [pc EXCEPT ![w] = point]) \/ pc' = pc
    BY DEF WaitIdleCalled, WaitIdleWaits, WaitIdleReturns, GoesTo
  <2>2. UNCHANGED <<hand, queue>>
    BY DEF WaitIdleCalled, WaitIdleWaits, WaitIdleReturns, boxes
  <2>3. QED
    BY <1>1, <2>1, <2>2
<1>4. ~Arriving
  <2>1. Runs(w) \/ Between
    BY DEF WaitIdleCalled, WaitIdleWaits, WaitIdleReturns
  <2>2. QED
    BY <2>1, OnlyTheArriving DEF Before
<1>5. \A x \in Transition : pc'[Firing(x)] = pc[Firing(x)]
  BY <1>1, <1>3, TaskKinds
<1>6. CASE WaitIdleCalled(c)
  <2>1. /\ ready' = Append(ready, w) /\ UNCHANGED waiters /\ pc[w] = "out"
        /\ pc'[w] = "checking"
    BY <1>1, <1>6 DEF WaitIdleCalled, Yields, GoesTo
  <2>2. w \notin Elements(ready) /\ w \notin Elements(waiters)
    BY <1>1, <2>1, BeforeTypes
  <2>3. /\ ready' \in Seq(Task) /\ Apart(ready', waiters)
        /\ Elements(ready') = Elements(ready) \cup {w}
    BY <1>1, <2>1, <2>2, TaskJoins DEF Before
  <2>4. Standing'
    BY <1>1, <1>2, <1>3, <2>1, <2>2, <2>3, StandingKept DEF Before
  <2>5. Loop'
    BY <2>1, <2>3, <2>4, BeforeTypes DEF Loop, Apart
  <2>6. QED
    BY <1>3, <1>4, <1>5, <2>1, <2>5, WakeupsKept DEF Before
<1>7. CASE WaitIdleReturns(c)
  <2>1. /\ ready' = Tail(ready) /\ UNCHANGED waiters /\ ready # <<>>
        /\ Head(ready) = w
    BY <1>7 DEF WaitIdleReturns, Suspends, Runs
  <2>2. /\ Tail(ready) \in Seq(Task) /\ Apart(Tail(ready), waiters)
        /\ Elements(Tail(ready)) = Elements(ready) \ {w}
        /\ w \notin Elements(waiters)
    BY <2>1, HeadLeaves DEF Before
  <2>3. Standing'
    BY <1>2, <1>3, <2>1, <2>2, StandingKept DEF Before
  <2>4. Loop'
    BY <2>1, <2>2, <2>3, BeforeTypes DEF Loop, Apart
  <2>5. QED
    BY <1>3, <1>4, <1>5, <2>1, <2>4, WakeupsKept DEF Before
<1>8. CASE WaitIdleWaits(c)
  <2>1. /\ ready' = Tail(ready) /\ waiters' = Append(waiters, w) /\ ready # <<>>
        /\ Head(ready) = w /\ ~Idle /\ UNCHANGED pc
    BY <1>8 DEF WaitIdleWaits, AwaitsChange, Suspends, Runs
  <2>2. /\ waiters' \in Seq(Task) /\ Apart(ready', waiters')
        /\ Elements(waiters') = Elements(waiters) \cup {w}
    BY <2>1, HeadWaits DEF Before
  <2>3. /\ Tail(ready) \in Seq(Task) /\ w \in Elements(ready)
        /\ Elements(Tail(ready)) = Elements(ready) \ {w}
    BY <2>1, HeadLeaves DEF Before
  <2>4. Standing'
    <3>1. /\ \A x \in Elements(waiters') :
                \/ x \in Dispatchers /\ pc'[x] = "applying"
                \/ x \in Waiters /\ pc'[x] = "checking"
          /\ \A x \in Elements(ready') :
                /\ x \in Waiters => pc'[x] = "checking"
                /\ x \in Firings => pc'[x] # "idle"
      BY <1>1, <2>1, <2>2, <2>3 DEF Before, Loop, Standing
    <3>2. QED
      BY <3>1 DEF Standing, Elements
  <2>5. Loop'
    BY <2>1, <2>2, <2>3, <2>4 DEF Loop
  <2>6. ~Idle'
    BY <1>3, <2>1 DEF Idle, Active
  <2>7. \A s \in Source : Dispatcher(s) \in Elements(waiters')
                           => WriteConflicts(hand[s].places)'
    <3>1. \A s \in Source : Dispatcher(s) # w
      BY TasksDiffer
    <3>2. \A s \in Source : Dispatcher(s) \in Elements(waiters')
                             => WriteConflicts(hand[s].places)
      BY <2>2, <3>1 DEF Before, Wakeups
    <3>3. QED
      BY <1>3, <2>1, <3>2 DEF WriteConflicts, Active
  <2>8. QED
    BY <2>5, <2>6, <2>7 DEF Wakeups, Elements
<1>9. QED
  BY <1>6, <1>7, <1>8

(* stop() makes the sleeping tasks ready, the waiting dispatchers too.     *)
LEMMA StopLoop ==
  ASSUME Before, Stop
  PROVE  Loop' /\ Wakeups'
<1> DEFINE sleeping == {t \in Living : ~IsReady(t)}
<1>1. PICK o \in [1..Cardinality(sleeping) -> sleeping] :
        /\ \A i, j \in DOMAIN o : i # j => o[i] # o[j]
        /\ ready' = ready \o o
  BY DEF Stop, CancelTargets
<1>2. /\ waiters' = Among(waiters, Waiters) /\ UNCHANGED <<mid, pc, hand, queue>>
      /\ ~mid
  BY DEF Stop, Between, boxes
<1>3. /\ waiters' \in Seq(Task) /\ Distinct(waiters')
      /\ Elements(waiters') = Elements(waiters) \cap Waiters
  BY <1>2, BeforeTypes, AmongDistinct DEF Apart
<1>4. \A t \in sleeping : /\ t \in Task /\ t \notin Elements(ready)
                          /\ t \notin Waiters
                          /\ t \in Firings => pc[t] # "idle"
  BY BeforeTypes, ReadyIsElements, TaskKinds DEF Living, Ended
<1>5. Cardinality(sleeping) \in Nat
  <2>1. IsFiniteSet(Supervisors) /\ IsFiniteSet(Dispatchers) /\ IsFiniteSet(Firings)
    <3>1. IsFiniteSet(Source) /\ IsFiniteSet(Transition)
      BY SourceAssumption
    <3>2. /\ [s \in Source |-> Supervisor(s)] \in Surjection(Source, Supervisors)
          /\ [s \in Source |-> Dispatcher(s)] \in Surjection(Source, Dispatchers)
          /\ [t \in Transition |-> Firing(t)] \in Surjection(Transition, Firings)
      BY DEF Supervisors, Dispatchers, Firings, Surjection
    <3>3. QED
      BY <3>1, <3>2, FS_Surjection
  <2>2. IsFiniteSet(Supervisors \cup Dispatchers \cup Firings)
    BY <2>1, FS_Union
  <2>3. sleeping \in SUBSET (Supervisors \cup Dispatchers \cup Firings)
    BY DEF Living
  <2> HIDE DEF sleeping
  <2>4. QED
    BY <2>2, <2>3, FS_Subset, FS_CardinalityType
<1>6. /\ o \in Seq(Task) /\ Distinct(o)
      /\ \A y \in Elements(o) : y \in sleeping
  <2> HIDE DEF sleeping
  <2>1. DOMAIN o = 1..Cardinality(sleeping) /\ \A i \in DOMAIN o : o[i] \in sleeping
    BY <1>1
  <2>2. o \in Seq(Task)
    BY <1>1, <1>4, <1>5, <2>1
  <2>3. QED
    BY <1>1, <2>1, <2>2 DEF Distinct, Elements
<1>7. Apart(ready, o)
  BY <1>4, <1>6, BeforeTypes DEF Apart
<1>8. /\ ready' \in Seq(Task) /\ Distinct(ready')
      /\ Elements(ready') = Elements(ready) \cup Elements(o)
  BY <1>1, <1>6, <1>7, BeforeTypes, ConcatDistinct
<1>9. Apart(ready', waiters')
  BY <1>3, <1>4, <1>6, <1>8, BeforeTypes DEF Apart
<1> HIDE DEF sleeping
<1>10. Standing'
  <2>1. \A y \in Elements(o) :
          \/ y \in Supervisors \cup Dispatchers
          \/ y \in Firings /\ pc'[y] # "idle"
    BY <1>2, <1>4, <1>6, TaskKinds
  <2>2. \A y \in Elements(ready') : y \in Elements(ready) \/ y \in Elements(o)
    BY <1>8
  <2>3. QED
    BY <1>2, <1>3, <2>1, <2>2, StandingKept DEF Before
<1>11. Loop'
  BY <1>3, <1>8, <1>9, <1>10 DEF Loop
<1>12. ~Arriving
  BY <1>2 DEF Arriving
<1>13. QED
  BY <1>2, <1>3, <1>11, <1>12, WakeupsKept DEF Before

LEMMA StopReturnsLoop ==
  ASSUME Before, StopReturns
  PROVE  Loop' /\ Wakeups'
<1>1. Signal(ready) /\ UNCHANGED pc
  BY DEF StopReturns
<1>2. /\ ready' \in Seq(Task) /\ waiters' \in Seq(Task) /\ Apart(ready', waiters')
      /\ Elements(ready') = Elements(ready) \cup Elements(waiters)
      /\ waiters' = <<>> /\ Elements(waiters') = {}
  BY <1>1, BeforeTypes, SignalJoins DEF Before
<1>3. Standing'
  BY <1>1, <1>2, StandingKept DEF Before
<1>4. QED
  BY <1>2, <1>3, NobodyWaits DEF Loop

LEMMA NextLoop == Before /\ [Next]_vars => Loop' /\ Wakeups'
<1> SUFFICES ASSUME Before, [Next]_vars PROVE Loop' /\ Wakeups'
  OBVIOUS
<1>1. ASSUME NEW s \in Source,
             \/ SourceOpens(s) \/ SourceSuspends(s)
             \/ PutsItem(s) \/ PutCoalesces(s) \/ PutBlocks(s)
             \/ SupervisorBacksOff(s) \/ SupervisorReturns(s)
             \/ SupervisorCancelled(s)
             \/ \E k \in Kind : SourceYields(s, k)
             \/ SourceRaises(s) \/ SourceEnds(s) \/ BackoffElapses(s)
      PROVE  Loop' /\ Wakeups'
  BY <1>1, SupervisorStepLoop
<1>2. ASSUME NEW s \in Source,
             \/ DispatcherAwaitsItem(s) \/ DispatcherTakes(s) \/ ArrivalWaits(s)
             \/ ArrivalRaises(s) \/ DispatcherCancelled(s)
             \/ \E o \in Orders(Transition) : ArrivalApplies(s, o)
      PROVE  Loop' /\ Wakeups'
  BY <1>2, DispatcherStepLoop, AppliesLoop
<1>3. ASSUME NEW t \in Transition,
             \/ HandlerSuspends(t) \/ HandlerEnds(t) \/ FiringCancelled(t)
             \/ \E o \in Orders(Transition) : FiringSettles(t, o)
      PROVE  Loop' /\ Wakeups'
  BY <1>3, FiringStepLoop, SettlesLoop
<1>4. ASSUME NEW c \in Client,
             WaitIdleCalled(c) \/ WaitIdleWaits(c) \/ WaitIdleReturns(c)
      PROVE  Loop' /\ Wakeups'
  BY <1>4, WaiterStepLoop
<1>5. CASE Stop
  BY <1>5, StopLoop
<1>6. CASE StopReturns
  BY <1>6, StopReturnsLoop
<1>7. CASE UNCHANGED vars
  <2>1. UNCHANGED <<ready, waiters, pc, hand, queue, mid>>
    BY <1>7 DEF vars
  <2>2. Loop'
    BY <2>1 DEF Before, Loop, Standing, Apart, Distinct, Elements
  <2>3. Active' = Active
    BY <2>1 DEF Active
  <2>4. Idle' = Idle /\ Arriving' = Arriving /\ Elements(waiters)' = Elements(waiters)
    BY <2>1, <2>3 DEF Idle, Arriving, Elements
  <2>5. Wakeups'
    BY <2>1, <2>3, <2>4 DEF Before, Wakeups, WriteConflicts
  <2>6. QED
    BY <2>2, <2>5
<1>8. QED
  BY <1>1, <1>2, <1>3, <1>4, <1>5, <1>6, <1>7 DEF Next, LoopStep

(* At first everyone who runs is in the queue, and nobody waits.           *)
LEMMA InitLoop == Init => Loop /\ Wakeups
<1> SUFFICES ASSUME Init PROVE Loop /\ Wakeups
  OBVIOUS
<1> DEFINE N == Cardinality(Source)
           both == [n \in 1..2 * N |-> IF n % 2 = 1 THEN Supervisor((n + 1) \div 2)
                                                   ELSE Dispatcher(n \div 2)]
<1>1. Source = 1..N /\ N \in Nat
  BY SourceAssumption, FS_CardinalityType
<1>2. PICK first \in Orders(Transition) :
        /\ ready = NewTasks(first) \o both
        /\ pc = [t \in Task |->
                   CASE t \in Supervisors -> "opening"
                     [] t \in Dispatchers -> "looping"
                     [] t \in Waiters -> "out"
                     [] OTHER -> IF \E i \in DOMAIN first : t = Firing(first[i])
                                 THEN "created" ELSE "idle"]
  BY DEF Init
<1>3. waiters = <<>> /\ Elements(waiters) = {} /\ Distinct(waiters)
  BY EmptyIsDistinct DEF Init
<1>4. /\ NewTasks(first) \in Seq(Task) /\ Distinct(NewTasks(first))
      /\ \A y \in Elements(NewTasks(first)) :
           y \in Firings /\ \E i \in DOMAIN first : y = Firing(first[i])
  BY OrderedTasks
<1> HIDE DEF N
<1>5. both \in Seq(Task) /\ Distinct(both)
      /\ \A y \in Elements(both) : y \in Supervisors \cup Dispatchers
  <2>1. \A n \in 1..2 * N :
          IF n % 2 = 1 THEN (n + 1) \div 2 \in Source ELSE n \div 2 \in Source
    BY <1>1
  <2>2. \A n \in 1..2 * N : both[n] \in Supervisors \cup Dispatchers
    BY <2>1, TaskKinds
  <2>3. both \in Seq(Task)
    BY <1>1, <2>2, TaskKinds
  <2>4. ASSUME NEW i \in 1..2 * N, NEW j \in 1..2 * N, i # j
        PROVE  both[i] # both[j]
    <3>1. CASE i % 2 = 1 /\ j % 2 = 1
      <4>1. (i + 1) \div 2 # (j + 1) \div 2
        BY <1>1, <2>4, <3>1
      <4>2. QED
        BY <3>1, <4>1, TasksDiffer
    <3>2. CASE i % 2 # 1 /\ j % 2 # 1
      <4>1. i \div 2 # j \div 2
        BY <1>1, <2>4, <3>2
      <4>2. QED
        BY <3>2, <4>1, TasksDiffer
    <3>3. CASE i % 2 # 1 /\ j % 2 = 1
      BY <3>3, TasksDiffer
    <3>4. CASE i % 2 = 1 /\ j % 2 # 1
      BY <3>4, TasksDiffer
    <3>5. QED
      BY <3>1, <3>2, <3>3, <3>4
  <2>5. QED
    BY <2>2, <2>3, <2>4 DEF Distinct, Elements
<1> HIDE DEF both
<1>6. Apart(NewTasks(first), both)
  BY <1>4, <1>5, TaskKinds DEF Apart
<1>7. /\ ready \in Seq(Task) /\ Distinct(ready)
      /\ Elements(ready) = Elements(NewTasks(first)) \cup Elements(both)
  BY <1>2, <1>4, <1>5, <1>6, ConcatDistinct
<1>8. \A y \in Elements(NewTasks(first)) : pc[y] = "created" /\ y \in Firings
  <2>1. \A y \in Elements(NewTasks(first)) : y \in Task
    BY <1>4 DEF Elements
  <2>2. QED
    BY <1>2, <1>4, <2>1, TaskKinds
<1>9. Standing
  BY <1>3, <1>5, <1>7, <1>8, TaskKinds DEF Standing
<1>10. QED
  BY <1>3, <1>7, <1>9 DEF Loop, Apart, Wakeups

(* Nobody waits for something that has happened, and no wakeup is given    *)
(* twice, whatever the sources, policies, footprints and clients, and      *)
(* whenever stop() is called.                                              *)
THEOREM NoWakeupIsLost == Spec => []NoLostWakeup
<1>1. Loop /\ Wakeups => NoLostWakeup
  <2> SUFFICES ASSUME Loop, Wakeups PROVE NoLostWakeup
    OBVIOUS
  <2>1. /\ \A i \in 1..Len(waiters) : waiters[i] \in Elements(waiters)
    BY DEF Loop, Elements
  <2>2. Distinct(ready \o waiters) /\ ready \o waiters \in Seq(Task)
    BY ConcatDistinct DEF Loop
  <2>3. ~mid => ~Arriving
    BY DEF Arriving
  <2>4. ~mid => \A i \in 1..Len(waiters) :
                  /\ \A s \in Source : waiters[i] = Dispatcher(s)
                                        => WriteConflicts(hand[s].places)
                  /\ waiters[i] \in Waiters => ~Idle
    BY <2>1, <2>3 DEF Wakeups
  <2>5. \A i, j \in 1..Len(ready \o waiters) :
          i # j => (ready \o waiters)[i] # (ready \o waiters)[j]
    BY <2>2 DEF Distinct
  <2>6. QED
    BY <2>4, <2>5 DEF NoLostWakeup
<1>2. Init => Loop /\ Wakeups
  BY InitLoop
<1>3. (Cancellation /\ Mailboxes) /\ (Loop /\ Wakeups) /\ [Next]_vars
        => (Loop /\ Wakeups)'
  BY NextLoop DEF Before
<1>4. QED
  BY <1>1, <1>2, <1>3, SpecMailboxes, PTL DEF Spec
=============================================================================
