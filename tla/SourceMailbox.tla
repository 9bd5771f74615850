----------------------------- MODULE SourceMailbox ----------------------------
(***************************************************************************)
(* Token sources: for each one the Runtime keeps a supervisor task, which  *)
(* reads the source and puts what it yields into a bounded mailbox, and a  *)
(* dispatcher task, which applies the mailbox's items to the marking.      *)
(*                                                                         *)
(* Who runs when is the point here, so the event loop is explicit: ready   *)
(* is asyncio's queue of tasks that can run, in order, and waiters the     *)
(* tasks waiting on the one event _changed.  Only the head of ready takes  *)
(* steps, and it stays the head (mid) until its coroutine suspends.        *)
(*                                                                         *)
(* The firings are those of module Runtime, reduced to what sources and    *)
(* waiters see of them: when they are active, and on which places.         *)
(***************************************************************************)
EXTENDS Integers, Sequences, FiniteSets, Subsequences

CONSTANTS
  Source,             \* token sources, in the order they were declared: 1..n
  Policy,             \* source -> "lossless", "batch" or "coalesce"
  Capacity,           \* source -> capacity of its mailbox
  Kind,               \* what a source can yield: see ItemAssumption
  NoItem,
  Transition,         \* transitions that may fire
  Touches,            \* transition -> the places in its footprint
  Client,             \* tasks outside the Runtime that call wait_idle
  JournalLacksLifecycle, \* the journal has no record_runtime
  SourcesMayFail,     \* a source may raise
  MayStop,            \* stop() may be called
  MaxItems,           \* bound: source -> how many items it yields
  MaxRestarts,        \* bound: failures of a source
  MaxFirings          \* bound: admissions

VARIABLES
  status,     \* "running", "stopping", "stopped"
  ready,      \* the event loop's queue
  mid,        \* the head of ready is between two steps of one coroutine run
  waiters,    \* tasks waiting on Runtime._changed, in order
  pc,         \* task -> where its coroutine stands
  cancelled,  \* tasks with a CancelledError on its way
  queue,      \* source -> the contents of _Mailbox.queue
  unfinished, \* source -> the queue's count of items without a task_done
  held,       \* source -> the item its supervisor is putting
  hand,       \* source -> the item its dispatcher is applying
  health,     \* source -> SourceHealth
  sent,       \* history: source -> number of items yielded
  applied,    \* history: source -> items applied to the marking
  firings     \* number of firings admitted

loop  == <<ready, mid, waiters>>
boxes == <<queue, unfinished, held, hand>>
vars  == <<status, ready, mid, waiters, pc, cancelled, queue, unfinished,
           held, hand, health, sent, applied, firings>>

-----------------------------------------------------------------------------

Supervisor(s) == <<"_supervise_source", s>>
Dispatcher(s) == <<"_dispatch_source", s>>
Firing(t)     == <<"_execute", t>>
Waiter(c)     == <<"wait_idle", c>>

Supervisors == {Supervisor(s) : s \in Source}
Dispatchers == {Dispatcher(s) : s \in Source}
Firings     == {Firing(t) : t \in Transition}
Waiters     == {Waiter(c) : c \in Client}

Task == Supervisors \cup Dispatchers \cup Firings \cup Waiters

Item == [n : UNION {1..MaxItems[s] : s \in Source}, key : {k.key : k \in Kind},
         places : {k.places : k \in Kind}, fits : BOOLEAN, accepted : BOOLEAN]

(* A kind of item: its key, the places it goes to, whether it fits the     *)
(* source's policy (a TokenBatch for a batch source, a key for a           *)
(* coalescing one) and whether the net accepts it.                         *)
ASSUME ItemAssumption ==
  /\ \A k \in Kind : DOMAIN k = {"key", "places", "fits", "accepted"}
                     /\ {k.fits, k.accepted} \subseteq BOOLEAN
  /\ NoItem \notin Item

ASSUME SourceAssumption ==
  /\ IsFiniteSet(Source) /\ Source = 1..Cardinality(Source)
  /\ IsFiniteSet(Transition)
  /\ Policy \in [Source -> {"lossless", "batch", "coalesce"}]
  /\ Capacity \in [Source -> Nat \ {0}]
  /\ \A s \in Source : Policy[s] = "coalesce" => Capacity[s] = 1
  /\ DOMAIN Touches = Transition
  /\ {JournalLacksLifecycle, SourcesMayFail, MayStop} \subseteq BOOLEAN
  /\ MaxItems \in [Source -> Nat]
  /\ {MaxRestarts, MaxFirings} \subseteq Nat

(* Firings with an entry in Runtime._active; "lost" ones have no task.     *)
Active == {t \in Transition : pc[Firing(t)] # "idle"}

WriteConflicts(places) == \E t \in Active : Touches[t] \cap places # {}

-----------------------------------------------------------------------------
(* The event loop.                                                         *)

IsReady(t) == \E n \in 1..Len(ready) : ready[n] = t

(* t runs: it is the head of ready and has not been cancelled.             *)
Runs(t) == ready # <<>> /\ Head(ready) = t /\ t \notin cancelled

(* Nothing runs: the moment for I/O, timers and other tasks to make tasks  *)
(* ready.                                                                  *)
Between == ~mid

(* t, which waits at one of the given points, becomes ready.               *)
Woken(r, t, points) == IF pc[t] \in points /\ ~IsReady(t) THEN Append(r, t) ELSE r

(* Event.set: everyone who waits becomes ready, in order.                  *)
Signal(r) == ready' = r \o waiters /\ waiters' = <<>>

GoesTo(t, point) == pc' = [pc EXCEPT ![t] = point]

(* The coroutine suspends, or returns.                                     *)
Suspends == ready' = Tail(ready) /\ mid' = FALSE

(* clear(); wait(): the caller goes to the end of the event's waiters.     *)
AwaitsChange(t) == Suspends /\ waiters' = Append(waiters, t)

-----------------------------------------------------------------------------
(* Admission, as seen from here: _admit starts any of the transitions that *)
(* conflict with no active firing, in some order.                          *)

Orders(T) == {o \in UNION {[1..n -> T] : n \in 0..Cardinality(T)} :
                \A i, j \in DOMAIN o : i # j => o[i] # o[j]}

Admissions(active) ==
  {o \in Orders(Transition \ active) :
     /\ firings + Len(o) <= MaxFirings
     /\ \A i \in DOMAIN o :
          /\ \A t \in active : Touches[t] \cap Touches[o[i]] = {}
          /\ \A j \in DOMAIN o : i # j => Touches[o[i]] \cap Touches[o[j]] = {}}

(* The tasks that _admit creates, in order, behind those it signals.       *)
NewTasks(o) == [i \in DOMAIN o |-> Firing(o[i])]

Admitted(points, o) ==
  /\ pc' = [t \in Task |-> IF \E i \in DOMAIN o : t = Firing(o[i])
                           THEN "created" ELSE points[t]]
  /\ firings' = firings + Len(o)

-----------------------------------------------------------------------------

(* A Runtime just started: start() has admitted some firings, then created *)
(* the two tasks of each source.                                           *)
Init ==
  /\ status = "running"
  /\ mid = FALSE
  /\ waiters = <<>>
  /\ cancelled = {}
  /\ queue = [s \in Source |-> <<>>]
  /\ unfinished = [s \in Source |-> 0]
  /\ held = [s \in Source |-> NoItem]
  /\ hand = [s \in Source |-> NoItem]
  /\ health = [s \in Source |->
                 [state |-> "starting", restarts |-> 0, coalesced |-> 0]]
  /\ sent = [s \in Source |-> 0]
  /\ applied = [s \in Source |-> <<>>]
  /\ \E first \in {o \in Orders(Transition) :
                     /\ Len(o) <= MaxFirings
                     /\ \A i, j \in DOMAIN o :
                          i # j => Touches[o[i]] \cap Touches[o[j]] = {}} :
       /\ firings = Len(first)
       /\ ready = NewTasks(first) \o
                  [n \in 1..2 * Cardinality(Source) |->
                     IF n % 2 = 1 THEN Supervisor((n + 1) \div 2)
                                  ELSE Dispatcher(n \div 2)]
       /\ pc = [t \in Task |->
                  CASE t \in Supervisors -> "opening"
                    [] t \in Dispatchers -> "looping"
                    [] t \in Waiters -> "out"
                    [] OTHER -> IF \E i \in DOMAIN first : t = Firing(first[i])
                                THEN "created" ELSE "idle"]

-----------------------------------------------------------------------------
(* _supervise_source and _Mailbox.put.                                     *)

SourceOpens(s) ==
  /\ Runs(Supervisor(s))
  /\ pc[Supervisor(s)] = "opening"
  /\ health' = [health EXCEPT ![s].state = "running"]
  /\ GoesTo(Supervisor(s), "asking")
  /\ mid' = TRUE
  /\ UNCHANGED <<status, ready, waiters, cancelled, boxes, sent, applied, firings>>

(* The source has nothing yet: the supervisor suspends in async for.       *)
SourceSuspends(s) ==
  /\ Runs(Supervisor(s))
  /\ pc[Supervisor(s)] = "asking"
  /\ Suspends
  /\ GoesTo(Supervisor(s), "reading")
  /\ UNCHANGED <<status, waiters, cancelled, boxes, health, sent, applied, firings>>

(* The source answers, at once or after the supervisor has suspended.      *)
SourceAnswers(s, point) ==
  /\ \/ /\ Runs(Supervisor(s))
        /\ pc[Supervisor(s)] = "asking"
        /\ UNCHANGED ready
     \/ /\ Between
        /\ pc[Supervisor(s)] = "reading"
        /\ ~IsReady(Supervisor(s))
        /\ ready' = Append(ready, Supervisor(s))
  /\ GoesTo(Supervisor(s), point)
  /\ UNCHANGED <<status, mid, waiters, cancelled, queue, unfinished, hand,
                 health, applied, firings>>

SourceYields(s, k) ==
  /\ sent[s] < MaxItems[s]
  /\ ~k.fits => health[s].restarts < MaxRestarts
  /\ SourceAnswers(s, "putting")
  /\ sent' = [sent EXCEPT ![s] = @ + 1]
  /\ held' = [held EXCEPT ![s] = [n |-> sent[s] + 1, key |-> k.key,
                                  places |-> k.places, fits |-> k.fits,
                                  accepted |-> k.accepted]]

SourceRaises(s) ==
  /\ SourcesMayFail
  /\ health[s].restarts < MaxRestarts
  /\ SourceAnswers(s, "failing")
  /\ UNCHANGED <<held, sent>>

SourceEnds(s) ==
  /\ SourceAnswers(s, "ending")
  /\ UNCHANGED <<held, sent>>

Full(s) == Len(queue[s]) >= Capacity[s]

(* put returns: the dispatcher, if it waits in get, is woken by the queue, *)
(* then everyone who waits on _changed by the supervisor.                  *)
PutReturns(s) ==
  /\ held' = [held EXCEPT ![s] = NoItem]
  /\ Signal(Woken(ready, Dispatcher(s), {"getting"}))
  /\ GoesTo(Supervisor(s), "asking")
  /\ mid' = TRUE
  /\ UNCHANGED <<status, cancelled, hand, sent, applied, firings>>

(* The mailbox has room, or has it again ("blocked" and woken).            *)
PutsItem(s) ==
  /\ Runs(Supervisor(s))
  /\ \/ pc[Supervisor(s)] = "putting" /\ held[s].fits
     \/ pc[Supervisor(s)] = "blocked"
  /\ ~Full(s)
  /\ queue' = [queue EXCEPT ![s] = Append(@, held[s])]
  /\ unfinished' = [unfinished EXCEPT ![s] = @ + 1]
  /\ PutReturns(s)
  /\ UNCHANGED health

(* Variant: a waiting item of any key is replaced.                         *)
ReplaceableByAny(s) == Policy[s] = "coalesce"

(* A coalescing source replaces the waiting item if it has the same key.   *)
Replaceable(s) == Policy[s] = "coalesce" /\ queue[s][1].key = held[s].key

PutCoalesces(s) ==
  /\ Runs(Supervisor(s))
  /\ pc[Supervisor(s)] = "putting"
  /\ held[s].fits
  /\ Full(s)
  /\ Replaceable(s)
  /\ queue' = [queue EXCEPT ![s] = <<held[s]>>]
  /\ health' = [health EXCEPT ![s].coalesced = @ + 1]
  /\ PutReturns(s)
  /\ UNCHANGED unfinished

PutBlocks(s) ==
  /\ Runs(Supervisor(s))
  /\ pc[Supervisor(s)] = "putting"
  /\ held[s].fits
  /\ Full(s)
  /\ ~Replaceable(s)
  /\ Suspends
  /\ GoesTo(Supervisor(s), "blocked")
  /\ UNCHANGED <<status, waiters, cancelled, boxes, health, sent, applied, firings>>

(* The except branch: the source raised, or put refused a misfit.          *)
SupervisorBacksOff(s) ==
  /\ Runs(Supervisor(s))
  /\ \/ pc[Supervisor(s)] = "failing"
     \/ pc[Supervisor(s)] = "putting" /\ ~held[s].fits
  /\ health' = [health EXCEPT ![s].state = "backing_off", ![s].restarts = @ + 1]
  /\ held' = [held EXCEPT ![s] = NoItem]
  /\ GoesTo(Supervisor(s), IF JournalLacksLifecycle THEN "dead" ELSE "backoff")
  /\ Suspends
  /\ UNCHANGED <<status, waiters, cancelled, queue, unfinished, hand, sent,
                 applied, firings>>

BackoffElapses(s) ==
  /\ Between
  /\ pc[Supervisor(s)] = "backoff"
  /\ ~IsReady(Supervisor(s))
  /\ ready' = Append(ready, Supervisor(s))
  /\ GoesTo(Supervisor(s), "opening")
  /\ UNCHANGED <<status, mid, waiters, cancelled, boxes, health, sent, applied,
                 firings>>

SupervisorReturns(s) ==
  /\ Runs(Supervisor(s))
  /\ pc[Supervisor(s)] = "ending"
  /\ GoesTo(Supervisor(s), "done")
  /\ Suspends
  /\ UNCHANGED <<status, waiters, cancelled, boxes, health, sent, applied, firings>>

-----------------------------------------------------------------------------
(* _dispatch_source and _apply_arrival.                                    *)

DispatcherAwaitsItem(s) ==
  /\ Runs(Dispatcher(s))
  /\ pc[Dispatcher(s)] = "looping"
  /\ queue[s] = <<>>
  /\ Suspends
  /\ GoesTo(Dispatcher(s), "getting")
  /\ UNCHANGED <<status, waiters, cancelled, boxes, health, sent, applied, firings>>

(* get returns an item, and the queue wakes the supervisor if it waits in  *)
(* put.                                                                    *)
DispatcherTakes(s) ==
  /\ Runs(Dispatcher(s))
  /\ pc[Dispatcher(s)] \in {"looping", "getting"}
  /\ queue[s] # <<>>
  /\ hand' = [hand EXCEPT ![s] = Head(queue[s])]
  /\ queue' = [queue EXCEPT ![s] = Tail(@)]
  /\ ready' = Woken(ready, Supervisor(s), {"blocked"})
  /\ GoesTo(Dispatcher(s), "applying")
  /\ mid' = TRUE
  /\ UNCHANGED <<status, waiters, cancelled, unfinished, held, health, sent,
                 applied, firings>>

ArrivalWaits(s) ==
  /\ Runs(Dispatcher(s))
  /\ pc[Dispatcher(s)] = "applying"
  /\ WriteConflicts(hand[s].places)
  /\ AwaitsChange(Dispatcher(s))
  /\ UNCHANGED <<status, pc, cancelled, boxes, health, sent, applied, firings>>

(* Variant: the queue is not told.                                         *)
TaskNotDone(s) == hand' = [hand EXCEPT ![s] = NoItem] /\ UNCHANGED unfinished

(* The finally clause around _apply_arrival.                               *)
TaskDone(s) ==
  /\ unfinished' = [unfinished EXCEPT ![s] = @ - 1]
  /\ hand' = [hand EXCEPT ![s] = NoItem]

(* Applying wakes those who wait and admits firings; the dispatcher goes   *)
(* round without suspending.                                               *)
ArrivalApplies(s, o) ==
  /\ Runs(Dispatcher(s))
  /\ pc[Dispatcher(s)] = "applying"
  /\ ~WriteConflicts(hand[s].places)
  /\ hand[s].accepted
  /\ o \in Admissions(Active)
  /\ applied' = [applied EXCEPT ![s] = Append(@, hand[s])]
  /\ TaskDone(s)
  /\ Admitted([pc EXCEPT ![Dispatcher(s)] = "looping"], o)
  /\ ready' = ready \o waiters \o NewTasks(o)
  /\ waiters' = <<>>
  /\ mid' = TRUE
  /\ UNCHANGED <<status, cancelled, queue, held, health, sent>>

(* The engine refuses the arrival (undeclared place, token type) and the   *)
(* exception ends the dispatcher.                                          *)
ArrivalRaises(s) ==
  /\ Runs(Dispatcher(s))
  /\ pc[Dispatcher(s)] = "applying"
  /\ ~WriteConflicts(hand[s].places)
  /\ ~hand[s].accepted
  /\ TaskDone(s)
  /\ GoesTo(Dispatcher(s), "dead")
  /\ Signal(Tail(ready))
  /\ mid' = FALSE
  /\ UNCHANGED <<status, cancelled, queue, held, health, sent, applied, firings>>

-----------------------------------------------------------------------------
(* Firings.                                                                *)

HandlerSuspends(t) ==
  /\ Runs(Firing(t))
  /\ pc[Firing(t)] = "created"
  /\ Suspends
  /\ GoesTo(Firing(t), "running")
  /\ UNCHANGED <<status, waiters, cancelled, boxes, health, sent, applied, firings>>

HandlerEnds(t) ==
  /\ Between
  /\ pc[Firing(t)] = "running"
  /\ ~IsReady(Firing(t))
  /\ ready' = Append(ready, Firing(t))
  /\ GoesTo(Firing(t), "ended")
  /\ UNCHANGED <<status, mid, waiters, cancelled, boxes, health, sent, applied,
                 firings>>

(* Variant: the end of a firing is not signalled.                          *)
SilentSettlement(r, o) == ready' = r \o NewTasks(o) /\ UNCHANGED waiters

(* Those who wait become ready, then the tasks that _admit created.        *)
Settlement(r, o) == ready' = r \o waiters \o NewTasks(o) /\ waiters' = <<>>

(* The end of _execute: the firing leaves _active and others are admitted. *)
FiringSettles(t, o) ==
  /\ Runs(Firing(t))
  /\ pc[Firing(t)] \in {"created", "ended"}
  /\ o \in Admissions(Active \ {t})
  /\ Admitted([pc EXCEPT ![Firing(t)] = "idle"], o)
  /\ Settlement(Tail(ready), o)
  /\ mid' = FALSE
  /\ UNCHANGED <<status, cancelled, boxes, health, sent, applied>>

-----------------------------------------------------------------------------
(* wait_idle.                                                              *)

(* sleep(0): the caller goes to the end of the loop's queue.               *)
Yields(c) == ready' = Append(ready, Waiter(c))

WaitIdleCalled(c) ==
  /\ Between
  /\ status = "running"
  /\ pc[Waiter(c)] = "out"
  /\ Yields(c)
  /\ GoesTo(Waiter(c), "checking")
  /\ UNCHANGED <<status, mid, waiters, cancelled, boxes, health, sent, applied,
                 firings>>

Idle == Active = {} /\ \A s \in Source : queue[s] = <<>>

WaitIdleWaits(c) ==
  /\ Runs(Waiter(c))
  /\ ~Idle
  /\ AwaitsChange(Waiter(c))
  /\ UNCHANGED <<status, pc, cancelled, boxes, health, sent, applied, firings>>

WaitIdleReturns(c) ==
  /\ Runs(Waiter(c))
  /\ Idle
  /\ Suspends
  /\ GoesTo(Waiter(c), "out")
  /\ UNCHANGED <<status, waiters, cancelled, boxes, health, sent, applied, firings>>

-----------------------------------------------------------------------------
(* stop().                                                                 *)

Ended == {"done", "dead", "idle", "lost"}

(* The tasks in _tasks and _active that have not ended.                    *)
Living == {t \in Supervisors \cup Dispatchers \cup Firings : pc[t] \notin Ended}

(* Variant: tasks that are ready already are not cancelled.                *)
CancelTargetsSleeping == {t \in Living : ~IsReady(t)}

CancelTargets == Living

(* Every task is cancelled; those that sleep become ready, in any order,   *)
(* with the error.                                                         *)
Stop ==
  /\ MayStop
  /\ Between
  /\ status = "running"
  /\ status' = "stopping"
  /\ cancelled' = CancelTargets
  /\ LET sleeping == {t \in CancelTargets : ~IsReady(t)}
     IN \E o \in {f \in [1..Cardinality(sleeping) -> sleeping] :
                    \A i, j \in DOMAIN f : i # j => f[i] # f[j]} :
          ready' = ready \o o
  /\ waiters' = Among(waiters, Waiters)
  /\ UNCHANGED <<mid, pc, boxes, health, sent, applied, firings>>

Cancelling(t) ==
  /\ ready # <<>>
  /\ Head(ready) = t
  /\ t \in cancelled
  /\ cancelled' = cancelled \ {t}
  /\ mid' = FALSE
  /\ UNCHANGED <<status, queue, health, sent, applied, firings>>

(* What it was putting is lost.                                            *)
SupervisorCancelled(s) ==
  /\ Cancelling(Supervisor(s))
  /\ GoesTo(Supervisor(s), "done")
  /\ held' = [held EXCEPT ![s] = NoItem]
  /\ ready' = Tail(ready)
  /\ UNCHANGED <<waiters, unfinished, hand>>

DispatcherCancelled(s) ==
  /\ Cancelling(Dispatcher(s))
  /\ GoesTo(Dispatcher(s), "done")
  /\ \/ /\ hand[s] # NoItem
        /\ TaskDone(s)
        /\ Signal(Tail(ready))
     \/ /\ hand[s] = NoItem
        /\ ready' = Tail(ready)
        /\ UNCHANGED <<waiters, unfinished, hand>>
  /\ UNCHANGED held

(* A firing that has not begun ends without settling; any other one        *)
(* settles as failed.                                                      *)
FiringCancelled(t) ==
  /\ Cancelling(Firing(t))
  /\ \/ /\ pc[Firing(t)] = "created"
        /\ GoesTo(Firing(t), "lost")
        /\ ready' = Tail(ready)
        /\ UNCHANGED waiters
     \/ /\ pc[Firing(t)] # "created"
        /\ GoesTo(Firing(t), "idle")
        /\ Signal(Tail(ready))
  /\ UNCHANGED <<unfinished, held, hand>>

StopReturns ==
  /\ Between
  /\ status = "stopping"
  /\ Living = {}
  /\ status' = "stopped"
  /\ health' = [s \in Source |-> [health[s] EXCEPT !.state = "stopped"]]
  /\ Signal(ready)
  /\ UNCHANGED <<mid, pc, cancelled, boxes, sent, applied, firings>>

-----------------------------------------------------------------------------

(* A step of the task at the head of ready.                                *)
LoopStep ==
  \/ \E s \in Source :
       \/ SourceOpens(s) \/ SourceSuspends(s)
       \/ PutsItem(s) \/ PutCoalesces(s) \/ PutBlocks(s)
       \/ SupervisorBacksOff(s) \/ SupervisorReturns(s) \/ SupervisorCancelled(s)
       \/ DispatcherAwaitsItem(s) \/ DispatcherTakes(s)
       \/ ArrivalWaits(s) \/ ArrivalRaises(s) \/ DispatcherCancelled(s)
       \/ \E o \in Orders(Transition) : ArrivalApplies(s, o)
  \/ \E t \in Transition :
       \/ HandlerSuspends(t) \/ FiringCancelled(t)
       \/ \E o \in Orders(Transition) : FiringSettles(t, o)
  \/ \E c \in Client : WaitIdleWaits(c) \/ WaitIdleReturns(c)

Next ==
  \/ LoopStep
  \/ \E s \in Source :
       \/ \E k \in Kind : SourceYields(s, k)
       \/ SourceRaises(s) \/ SourceEnds(s) \/ BackoffElapses(s)
  \/ \E t \in Transition : HandlerEnds(t)
  \/ \E c \in Client : WaitIdleCalled(c)
  \/ Stop
  \/ StopReturns

(* The loop runs whatever is ready, handlers return, a backoff elapses.    *)
(* Sources owe nothing, and nobody has to wait or stop.                    *)
Fairness ==
  /\ WF_vars(LoopStep)
  /\ \A t \in Transition : WF_vars(HandlerEnds(t))
  /\ \A s \in Source : WF_vars(BackoffElapses(s))
  /\ WF_vars(StopReturns)

Spec == Init /\ [][Next]_vars

FairSpec == Spec /\ Fairness

-----------------------------------------------------------------------------
(* Properties.                                                             *)

Point == {"opening", "asking", "reading", "putting", "blocked", "failing",
          "ending", "backoff", "looping", "getting", "applying", "created",
          "running", "ended", "idle", "lost", "out", "checking", "done", "dead"}

One(i) == IF i = NoItem THEN <<>> ELSE <<i>>

(* What a source has yielded and the marking has not got.                  *)
Pending ==
  [s \in Source |-> One(hand[s]) \o queue[s] \o
                    (IF held[s] # NoItem /\ held[s].fits THEN <<held[s]>> ELSE <<>>)]

Promise == INSTANCE Channel WITH
             Coalescing <- {s \in Source : Policy[s] = "coalesce"},
             open <- status = "running", pending <- Pending

(* Backpressure, replacement in a full coalescing mailbox, arrivals that   *)
(* wait for conflicting firings and a stop() at any moment keep the        *)
(* source's promise: each item is applied once and in order, or is         *)
(* superseded by a later one of its key.                                   *)
ImplementsChannel == Promise!Spec

(* The counters a user sees are right: an item a source yielded and the    *)
(* marking will never get was counted, as coalesced or as the restart its  *)
(* refusal by put caused; and the queue counts as unfinished exactly what  *)
(* is in it or in the dispatcher's hand.                                   *)
NothingLostUncounted ==
  status = "running" =>
    \A s \in Source :
      /\ unfinished[s] = Len(queue[s]) + Len(One(hand[s]))
      /\ pc[Dispatcher(s)] # "dead" =>
           sent[s] <= Len(applied[s]) + Len(Pending[s]) + health[s].coalesced
                      + health[s].restarts
                      + (IF held[s] # NoItem /\ ~held[s].fits THEN 1 ELSE 0)

(* Nobody waits for something that has happened: a dispatcher waits on     *)
(* _changed only while a firing conflicts with its arrival, and a          *)
(* wait_idle only while there is something to wait for.  Each of them      *)
(* clears the event and waits on it while others are on their way to set   *)
(* or to check it.  And no wakeup is given twice: a task is once in the    *)
(* loop's queue or among the waiters, never more.                          *)
NoLostWakeup ==
  /\ ~mid => \A i \in 1..Len(waiters) :
               /\ \A s \in Source : waiters[i] = Dispatcher(s)
                                      => WriteConflicts(hand[s].places)
               /\ waiters[i] \in Waiters => ~Idle
  /\ \A i, j \in 1..Len(ready \o waiters) :
       i # j => (ready \o waiters)[i] # (ready \o waiters)[j]

(* "Wait until no handler is active and every source mailbox is empty"     *)
(* (runtime.py, Runtime.wait_idle): when it returns, no mailbox has an     *)
(* item that is not finished with, which would make a handler active as    *)
(* soon as it is applied.                                                  *)
IdleMeansApplied ==
  [][\A c \in Client :
       pc[Waiter(c)] = "checking" /\ pc'[Waiter(c)] = "out"
         => \A s \in Source : unfinished[s] = 0]_vars

(* Once stop() has been called no arrival of a source reaches the marking, *)
(* not even one whose dispatcher had been woken to apply it.               *)
StopEndsArrivals == [][status # "running" => applied' = applied]_vars

(* What a source yields is dealt with: applied, superseded or refused,     *)
(* unless stop() intervenes or an arrival that the net refused has ended   *)
(* the dispatcher, which nothing restarts.                                 *)
EveryItemIsHandled ==
  \A s \in Source : \A n \in 1..MaxItems[s] :
    (\E i \in DOMAIN Pending[s] : Pending[s][i].n = n)
      ~> \/ \A i \in DOMAIN Pending[s] : Pending[s][i].n # n
         \/ status # "running"
         \/ pc[Dispatcher(s)] = "dead"

(* wait_idle returns once the sources pause, unless a dead dispatcher or   *)
(* stop() leave items in a mailbox, or stop() a firing that never began:   *)
(* then it waits for ever.                                                 *)
WaitIdleTerminates ==
  \A c \in Client :
    pc[Waiter(c)] = "checking"
      ~> \/ pc[Waiter(c)] = "out"
         \/ status # "running" /\ ~Idle
         \/ \E s \in Source : pc[Dispatcher(s)] = "dead" /\ queue[s] # <<>>
=============================================================================
