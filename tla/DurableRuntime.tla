--------------------------- MODULE DurableRuntime ---------------------------
(***************************************************************************)
(* A Runtime with a DurableJournal, killed and started again.              *)
(*                                                                         *)
(* The engine writes a firing's record, and an arrival's, in the step that *)
(* settles or applies it; the journal commits each record as it appends    *)
(* it.  A restarted Runtime gets the marking that replay_events folds out  *)
(* of the log, and keeps nothing else: attempt numbers, failure counts,    *)
(* lanes, waiting injections and worker threads are gone.                  *)
(*                                                                         *)
(* The position of an entry is its seq, which DurableJournal continues     *)
(* after a restart.  The records of one batch, which follow each other     *)
(* within one step, are one entry holding the tokens recorded.             *)
(***************************************************************************)
EXTENDS Runtime, Sequences

CONSTANTS
  MaxBatch,    (* bound: equal tokens one arrival puts on one place        *)
  MaxRestarts  (* bound: restarts                                          *)

VARIABLES log, restarts

durable == <<log, restarts>>

ASSUME DurableAssumption ==
  /\ HasJournal
  /\ MaxBatch \in Nat
  /\ MaxRestarts \in Nat

-----------------------------------------------------------------------------
(* The log and its replay.                                                 *)

(* A firing's inputTokens holds what its read arcs bound as well; its      *)
(* firingId is made of the transition and the attempt number.              *)
FiringEntry(f, kind, deposit) ==
  [kind |-> kind, t |-> firing[f].t, attempt |-> f,
   input |-> Add(firing[f].take, firing[f].read), output |-> deposit]

(* Variant: an arrival that replaced its place is replayed as appended.    *)
InjectionEntryAppending(a) ==
  [kind |-> "injection", arrival |-> [a EXCEPT !.replace = FALSE]]

InjectionEntry(a) == [kind |-> "injection", arrival |-> a]

StoredEvent ==
  [kind : {"completed", "failed", "violation"}, t : Transition,
   attempt : Firing, input : Marking, output : Marking]
  \cup [kind : {"injection"}, arrival : Arrival]

(* _remove_tokens removes each recorded token that is there.               *)
Without(n, k) == IF k <= n THEN n - k ELSE 0

(* Variant: the net is not consulted, what was only read is removed too.   *)
ReplayFiringWithReads(m, e) ==
  [p \in Place |-> [v \in Token |->
     Without(m[p][v], e.input[p][v]) + e.output[p][v]]]

(* _consume_sources goes by place: every recorded input of a place the     *)
(* transition has a consume arc on is removed.                             *)
ReplayFiring(m, e) ==
  [p \in Place |-> [v \in Token |->
     IF p \in Consume(e.t) THEN Without(m[p][v], e.input[p][v]) + e.output[p][v]
                           ELSE m[p][v] + e.output[p][v]]]

(* Failed firings and deposit violations have no effect.                   *)
Effect(m, e) ==
  CASE e.kind = "completed" -> ReplayFiring(m, e)
    [] e.kind = "injection" -> Inject(m, e.arrival)
    [] OTHER -> m

Replay(entries) ==
  LET after[i \in 0..Len(entries)] ==
        IF i = 0 THEN InitialMarking ELSE Effect(after[i - 1], entries[i])
  IN  after[Len(entries)]

-----------------------------------------------------------------------------
(* What of a batch may be on the log when its injection is cut short: some *)
(* of its tokens, in the order of the placements, which the caller chose.  *)
Parts(a) ==
  IF a.replace THEN {}
  ELSE {[a EXCEPT !.add = g] :
          g \in {h \in [Place -> [Token -> 0..MaxBatch]] :
                   /\ h # NoTokens /\ h # a.add
                   /\ \A p \in Place, v \in Token : h[p][v] <= a.add[p][v]}}

Log(entry) == log' = Append(log, entry)

LogPart(a) == \E b \in Parts(a) : Log(InjectionEntry(b))

LoggedEnd(f) ==
  \/ \E d \in Deposits[firing[f].t] :
       Complete(f, d) /\ Log(FiringEntry(f, "completed", d))
  \/ HandlerFails(f) /\ Log(FiringEntry(f, "failed", NoTokens))
  \/ CancelDelivered(f) /\ Log(FiringEntry(f, "failed", NoTokens))
  \/ ContractViolated(f) /\ Log(FiringEntry(f, "violation", NoTokens))
  \/ SettleRaises(f) /\ UNCHANGED log

(* A journal write that raises in the middle of a batch leaves the entries *)
(* before it on the log.                                                   *)
LoggedClient(c) ==
  \/ \E a \in Arrivals :
       \/ InjectNow(c, a) /\ Log(InjectionEntry(a))
       \/ InjectNowRaises(c, a) /\ (UNCHANGED log \/ LogPart(a))
       \/ InjectWaits(c, a) /\ UNCHANGED log
  \/ InjectResumes(c) /\ Log(InjectionEntry(waiting[c]))
  \/ InjectRaises(c) /\ (UNCHANGED log \/ LogPart(waiting[c]))

Unlogged ==
  \/ Start
  \/ AdmitStep
  \/ \E f \in Firing : \/ HandlerStarts(f) \/ CancelSwallowed(f)
                       \/ NeverStarted(f) \/ LateWorkerEnds(f)
  \/ \E scope \in Scope \ {NoScope}, self \in Firing \cup {0} :
       CancelScope(scope, self)
  \/ Stop
  \/ StopReturns

RuntimeStep ==
  /\ \/ \E f \in Firing : LoggedEnd(f)
     \/ \E c \in Client : LoggedClient(c)
     \/ Unlogged /\ UNCHANGED log
  /\ UNCHANGED restarts

-----------------------------------------------------------------------------

(* A new process: Runtime(marking=replay_events(...)), a new journal on    *)
(* the same database.                                                      *)
Restarted ==
  /\ restarts < MaxRestarts
  /\ restarts' = restarts + 1
  /\ status' = "new"
  /\ turn' = "loop"
  /\ marking' = Replay(log')
  /\ attempt' = 1
  /\ firing' = [f \in Firing |-> Unused]
  /\ laneUse' = [l \in Lane |-> 0]
  /\ failures' = [t \in Transition |-> 0]
  /\ blocked' = {}
  /\ injections' = 0
  /\ waiting' = [c \in Client |-> NoArrival]
  /\ late' = {}

(* The process dies between two steps; dying between a record's commit and *)
(* the change of the marking comes to the same.                            *)
Crash == UNCHANGED log /\ Restarted

(* The process dies while it records a batch.                              *)
CrashInBatch(c, a) ==
  /\ \/ CanCallInject(c)
     \/ turn = "loop" /\ waiting[c] = a
  /\ ~ArrivalConflicts(a)
  /\ LogPart(a)
  /\ Restarted

DurableInit == Init /\ log = <<>> /\ restarts = 0

DurableNext ==
  \/ RuntimeStep
  \/ Crash
  \/ \E c \in Client, a \in Arrivals : CrashInBatch(c, a)

DurableSpec == DurableInit /\ [][DurableNext]_<<vars, durable>>

-----------------------------------------------------------------------------
(* Properties.                                                             *)

(* At every moment, reservations and leaked firings included, the log says *)
(* what the committed marking is: a kill at any point loses nothing that   *)
(* was committed and brings nothing back.  Holds when no transition reads  *)
(* a place it consumes from and no write in the middle of a batch raises.  *)
ReplayIsCommitted == Replay(log) = Committed

(* Every arrival or part of one that may reach the log.                    *)
Pieces == Arrivals \cup UNION {Parts(a) : a \in Arrivals}

Durably == INSTANCE AtomicNet WITH committed <- Replay(log), Arrivals <- Pieces

(* Across kills and restarts the durable marking is that of a net which    *)
(* fires atomically: every recorded firing found its tokens there, and was *)
(* recorded once.  Only a batch may arrive in part.                        *)
DurablyAtomic == Durably!Spec

(* "replay must consult the net to remove only consume-mode inputs"        *)
(* (durable_sqlite.py, _consume_sources): the record of a completed firing *)
(* makes replay take what the firing took, and no more.                    *)
ReplayTakesTheConsumed ==
  [][\A f \in Firing :
       (firing[f].phase = "running" /\ firing'[f].phase = "completed")
         => Replay(log') = Add(Remove(Replay(log), firing[f].take),
                               log'[Len(log')].output)]_<<vars, durable>>
=============================================================================
