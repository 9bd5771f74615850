--------------------------- MODULE DurableProofs ----------------------------
(***************************************************************************)
(* Proofs about DurableRuntime: the log replays to the committed marking,  *)
(* and the replayed marking changes atomically across kills and restarts.  *)
(***************************************************************************)
EXTENDS DurableRuntime, RuntimeProofs, SequenceTheorems

(* What replay needs of the net, of the scope resolvers and of the journal.*)
Replayable ==
  /\ \A t \in Transition : Consume(t) \cap Read(t) = {}
  /\ ScopeMayRaise = {}
  /\ JournalMayFail => \A a \in Arrivals : Parts(a) = {}

-----------------------------------------------------------------------------
(* Replay is a fold.  A recursive function is the CHOOSE of a fixpoint, so *)
(* that the log has exactly one has to be known before Replay says         *)
(* anything; it holds of the empty log and is kept by Append, which is how *)
(* the log grows.                                                          *)

Folds(g, l) ==
  g = [i \in 0..Len(l) |->
         IF i = 0 THEN InitialMarking ELSE Effect(g[i - 1], l[i])]

OneFold(l) == \E g : Folds(g, l) /\ \A h : Folds(h, l) => h = g

LEMMA ReplayIsTheFold ==
  ASSUME NEW l, NEW g, Folds(g, l), \A h : Folds(h, l) => h = g
  PROVE  Replay(l) = g[Len(l)]
BY DEF Replay, Folds

LEMMA ReplayOfNothing == OneFold(<<>>) /\ Replay(<<>>) = InitialMarking
<1> DEFINE g == [i \in 0..0 |-> InitialMarking]
<1>1. Len(<<>>) = 0 /\ 0..0 = {0}
  OBVIOUS
<1>2. Folds(g, <<>>)
  BY <1>1 DEF Folds
<1>3. ASSUME NEW h, Folds(h, <<>>) PROVE h = g
  BY <1>1, <1>3 DEF Folds
<1>4. Replay(<<>>) = g[0]
  BY <1>1, <1>2, <1>3, ReplayIsTheFold
<1>5. QED
  BY <1>2, <1>3, <1>4 DEF OneFold

(* Appending an entry applies its effect to what replay gave before.       *)
LEMMA ReplayAppend ==
  ASSUME NEW l \in Seq(StoredEvent), NEW e \in StoredEvent, OneFold(l)
  PROVE  /\ OneFold(Append(l, e))
         /\ Replay(Append(l, e)) = Effect(Replay(l), e)
<1> DEFINE n == Len(l)
           k == Append(l, e)
<1>1. /\ n \in Nat /\ Len(k) = n + 1 /\ k[n + 1] = e
      /\ \A i \in 1..n : k[i] = l[i]
  OBVIOUS
<1>2. PICK g : Folds(g, l) /\ \A h : Folds(h, l) => h = g
  BY DEF OneFold
<1> DEFINE gg == [i \in 0..n + 1 |-> IF i = n + 1 THEN Effect(g[n], e) ELSE g[i]]
<1> HIDE DEF k, gg
<1>3. \A i \in 0..n : g[i] = IF i = 0 THEN InitialMarking ELSE Effect(g[i - 1], l[i])
  BY <1>2 DEF Folds
<1>4. \A i \in 0..n : gg[i] = g[i]
  BY <1>1 DEF gg
<1>5. gg[n + 1] = Effect(g[n], e)
  BY <1>1 DEF gg
<1>6. Folds(gg, k)
  <2>1. ASSUME NEW i \in 0..n + 1
        PROVE  gg[i] = IF i = 0 THEN InitialMarking ELSE Effect(gg[i - 1], k[i])
    <3>1. CASE i = n + 1
      BY <3>1, <1>1, <1>4, <1>5
    <3>2. CASE i \in 0..n
      <4>1. i # 0 => i - 1 \in 0..n /\ i \in 1..n
        BY <3>2, <1>1
      <4>2. QED
        BY <4>1, <3>2, <1>1, <1>3, <1>4
    <3>3. QED
      BY <3>1, <3>2, <1>1
  <2>2. gg = [i \in 0..n + 1 |-> gg[i]]
    BY DEF gg
  <2>3. QED
    BY <2>1, <2>2, <1>1 DEF Folds
<1>7. ASSUME NEW h, Folds(h, k) PROVE h = gg
  <2>1. /\ h = [i \in 0..n + 1 |-> h[i]]
        /\ \A i \in 0..n + 1 :
             h[i] = IF i = 0 THEN InitialMarking ELSE Effect(h[i - 1], k[i])
    BY <1>1, <1>7 DEF Folds
  <2> DEFINE hh == [i \in 0..n |-> h[i]]
  <2>2. ASSUME NEW i \in 0..n
        PROVE  hh[i] = IF i = 0 THEN InitialMarking ELSE Effect(hh[i - 1], l[i])
    <3>1. i # 0 => i - 1 \in 0..n /\ i \in 1..n
      BY <1>1
    <3>2. i \in 0..n + 1
      BY <1>1
    <3>3. QED
      BY <3>1, <3>2, <2>1, <1>1
  <2>3. Folds(hh, l)
    BY <2>2 DEF Folds
  <2>4. hh = g
    BY <2>3, <1>2
  <2>5. \A i \in 0..n : h[i] = gg[i]
    BY <2>4, <1>4
  <2>6. h[n + 1] = gg[n + 1]
    <3>1. h[n + 1] = Effect(h[n], e)
      BY <2>1, <1>1
    <3>2. QED
      BY <3>1, <2>5, <1>1, <1>4, <1>5
  <2>7. \A i \in 0..n + 1 : h[i] = gg[i]
    BY <2>5, <2>6, <1>1
  <2>8. QED
    BY <2>1, <2>7 DEF gg
<1>8. Replay(l) = g[n]
  BY <1>2, ReplayIsTheFold
<1>9. Replay(k) = gg[n + 1]
  BY <1>1, <1>6, <1>7, ReplayIsTheFold
<1>10. QED
  BY <1>5, <1>6, <1>7, <1>8, <1>9 DEF OneFold, k

-----------------------------------------------------------------------------
(* What one entry does to the committed marking.                           *)

LEMMA FiringEntryEffect ==
  ASSUME Replayable, NEW t \in Transition, NEW b \in Bindings[t],
         NEW m \in Marking, NEW d \in Marking, NEW e,
         e.kind = "completed", e.t = t, e.output = d,
         e.input = Add(b.take, b.read),
         \A p \in Place, v \in Token : b.take[p][v] <= m[p][v]
  PROVE  Effect(m, e) = Add(Remove(m, b.take), d)
<1>1. b \in Binding
  BY NetAssumption
<1>2. ASSUME NEW p \in Place, NEW v \in Token
      PROVE  (IF p \in Consume(t) THEN Without(m[p][v], e.input[p][v]) + d[p][v]
                                  ELSE m[p][v] + d[p][v])
               = m[p][v] - b.take[p][v] + d[p][v]
  <2>1. /\ b.take[p][v] \in Nat /\ b.read[p][v] \in Nat
        /\ m[p][v] \in Nat /\ d[p][v] \in Nat
    BY <1>1 DEF Binding, Marking, Bag
  <2>2. e.input[p][v] = b.take[p][v] + b.read[p][v]
    BY DEF Add
  <2>3. CASE p \in Consume(t)
    <3>1. b.read[p][v] = 0
      BY <2>1, <2>3, NetAssumption DEF Replayable
    <3>2. QED
      BY <2>1, <2>2, <2>3, <3>1 DEF Without
  <2>4. CASE p \notin Consume(t)
    <3>1. b.take[p][v] = 0
      BY <2>1, <2>4, NetAssumption
    <3>2. QED
      BY <2>1, <2>4, <3>1
  <2>5. QED
    BY <2>3, <2>4
<1>3. Effect(m, e) = ReplayFiring(m, e)
  BY DEF Effect
<1>4. QED
  BY <1>2, <1>3 DEF ReplayFiring, Add, Remove

LEMMA PartsAreArrivals ==
  ASSUME NEW a \in Arrivals, NEW b \in Parts(a)
  PROVE  b \in Arrival
<1>1. a \in Arrival
  BY RuntimeAssumption
<1>2. \A h \in [Place -> [Token -> 0..MaxBatch]] : h \in Marking
  BY DurableAssumption DEF Marking, Bag
<1>3. PICK h \in [Place -> [Token -> 0..MaxBatch]] : b = [a EXCEPT !.add = h]
  BY DEF Parts
<1>4. QED
  BY <1>1, <1>2, <1>3 DEF Arrival

(* An entry is appended whose effect on the committed marking is the       *)
(* step's, or nothing is appended and the committed marking stays.         *)
Recorded ==
  \/ log' = log /\ Committed' = Committed
  \/ \E e \in StoredEvent :
       log' = Append(log, e) /\ Committed' = Effect(Committed, e)

LEMMA FailureRecorded ==
  ASSUME IInv, IInv', NEW f \in Firing, RollsBack(f),
         NEW kind \in {"failed", "violation"}, Log(FiringEntry(f, kind, NoTokens))
  PROVE  Recorded
<1> DEFINE e == FiringEntry(f, kind, NoTokens)
<1>1. firing[f] \in Reservation
  BY DEF IInv, TypeOK
<1>2. NoTokens \in Marking /\ Add(firing[f].take, firing[f].read) \in Marking
  BY <1>1 DEF NoTokens, Add, Reservation, Marking, Bag
<1>3. e \in StoredEvent
  BY <1>1, <1>2 DEF FiringEntry, StoredEvent, Reservation
<1>4. Effect(Committed, e) = Committed
  BY DEF Effect, FiringEntry
<1>5. Committed' = Committed
  BY RollBackCommitted
<1>6. QED
  BY <1>3, <1>4, <1>5 DEF Recorded, Log

LEMMA CompletionRecorded ==
  ASSUME Replayable, IInv, IInv', NEW f \in Firing,
         NEW d \in Deposits[firing[f].t], Complete(f, d),
         Log(FiringEntry(f, "completed", d))
  PROVE  Recorded
<1> DEFINE e == FiringEntry(f, "completed", d)
<1>1. firing[f] \in Reservation /\ firing[f].t \in Transition /\ d \in Marking
  BY CompleteCommitted DEF IInv, TypeOK
<1>2. PICK b \in Bindings[firing[f].t] :
        /\ firing[f].take = b.take /\ firing[f].read = b.read
        /\ \A p \in Place, v \in Token : b.take[p][v] <= Committed[p][v]
        /\ Committed' = Add(Remove(Committed, b.take), d)
  BY CompleteCommitted
<1>3. Add(firing[f].take, firing[f].read) \in Marking
  BY <1>1 DEF Add, Reservation, Marking, Bag
<1>4. e \in StoredEvent
  BY <1>1, <1>3 DEF FiringEntry, StoredEvent
<1>5. Committed \in Marking
  BY CommittedTyped
<1>6. /\ e.kind = "completed" /\ e.t = firing[f].t /\ e.output = d
      /\ e.input = Add(b.take, b.read)
  BY <1>2 DEF FiringEntry
<1>7. Effect(Committed, e) = Committed'
  BY <1>1, <1>2, <1>5, <1>6, FiringEntryEffect
<1>8. QED
  BY <1>4, <1>7 DEF Recorded, Log

LEMMA ArrivalRecorded ==
  ASSUME IInv, IInv', NEW a \in Arrivals, Applies(a), Log(InjectionEntry(a))
  PROVE  Recorded
<1>1. a \in Arrival
  BY RuntimeAssumption
<1>2. InjectionEntry(a) \in StoredEvent
  BY <1>1 DEF InjectionEntry, StoredEvent
<1>3. Effect(Committed, InjectionEntry(a)) = Inject(Committed, a)
  BY DEF Effect, InjectionEntry
<1>4. QED
  BY <1>2, <1>3, ArrivalCommitted DEF Recorded, Log

LEMMA RuntimeStepIsNext == RuntimeStep => Next
BY DEF RuntimeStep, LoggedEnd, LoggedClient, Unlogged, Next, TaskStep, HandlerEnds,
       ClientStep

LEMMA RuntimeStepRecorded ==
  ASSUME Replayable, IInv, IInv', RuntimeStep
  PROVE  Recorded
<1>1. ASSUME NEW f \in Firing, LoggedEnd(f) PROVE Recorded
  <2>1. CASE \E d \in Deposits[firing[f].t] :
               Complete(f, d) /\ Log(FiringEntry(f, "completed", d))
    BY <2>1, CompletionRecorded
  <2>2. CASE HandlerFails(f) /\ Log(FiringEntry(f, "failed", NoTokens))
    BY <2>2, FailureRecorded DEF RollsBack
  <2>3. CASE CancelDelivered(f) /\ Log(FiringEntry(f, "failed", NoTokens))
    BY <2>3, FailureRecorded DEF RollsBack
  <2>4. CASE ContractViolated(f) /\ Log(FiringEntry(f, "violation", NoTokens))
    BY <2>4, FailureRecorded DEF RollsBack
  <2>5. CASE SettleRaises(f) /\ UNCHANGED log
    BY <2>5, QuietCommitted DEF QuietStep, Recorded
  <2>6. QED
    BY <1>1, <2>1, <2>2, <2>3, <2>4, <2>5 DEF LoggedEnd
<1>2. ASSUME NEW c \in Client, LoggedClient(c) PROVE Recorded
  <2>1. ASSUME NEW a \in Arrivals, InjectNow(c, a), Log(InjectionEntry(a))
        PROVE  Recorded
    <3>1. Applies(a)
      BY <2>1 DEF InjectNow, Applies, IInv, TypeOK
    <3>2. QED
      BY <2>1, <3>1, ArrivalRecorded
  <2>2. CASE InjectResumes(c) /\ Log(InjectionEntry(waiting[c]))
    <3>1. waiting[c] \in Arrivals /\ Applies(waiting[c])
      BY <2>2 DEF InjectResumes, Applies, IInv, TypeOK
    <3>2. QED
      BY <2>2, <3>1, ArrivalRecorded
  <2>3. ASSUME NEW a \in Arrivals, InjectNowRaises(c, a), UNCHANGED log \/ LogPart(a)
        PROVE  Recorded
    <3>1. UNCHANGED log
      BY <2>3 DEF InjectNowRaises, LogPart, Replayable
    <3>2. QED
      BY <2>3, <3>1, QuietCommitted DEF QuietStep, Recorded
  <2>4. ASSUME NEW a \in Arrivals, InjectWaits(c, a), UNCHANGED log
        PROVE  Recorded
    BY <2>4, QuietCommitted DEF QuietStep, Recorded
  <2>5. CASE InjectRaises(c) /\ (UNCHANGED log \/ LogPart(waiting[c]))
    <3>1. waiting[c] \in Arrivals
      BY <2>5 DEF InjectRaises, IInv, TypeOK
    <3>2. UNCHANGED log
      BY <2>5, <3>1 DEF InjectRaises, LogPart, Replayable
    <3>3. QED
      BY <2>5, <3>2, QuietCommitted DEF QuietStep, Recorded
  <2>6. QED
    BY <1>2, <2>1, <2>2, <2>3, <2>4, <2>5 DEF LoggedClient
<1>3. ASSUME Unlogged, UNCHANGED log PROVE Recorded
  <2>1. ASSUME NEW t \in Transition, NEW b \in Bindings[t],
               NEW scope \in ScopesOf[t], Admit(t, b, scope)
        PROVE  Committed' = Committed
    BY <2>1, AdmitCommitted
  <2>2. ASSUME NEW t \in Transition, NEW b \in Bindings[t]
        PROVE  ~ScopeResolverRaises(t, b)
    BY DEF ScopeResolverRaises, Replayable
  <2>3. ASSUME AdmitReturns PROVE Committed' = Committed
    BY <2>3, QuietCommitted DEF QuietStep
  <2>4. ASSUME ~AdmitStep PROVE Committed' = Committed
    <3>1. QuietStep
      BY <1>3, <2>4 DEF Unlogged, QuietStep
    <3>2. QED
      BY <3>1, QuietCommitted
  <2>5. Committed' = Committed
    BY <1>3, <2>1, <2>2, <2>3, <2>4 DEF AdmitStep
  <2>6. QED
    BY <1>3, <2>5 DEF Recorded
<1>4. QED
  BY <1>1, <1>2, <1>3 DEF RuntimeStep

-----------------------------------------------------------------------------
(* The invariant and the theorems.                                         *)

DurableInv ==
  /\ IInv
  /\ log \in Seq(StoredEvent)
  /\ OneFold(log)
  /\ ReplayIsCommitted

Founded == Fresh /\ marking \in Marking

LEMMA FoundedIsSound == Founded => IInv
BY FreshIInv DEF Founded

LEMMA FoundedIsSoundNext == Founded' => IInv'
BY FoundedIsSound, PTL

LEMMA RestartedIsFresh ==
  ASSUME Restarted, Replay(log') \in Marking
  PROVE  IInv' /\ Committed' = Replay(log')
<1>1. Fresh' /\ marking' = Replay(log')
  BY DEF Restarted, Fresh
<1>2. IInv'
  BY <1>1, FoundedIsSoundNext DEF Founded
<1>3. Active' = {}
  BY <1>1 DEF Fresh, Active, Unused, ActivePhase
<1>4. Committed' = [p \in Place |-> marking'[p]]
  BY <1>3 DEF Committed
<1>5. QED
  BY <1>1, <1>2, <1>4 DEF Marking

LEMMA InjectTyped ==
  ASSUME NEW m \in Marking, NEW a \in Arrival
  PROVE  Inject(m, a) \in Marking
BY DEF Inject, Arrival, Marking, Bag

LEMMA CrashInBatchLogs ==
  ASSUME DurableInv, NEW c \in Client, NEW a \in Arrivals, CrashInBatch(c, a)
  PROVE  \E b \in Parts(a) :
           /\ InjectionEntry(b) \in StoredEvent
           /\ log' = Append(log, InjectionEntry(b))
           /\ Replay(log') = Inject(Replay(log), b)
           /\ Replay(log') \in Marking
           /\ OneFold(log')
<1>1. PICK b \in Parts(a) : log' = Append(log, InjectionEntry(b))
  BY DEF CrashInBatch, LogPart, Log
<1>2. b \in Arrival /\ InjectionEntry(b) \in StoredEvent
  BY PartsAreArrivals DEF InjectionEntry, StoredEvent
<1>3. /\ OneFold(log')
      /\ Replay(log') = Effect(Replay(log), InjectionEntry(b))
  BY <1>1, <1>2, ReplayAppend DEF DurableInv
<1>4. Effect(Replay(log), InjectionEntry(b)) = Inject(Replay(log), b)
  BY DEF Effect, InjectionEntry
<1>5. Replay(log) \in Marking
  BY CommittedTyped DEF DurableInv, ReplayIsCommitted
<1>6. QED
  BY <1>1, <1>2, <1>3, <1>4, <1>5, InjectTyped

LEMMA DurableInitInv == DurableInit => DurableInv
<1> SUFFICES ASSUME DurableInit PROVE DurableInv
  OBVIOUS
<1>1. IInv
  BY InitIInv DEF DurableInit
<1>2. Committed = InitialMarking
  BY InitRefines DEF DurableInit, Abstract!Init
<1>3. QED
  BY <1>1, <1>2, ReplayOfNothing DEF DurableInit, DurableInv, ReplayIsCommitted

LEMMA DurableStepInv ==
  ASSUME Replayable, DurableInv, [DurableNext]_<<vars, durable>>
  PROVE  DurableInv'
<1>1. CASE RuntimeStep
  <2>1. IInv'
    BY <1>1, RuntimeStepIsNext, StepIInv DEF DurableInv
  <2>2. Recorded
    BY <1>1, <2>1, RuntimeStepRecorded DEF DurableInv
  <2>3. CASE log' = log /\ Committed' = Committed
    BY <2>1, <2>3 DEF DurableInv, ReplayIsCommitted
  <2>4. ASSUME NEW e \in StoredEvent, log' = Append(log, e),
               Committed' = Effect(Committed, e)
        PROVE  DurableInv'
    <3>1. OneFold(log') /\ Replay(log') = Effect(Replay(log), e)
      BY <2>4, ReplayAppend DEF DurableInv
    <3>2. log' \in Seq(StoredEvent)
      BY <2>4 DEF DurableInv
    <3>3. Replay(log') = Committed'
      BY <2>4, <3>1 DEF DurableInv, ReplayIsCommitted
    <3>4. QED
      BY <2>1, <3>1, <3>2, <3>3 DEF DurableInv, ReplayIsCommitted
  <2>5. QED
    BY <2>2, <2>3, <2>4 DEF Recorded
<1>2. CASE Crash
  <2>1. log' = log /\ Restarted
    BY <1>2 DEF Crash
  <2>2. Replay(log') \in Marking
    BY <2>1, CommittedTyped DEF DurableInv, ReplayIsCommitted
  <2>3. IInv' /\ Committed' = Replay(log')
    BY <2>1, <2>2, RestartedIsFresh
  <2>4. QED
    BY <2>1, <2>3 DEF DurableInv, ReplayIsCommitted
<1>3. ASSUME NEW c \in Client, NEW a \in Arrivals, CrashInBatch(c, a)
      PROVE  DurableInv'
  <2>1. PICK b \in Parts(a) :
           /\ InjectionEntry(b) \in StoredEvent
           /\ log' = Append(log, InjectionEntry(b))
           /\ Replay(log') \in Marking
           /\ OneFold(log')
    BY <1>3, CrashInBatchLogs
  <2>2. IInv' /\ Committed' = Replay(log')
    BY <1>3, <2>1, RestartedIsFresh DEF CrashInBatch
  <2>3. log' \in Seq(StoredEvent)
    BY <2>1 DEF DurableInv
  <2>4. QED
    BY <2>1, <2>2, <2>3 DEF DurableInv, ReplayIsCommitted
<1>4. CASE UNCHANGED <<vars, durable>>
  <2>1. IInv'
    BY <1>4, StepIInv DEF DurableInv
  <2>2. Committed' = Committed /\ log' = log
    BY <1>4 DEF vars, durable, Committed, Active
  <2>3. QED
    BY <2>1, <2>2 DEF DurableInv, ReplayIsCommitted
<1>5. QED
  BY <1>1, <1>2, <1>3, <1>4 DEF DurableNext

(* Wherever the process is killed, the log replays to the committed        *)
(* marking, if no transition reads a place it consumes from, no scope      *)
(* resolver raises, and no journal write raises in the middle of a batch.  *)
THEOREM ReplayIsExact ==
  ASSUME Replayable
  PROVE  DurableSpec => []ReplayIsCommitted
<1>1. DurableInit => DurableInv
  BY DurableInitInv
<1>2. DurableInv /\ [DurableNext]_<<vars, durable>> => DurableInv'
  BY DurableStepInv
<1>3. DurableInv => ReplayIsCommitted
  BY DEF DurableInv
<1>4. QED
  BY <1>1, <1>2, <1>3, PTL DEF DurableSpec

LEMMA DurableStepRefines ==
  ASSUME Replayable, DurableInv, DurableInv', [DurableNext]_<<vars, durable>>
  PROVE  [Durably!Next]_(Replay(log))
<1>1. Replay(log) = Committed /\ Replay(log') = Committed'
  BY DEF DurableInv, ReplayIsCommitted
<1>2. CASE RuntimeStep
  <2>1. [Abstract!Next]_Committed
    BY <1>2, RuntimeStepIsNext, StepRefines DEF DurableInv, Replayable
  <2>2. ASSUME NEW t \in Transition, Abstract!Fire(t)
        PROVE  Durably!Fire(t)
    BY <1>1, <2>2 DEF Abstract!Fire, Durably!Fire, Abstract!Add, Durably!Add,
       Abstract!Remove, Durably!Remove
  <2>3. ASSUME NEW a \in Arrivals, Abstract!Arrive(a)
        PROVE  a \in Pieces /\ Durably!Arrive(a)
    BY <1>1, <2>3 DEF Abstract!Arrive, Durably!Arrive, Abstract!Inject,
       Durably!Inject, Pieces
  <2>4. QED
    BY <1>1, <2>1, <2>2, <2>3 DEF Abstract!Next, Durably!Next
<1>3. CASE Crash
  BY <1>3 DEF Crash
<1>4. ASSUME NEW c \in Client, NEW a \in Arrivals, CrashInBatch(c, a)
      PROVE  Durably!Next
  <2>1. PICK b \in Parts(a) : Replay(log') = Inject(Replay(log), b)
    BY <1>4, CrashInBatchLogs
  <2>2. b \in Pieces
    BY DEF Pieces
  <2>3. Durably!Arrive(b)
    BY <2>1 DEF Durably!Arrive, Durably!Inject, Inject
  <2>4. QED
    BY <2>2, <2>3 DEF Durably!Next
<1>5. CASE UNCHANGED <<vars, durable>>
  BY <1>5 DEF durable
<1>6. QED
  BY <1>2, <1>3, <1>4, <1>5 DEF DurableNext

(* Under the same conditions, the marking the log stands for is that of an *)
(* atomic net through every kill and restart.                              *)
THEOREM LogIsAtomic ==
  ASSUME Replayable
  PROVE  DurableSpec => DurablyAtomic
<1>1. DurableInit => DurableInv /\ Durably!Init
  BY DurableInitInv, ReplayOfNothing DEF DurableInit, Durably!Init
<1>2. DurableInv /\ [DurableNext]_<<vars, durable>> => DurableInv'
  BY DurableStepInv
<1>3. DurableInv /\ DurableInv' /\ [DurableNext]_<<vars, durable>>
        => [Durably!Next]_(Replay(log))
  BY DurableStepRefines
<1>4. QED
  BY <1>1, <1>2, <1>3, PTL DEF DurableSpec, Durably!Spec, DurablyAtomic
=============================================================================
