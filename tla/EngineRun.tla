------------------------------ MODULE EngineRun ------------------------------
(***************************************************************************)
(* The synchronous engine, called by one consumer: fire, inject_token,     *)
(* inject_tokens, tick, and the selection loop run, whose steps each probe *)
(* the transitions, let the policy choose, and fire.                       *)
(*                                                                         *)
(* A journal is attached; tape is what it has received.  The policy is the *)
(* built-in priority policy, which is first-found when the priorities are  *)
(* equal.  Handlers answer as they like.                                   *)
(***************************************************************************)
EXTENDS BindingSelection

CONSTANTS
  InitialMarking, (* the marking the consumer starts with                  *)
  Accepts,        (* place -> the tokens whose type it accepts             *)
  Templates,      (* transition -> its produce templates, as declared      *)
  Outputs,        (* transition -> the outputs its handler may return      *)
  Computed(_, _), (* template, bound tokens -> the token its cel computes  *)
  CelError,       (* the Computed of an expression that fails              *)
  Handlerless,    (* transitions without a registered handler              *)
  MayFail,        (* transitions whose handler may report a failure        *)
  MayRaise,       (* transitions whose handler may raise                   *)
  DepositModes,   (* the deposit_violation modes to construct engines with *)
  Priority,       (* transition -> declared priority                       *)
  Budget,         (* max_consecutive_failures, 0 for none                  *)
  Arrivals,       (* what the consumer injects                             *)
  MaxSteps,       (* max_steps of a run                                    *)
  MaxCalls        (* bound: calls the consumer makes                       *)

VARIABLES
  deposit_violation, (* the engine's argument of this name              *)
  marking,  (* the marking: current inside run, the consumer's outside     *)
  phase,    (* whether run is under way, or an exception has left it       *)
  steps, failures, \* the locals of run
  tape,     (* the records emitted                                         *)
  calls

vars == <<deposit_violation, marking, phase, steps, failures, tape, calls>>

DepositMode == {"raise", "record_then_raise", "record_then_drop"}

(* type is the set of tokens of the template's type.                       *)
Template ==
  [place : Place, type : SUBSET Token, fallback : {"none", "data", "cel"},
   data : Token]

Placement == [place : Place, token : Token]

(* The engine checks what handlers and the environment put into a marking, *)
(* not the marking it starts with: the consumer's tokens are of accepted   *)
(* types, as those of a compiled net are.                                  *)
ASSUME EngineAssumption ==
  /\ InitialMarking \in OrderedMarking
  /\ \A p \in Place : /\ Accepts[p] \subseteq Token
                      /\ \A i \in DOMAIN InitialMarking[p] : InitialMarking[p][i] \in Accepts[p]
  /\ \A t \in Transition :
       /\ Templates[t] \in Seq(Template)
       /\ Outputs[t] \subseteq OrderedMarking
       /\ Priority[t] \in Int
       /\ OutArcs[t] = {Templates[t][k].place : k \in DOMAIN Templates[t]}
       /\ \A k \in DOMAIN Templates[t] :
            /\ Templates[t][k].type \subseteq Accepts[Templates[t][k].place]
            /\ Templates[t][k].fallback = "data" => Templates[t][k].data \in Templates[t][k].type
  /\ DepositModes \subseteq DepositMode
  /\ {Budget, MaxSteps, MaxCalls} \subseteq Nat
  /\ \A a \in Arrivals : /\ a.placements \in Seq(Placement) /\ a.replace \in BOOLEAN
                         /\ a.replace => Len(a.placements) = 1

-----------------------------------------------------------------------------
(* Consume and deposit.                                                    *)

RemoveEach(s, taken) ==
  LET after[k \in 0..Len(taken)] ==
        IF k = 0 THEN s ELSE Seqs!RemoveFirst(after[k - 1], taken[k])
  IN  after[Len(taken)]

(* Each bound token goes once, the oldest of its equals first.             *)
ConsumeTokens(m, taken) == [p \in Place |-> RemoveEach(m[p], taken[p])]

ApplyDeposit(m, deposited) == [p \in Place |-> m[p] \o deposited[p]]

(* Variant: a destination one template declares may receive any type.      *)
UndeclaredPlace(t, out) ==
  \E p \in Place : out[p] # <<>>
    /\ \A k \in DOMAIN Templates[t] : Templates[t][k].place # p

(* Some handler token has a place and type that no template declares.      *)
DetectViolation(t, out) ==
  \E p \in Place : \E i \in DOMAIN out[p] : \A k \in DOMAIN Templates[t] :
    ~(Templates[t][k].place = p /\ out[p][i] \in Templates[t][k].type)

(* The templates for which the handler supplied nothing, as declared.      *)
Unsupplied(t, out) ==
  LET Supplied(a) == \E i \in DOMAIN out[a.place] : out[a.place][i] \in a.type
  IN  Subsequence(Templates[t],
                  {k \in DOMAIN Templates[t] : /\ Templates[t][k].fallback # "none"
                                               /\ ~Supplied(Templates[t][k])})

FallbackToken(a, bound) ==
  IF a.fallback = "data" THEN a.data ELSE Computed(a, bound)

CelFails(t, out, bound) ==
  \E a \in Seqs!ToSet(Unsupplied(t, out)) : FallbackToken(a, bound) = CelError

Deposited(t, out, bound) ==
  LET lacking == Unsupplied(t, out)
      At(p) == Subsequence(lacking, {k \in DOMAIN lacking : lacking[k].place = p})
  IN  [p \in Place |->
         out[p] \o [k \in DOMAIN At(p) |-> FallbackToken(At(p)[k], bound)]]

BreaksContract(t, out, bound) ==
  DetectViolation(t, out) \/ CelFails(t, out, bound)

-----------------------------------------------------------------------------
(* fire.                                                                   *)

FiringRecord(t, attempt, error, input, output) ==
  [kind |-> "firing", t |-> t, attempt |-> attempt, error |-> error,
   input |-> input, output |-> output]

ViolationRecord(t, attempt) ==
  [kind |-> "violation", t |-> t, attempt |-> attempt,
   error |-> "DepositViolation", input |-> NoBound, output |-> NoBound]

Record(e) == tape' = Append(tape, e)

Completes(t, attempt) ==
  /\ t \notin Handlerless
  /\ \E b \in SelectBinding(t, marking, attempt), out \in Outputs[t] :
       /\ ~BreaksContract(t, out, b.tokens)
       /\ marking' = ApplyDeposit(ConsumeTokens(marking, b.consumed),
                                  Deposited(t, out, b.tokens))
       /\ Record(FiringRecord(t, attempt, "none", b.tokens,
                              Deposited(t, out, b.tokens)))

Errors(t, attempt) ==
  IF SelectBinding(t, marking, attempt) = {} THEN {"NotEnabled"}
  ELSE IF t \in Handlerless THEN {"HandlerNotFound"}
  ELSE IF t \in MayFail THEN {"handler"} ELSE {}

Fails(t, attempt) ==
  /\ \E e \in Errors(t, attempt) :
       Record(FiringRecord(t, attempt, e, NoBound, NoBound))
  /\ UNCHANGED marking

Violation(t, attempt) ==
  /\ t \notin Handlerless
  /\ \E b \in SelectBinding(t, marking, attempt), out \in Outputs[t] :
       BreaksContract(t, out, b.tokens)

Drops(t, attempt) ==
  /\ deposit_violation = "record_then_drop"
  /\ Violation(t, attempt)
  /\ Record(ViolationRecord(t, attempt))
  /\ UNCHANGED marking

(* fire does not catch what a handler raises.                              *)
Raises(t, attempt) ==
  /\ \/ deposit_violation = "raise" /\ Violation(t, attempt) /\ UNCHANGED tape
     \/ /\ deposit_violation = "record_then_raise" /\ Violation(t, attempt)
        /\ Record(ViolationRecord(t, attempt))
     \/ /\ t \in MayRaise \ Handlerless
        /\ SelectBinding(t, marking, attempt) # {}
        /\ UNCHANGED tape
  /\ UNCHANGED marking

-----------------------------------------------------------------------------
(* run.                                                                    *)

NoFailures == [t \in Transition |-> 0]

(* Variant: a completion clears only its own transition's count.           *)
ClearedByOwn(t) == [failures EXCEPT ![t] = 0]

Cleared(t) == NoFailures

Selectable ==
  Among(EnabledTransitions(marking, steps),
        {t \in Transition : Budget = 0 \/ failures[t] < Budget})

(* The highest priority, and the first declared of those that have it.     *)
Choice(enabled) ==
  enabled[CHOOSE i \in DOMAIN enabled : \A j \in DOMAIN enabled :
            \/ Priority[enabled[j]] < Priority[enabled[i]]
            \/ Priority[enabled[j]] = Priority[enabled[i]] /\ i <= j]

RunFires ==
  /\ phase = "running" /\ steps < MaxSteps /\ Selectable # <<>>
  /\ LET t == Choice(Selectable) IN
     \/ /\ Completes(t, steps)
        /\ failures' = Cleared(t)
        /\ steps' = steps + 1
        /\ UNCHANGED phase
     \/ /\ Fails(t, steps) \/ Drops(t, steps)
        /\ failures' = [failures EXCEPT ![t] = @ + 1]
        /\ steps' = steps + 1
        /\ UNCHANGED phase
     \/ /\ Raises(t, steps)
        /\ phase' = "raised"
        /\ UNCHANGED <<steps, failures>>
  /\ UNCHANGED <<deposit_violation, calls>>

RunReturns ==
  /\ phase = "running"
  /\ steps = MaxSteps \/ Selectable = <<>>
  /\ phase' = "idle"
  /\ UNCHANGED <<deposit_violation, marking, steps, failures, tape, calls>>

-----------------------------------------------------------------------------
(* The consumer's calls.                                                   *)

Calls ==
  /\ phase = "idle" /\ calls < MaxCalls
  /\ calls' = calls + 1
  /\ UNCHANGED deposit_violation

StartsRun == phase' = "running" /\ steps' = 0 /\ failures' = NoFailures

CallRun ==
  Calls /\ StartsRun /\ UNCHANGED <<marking, tape>>

(* A name no transition has would look like a source transition: the call  *)
(* ends with UnknownTransitionError before any binding is looked for.      *)
RequireTransition(t) == t \in Transition

CallFire(t) ==
  /\ Calls
  /\ IF RequireTransition(t)
     THEN Completes(t, 0) \/ Fails(t, 0) \/ Drops(t, 0) \/ Raises(t, 0)
     ELSE UNCHANGED <<marking, tape>>
  /\ UNCHANGED <<phase, steps, failures>>

(* All placements are validated before anything is recorded or changed.    *)
Valid(a) ==
  \A k \in DOMAIN a.placements :
    a.placements[k].token \in Accepts[a.placements[k].place]

Injected(m, a) ==
  [p \in Place |->
     LET new == Subsequence(a.placements,
                            {k \in DOMAIN a.placements : a.placements[k].place = p})
         tokens == [k \in DOMAIN new |-> new[k].token]
     IN  IF a.replace /\ new # <<>> THEN tokens ELSE m[p] \o tokens]

(* One record for each token, in the order of the placements.              *)
InjectionRecords(a) ==
  [k \in DOMAIN a.placements |->
     [kind |-> "injection", place |-> a.placements[k].place,
      token |-> a.placements[k].token, replace |-> a.replace]]

Injects(a) ==
  /\ Valid(a)
  /\ marking' = Injected(marking, a)
  /\ tape' = tape \o InjectionRecords(a)

(* A refused injection raises ValueError at the caller.                    *)
CallInject(a) ==
  /\ Calls
  /\ Injects(a) \/ (~Valid(a) /\ UNCHANGED <<marking, tape>>)
  /\ UNCHANGED <<phase, steps, failures>>

(* tick: replace the clock token, then run.                                *)
CallTick(a) == Calls /\ a.replace /\ Injects(a) /\ StartsRun

Init ==
  /\ deposit_violation \in DepositModes
  /\ marking = InitialMarking
  /\ phase = "idle"
  /\ steps = 0
  /\ failures = NoFailures
  /\ tape = <<>>
  /\ calls = 0

Next ==
  \/ RunFires
  \/ RunReturns
  \/ CallRun
  \/ \E t \in Transition \cup Misnamed : CallFire(t)
  \/ \E a \in Arrivals : CallInject(a) \/ CallTick(a)

Spec == Init /\ [][Next]_vars
-----------------------------------------------------------------------------
(* Properties.                                                             *)

(* No sequence of firings, fallbacks and injections, the refused ones      *)
(* included, puts a token into a place that does not accept its type.      *)
OnlyAcceptedTokens ==
  \A p \in Place : \A i \in DOMAIN marking[p] : marking[p][i] \in Accepts[p]

(* An assignment of tokens, which the arcs' declarations match, to the     *)
(* arcs, in which no token of the marking is used twice, and which every   *)
(* test of the transition passes.                                          *)
ExistsBinding(t, m, attempt) ==
  LET arcs == BindingArcs[t]
      positions == [k \in DOMAIN arcs |->
                      {i \in DOMAIN m[arcs[k].place] :
                         m[arcs[k].place][i] \in arcs[k].match}]
  IN
  \E c \in [DOMAIN arcs -> UNION {SUBSET positions[k] : k \in DOMAIN arcs}] :
    LET bound == Bound(t, c, m) IN
    /\ \A k \in DOMAIN arcs :
         c[k] \subseteq positions[k] /\ Cardinality(c[k]) = arcs[k].weight
    /\ \A j, k \in DOMAIN arcs :
         j # k /\ arcs[j].place = arcs[k].place => c[j] \cap c[k] = {}
    /\ InhibitSatisfied(t, bound, m)
    /\ TimerSatisfied(t, bound, m)
    /\ GuardVerdict(t, bound, attempt) = "true"

(* enabled_transitions names exactly the transitions that have a binding,  *)
(* although it probes only those one place speaks for, and although        *)
(* _select_binding admits choices that use a token's position twice.       *)
EnablementIsExact ==
  \A t \in Transition :
    t \in Seqs!ToSet(EnabledTransitions(marking, steps))
      <=> ExistsBinding(t, marking, steps)

(* How often t has failed in this run since the last completed firing, by  *)
(* the tape: each step of run leaves one record.                           *)
FailuresSince(t) ==
  Cardinality({i \in (Len(tape) - steps + 1)..Len(tape) :
    /\ tape[i].t = t
    /\ \A j \in i..Len(tape) : tape[j].error # "none"})

(* run ends before max_steps only when every transition that still has a   *)
(* binding has used up its budget, and used up exactly that, since the     *)
(* marking last changed.                                                   *)
RunStopsForAReason ==
  [][phase = "running" /\ phase' = "idle" =>
       \/ steps = MaxSteps
       \/ \A t \in Transition : SelectBinding(t, marking, steps) # {} =>
            Budget # 0 /\ FailuresSince(t) = Budget]_vars

(* Guards may depend on the attempt; run probes and fires with the same    *)
(* one, so it never fires a transition that is not enabled.                *)
ProbeAgreesWithFire ==
  [][phase = "running" /\ tape' # tape => tape'[Len(tape')].error # "NotEnabled"]_vars

BagArrival(a) ==
  [places |-> {a.placements[k].place : k \in DOMAIN a.placements},
   add |-> BagOf(Injected(NoBound, a)), replace |-> a.replace]

Atomic == INSTANCE AtomicNet
  WITH committed <- BagOf(marking), InitialMarking <- BagOf(InitialMarking),
       Arrivals <- {BagArrival(a) : a \in {x \in Arrivals : Valid(x)}}

(* Whatever order the search and the removal go in, a call changes the     *)
(* marking only by whole firings, of bindings the arcs admit, and whole    *)
(* arrivals; every failure leaves it alone.                                *)
ImplementsAtomicNet == Atomic!Spec
=============================================================================
