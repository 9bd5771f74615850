-------------------------- MODULE BindingSelection --------------------------
(***************************************************************************)
(* How the engine finds a transition's binding: which tokens, by their     *)
(* position in the places, each arc takes.                                 *)
(*                                                                         *)
(* A place is a sequence of tokens here, oldest first.  The combinations   *)
(* of one arc, and the product over the arcs, are walked in the order of   *)
(* Python's itertools; what is written out is which elements of the walk   *)
(* the engine skips, and which it stops at.                                *)
(***************************************************************************)
EXTENDS PetriNet, Sequences, FiniteSetsExt, Subsequences

CONSTANTS
  TransitionOrder,     (* the transitions, in declaration order            *)
  ArcOrder,            (* transition -> its input arcs, as declared        *)
  ClockOf,             (* transition -> the clock place of its timer       *)
  NoClock,             (* the ClockOf of a transition without timer        *)
  Misnamed,            (* names a consumer may give that no transition has *)
  ColorOf(_),          (* input arc -> the tokens of its type              *)
  PredicateOf(_),      (* input arc -> its filter, if it has one: a set of *)
                       (* at most one [kind, equality]; equality is the    *)
                       (* [field, text] of a CEL filter that says no more  *)
                       (* than field == "text", else empty                 *)
  TextAt(_, _),        (* token, field -> the string in the field, if it   *)
                       (* holds one: a set of at most one                  *)
  Evaluated(_, _),     (* input arc, token -> "true", "false", "raises" or *)
                       (* "other": what the CEL adapter, or the predicate  *)
                       (* handler, answers                                 *)
  Correlates(_, _, _), (* inhibit arc, token, bound tokens -> whether the  *)
                       (* token blocks them (uncorrelated arcs: always;    *)
                       (* an expression that fails: yes)                   *)
  TimerHolds(_, _, _), (* transition, clock token, bound tokens            *)
  GuardVerdict(_, _, _)(* transition, bound tokens, attempt ->             *)
                       (* "true", "false" or "raises"                      *)

Seqs == INSTANCE SequencesExt

OrderedMarking == [Place -> Seq(Token)]

NoBound == [p \in Place |-> <<>>]

Verdict == {"true", "false", "raises"}

ASSUME SelectionAssumption ==
  /\ TransitionOrder \in Seq(Transition)
  /\ Seqs!ToSet(TransitionOrder) = Transition
  /\ Len(TransitionOrder) = Cardinality(Transition)
  /\ \A t \in Transition :
       /\ ArcOrder[t] \in Seq(InArcs[t])
       /\ Seqs!ToSet(ArcOrder[t]) = InArcs[t]
       /\ Len(ArcOrder[t]) = Cardinality(InArcs[t])
       /\ ClockOf[t] \in Place \cup {NoClock}
  /\ Misnamed \cap Transition = {}

-----------------------------------------------------------------------------
(* Bags of ordered places.                                                 *)

CountOf(s, v) == Cardinality({i \in DOMAIN s : s[i] = v})

BagOf(m) == [p \in Place |-> [v \in Token |-> CountOf(m[p], v)]]

-----------------------------------------------------------------------------
(* Filters.                                                                *)

(* An equality is looked up in the token where the token has a string; all *)
(* else is evaluated, and only the answer true lets the token pass.        *)
EvalPredicate(a, v) ==
  \A predicate \in PredicateOf(a) :
    LET lookedUp == {e \in predicate.equality : TextAt(v, e.field) # {}}
    IN  IF lookedUp # {} THEN \A e \in lookedUp : TextAt(v, e.field) = {e.text}
        ELSE Evaluated(a, v) = "true"

TokenMatches(a, v) == v \in ColorOf(a) /\ EvalPredicate(a, v)

-----------------------------------------------------------------------------
(* Choices: for each binding arc the positions it takes.                   *)

BindingArcs ==
  [t \in Transition |-> Among(ArcOrder[t], {a \in InArcs[t] : a.mode # "inhibit"})]

(* The combinations of weight matching tokens of an arc's place.           *)
ArcCandidates(a, m) ==
  {c \in kSubset(a.weight, DOMAIN m[a.place]) :
     \A i \in c : TokenMatches(a, m[a.place][i])}

Product(t, m) ==
  LET arcs == BindingArcs[t]
  IN  {c \in [DOMAIN arcs -> UNION {ArcCandidates(arcs[k], m) : k \in DOMAIN arcs}] :
         \A k \in DOMAIN arcs : c[k] \in ArcCandidates(arcs[k], m)}

(* The order of combinations(): that of the sorted positions.              *)
Earlier(c, d) == c # d /\ Min((c \ d) \cup (d \ c)) \in c

(* The order of product(): the last arc's combination changes fastest.     *)
Before(c, d) ==
  \E k \in DOMAIN c : Earlier(c[k], d[k]) /\ \A j \in 1..(k - 1) : c[j] = d[j]

First(choices) ==
  CHOOSE c \in choices : \A d \in choices \ {c} : Before(c, d)

(* The tokens of a choice by place, concatenated in arc order, of the arcs *)
(* of the given modes.                                                     *)
TokensOf(t, c, m, modes) ==
  LET arcs == BindingArcs[t]
      upTo[k \in 0..Len(arcs)] ==
        IF k = 0 THEN NoBound
        ELSE IF arcs[k].mode \notin modes THEN upTo[k - 1]
        ELSE [upTo[k - 1] EXCEPT
                ![arcs[k].place] = @ \o Subsequence(m[arcs[k].place], c[k])]
  IN  upTo[Len(arcs)]

Bound(t, c, m)    == TokensOf(t, c, m, {"consume", "read"})
Consumed(t, c, m) == TokensOf(t, c, m, {"consume"})

-----------------------------------------------------------------------------
(* The tests a choice must pass, in the order in which they are made.      *)

(* Variant: each token is looked for without removing those before it.     *)
IsPresent(bound, m) ==
  \A p \in Place, v \in Token : CountOf(bound[p], v) > 0 => CountOf(m[p], v) > 0

(* The choice may name one position twice, as long as the place holds that *)
(* many equal tokens.                                                      *)
IsSubmultiset(bound, m) ==
  \A p \in Place, v \in Token : CountOf(bound[p], v) <= CountOf(m[p], v)

InhibitSatisfied(t, bound, m) ==
  \A a \in {x \in InArcs[t] : x.mode = "inhibit"} : \A i \in DOMAIN m[a.place] :
    TokenMatches(a, m[a.place][i]) => ~Correlates(a, m[a.place][i], bound)

(* An empty clock place means that no time has come.                       *)
TimerSatisfied(t, bound, m) ==
  \/ ClockOf[t] = NoClock
  \/ m[ClockOf[t]] # <<>> /\ TimerHolds(t, Head(m[ClockOf[t]]), bound)

Viable(t, m) ==
  {c \in Product(t, m) :
     LET bound == Bound(t, c, m)
     IN  /\ IsSubmultiset(bound, m)
         /\ InhibitSatisfied(t, bound, m)
         /\ TimerSatisfied(t, bound, m)}

(* The binding, if there is one.  A guard that raises ends the search, a   *)
(* guard that refuses lets it go on.                                       *)
SelectBinding(t, m, attempt) ==
  LET Ask(c) == GuardVerdict(t, Bound(t, c, m), attempt)
      open   == {c \in Viable(t, m) : Ask(c) # "false"}
      first  == First(open)
  IN  IF open = {} \/ Ask(first) = "raises" THEN {}
      ELSE {[tokens |-> Bound(t, first, m), consumed |-> Consumed(t, first, m)]}

-----------------------------------------------------------------------------

(* Variant: a transition without binding arcs is a candidate of no place.  *)
IsCandidateOfAPlace(t, m) ==
  /\ BindingArcs[t] # <<>>
  /\ m[Head(BindingArcs[t]).place] # <<>>

(* Only transitions whose first binding arc finds its place occupied are   *)
(* probed, and those without binding arcs.                                 *)
IsCandidate(t, m) ==
  BindingArcs[t] # <<>> => m[Head(BindingArcs[t]).place] # <<>>

(* Variant: the probe does not pass the attempt on.                        *)
EnabledAtFirstAttempt(m, attempt) ==
  Among(TransitionOrder,
        {t \in Transition : IsCandidate(t, m) /\ SelectBinding(t, m, 0) # {}})

EnabledTransitions(m, attempt) ==
  Among(TransitionOrder,
        {t \in Transition : IsCandidate(t, m) /\ SelectBinding(t, m, attempt) # {}})
=============================================================================
