----------------------------- MODULE ArcBindings ----------------------------
(***************************************************************************)
(* The token choices a transition's arcs admit, from the arcs themselves:  *)
(* each binding arc picks a bag of weight tokens it matches, picks on one  *)
(* place add up, and the consume-mode picks are what a firing removes.     *)
(***************************************************************************)
EXTENDS PetriNet, FiniteSetsExt

BindingArcs(t) == {a \in InArcs[t] : a.mode # "inhibit"}

(* The picks of one arc: weight tokens of its type that pass its filter.   *)
ArcPicks(a) ==
  {g \in [Token -> 0..a.weight] :
     /\ MapThenSumSet(LAMBDA v : g[v], Token) = a.weight
     /\ \A v \in Token \ a.match : g[v] = 0}

ArcChoices(t) ==
  {c \in [BindingArcs(t) -> UNION {ArcPicks(a) : a \in BindingArcs(t)}] :
     \A a \in BindingArcs(t) : c[a] \in ArcPicks(a)}

PickedBy(c, t, mode) ==
  [p \in Place |-> [v \in Token |->
     MapThenSumSet(LAMBDA a : c[a][v],
                   {a \in BindingArcs(t) : a.mode = mode /\ a.place = p})]]

BlockedBy(t) ==
  [p \in Place |->
     UNION {a.match : a \in {x \in InArcs[t] : x.mode = "inhibit" /\ x.place = p}}]

ArcBindings(t) ==
  {[take |-> PickedBy(c, t, "consume"), read |-> PickedBy(c, t, "read"),
    block |-> BlockedBy(t)] : c \in ArcChoices(t)}
=============================================================================
