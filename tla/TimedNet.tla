------------------------------- MODULE TimedNet -------------------------------
(***************************************************************************)
(* What a Runtime promises about timed transitions: the net is the atomic  *)
(* net, and a timed transition commits a firing only once real time has    *)
(* reached the maturity of the tokens it takes.  The clock places, which   *)
(* the Runtime writes on its own, are hidden.                              *)
(***************************************************************************)
EXTENDS PetriNet

CONSTANTS InitialMarking, Arrivals,
          MaturityOf   \* timed transition -> binding -> its maturity

VARIABLES committed, now

net == <<committed, now>>

Init == committed = InitialMarking /\ now = 0

Mature(t, b) == t \in DOMAIN MaturityOf => MaturityOf[t][b] <= now

Fire(t) ==
  \E b \in Bindings[t], d \in Deposits[t] :
    /\ Mature(t, b)
    /\ \A p \in Place, v \in Token : b.take[p][v] <= committed[p][v]
    /\ committed' = Add(Remove(committed, b.take), d)
    /\ UNCHANGED now

Arrive(a) == committed' = Inject(committed, a) /\ UNCHANGED now

Tick == now' = now + 1 /\ UNCHANGED committed

Next ==
  \/ \E t \in Transition : Fire(t)
  \/ \E a \in Arrivals : Arrive(a)
  \/ Tick

Spec == Init /\ [][Next]_net
=============================================================================
