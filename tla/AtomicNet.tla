------------------------------ MODULE AtomicNet -----------------------------
(***************************************************************************)
(* What a Runtime promises about the marking: however its firings overlap, *)
(* fail, are cancelled or are never run, the committed marking changes     *)
(* only by whole firings and whole arrivals.  A firing takes one binding's *)
(* consumed tokens, all present, and deposits one contract-respecting      *)
(* output in the same step; a firing that does not complete changes        *)
(* nothing.                                                                *)
(*                                                                         *)
(* Read and inhibitor arcs are tested when a firing is admitted, not when  *)
(* it commits, so they are no precondition here.                           *)
(***************************************************************************)
EXTENDS PetriNet

CONSTANTS InitialMarking, Arrivals

VARIABLE committed

Init == committed = InitialMarking

Fire(t) ==
  \E b \in Bindings[t], d \in Deposits[t] :
    /\ \A p \in Place, v \in Token : b.take[p][v] <= committed[p][v]
    /\ committed' = Add(Remove(committed, b.take), d)

Arrive(a) == committed' = Inject(committed, a)

Next ==
  \/ \E t \in Transition : Fire(t)
  \/ \E a \in Arrivals : Arrive(a)

Spec == Init /\ [][Next]_committed
=============================================================================
