------------------------------ MODULE Account ------------------------------
(***************************************************************************)
(* explain_net: what the account of a net tells, paragraph by paragraph.   *)
(* Wording, headings, quoting and the section for newcomers are left out;  *)
(* a sentence is what it depends on, and one that is not written is an     *)
(* empty set.  A net document has a marking exactly when it marks a place. *)
(***************************************************************************)
EXTENDS Composition

Told(x, member) ==
  {<<a[2], a[3]>> : a \in {b \in x.attributes : b[1] = member}}

(* The payload of the DSL is kept among the annotations and not told.      *)
CoreAnnotations(x) == Told(x, "documentation.annotation")

Overview(net) ==
  [places |-> Len(net.places), transitions |-> Len(net.transitions),
   arcs |-> Len(net.arcs), description |-> net.description,
   annotations |-> {<<a[2], a[3]>> : a \in net.annotations}]

(* Marked places, in the order of the places.                              *)
MarkingTold(net) ==
  LET marked == Subsequence(net.places, {i \in DOMAIN net.places :
                                           net.places[i].name \in DOMAIN net.marking})
  IN  [i \in DOMAIN marked |-> <<marked[i].name, net.marking[marked[i].name]>>]

PlacePhrase(place) ==
  [place |-> place.name, accepts |-> place.accepts, port |-> place.port,
   capacity |-> place.capacity,
   description |-> Told(place, "documentation.description"),
   annotations |-> CoreAnnotations(place)]

ArcMetadataClause(arc) ==
  [description |-> Told(arc, "documentation.description"),
   annotations |-> CoreAnnotations(arc)]

(* An inhibit check is told without a weight, and is the only clause with  *)
(* a correlate.                                                            *)
InputClause(net, arc) ==
  [source |-> PlacePhrase(PlaceOf(net, arc.from[2])),
   mode |-> arc.mode, type |-> arc.color, predicate |-> arc.filter,
   weight |-> IF arc.mode = "inhibit" THEN {} ELSE {arc.weight},
   correlate |-> IF arc.mode = "inhibit" THEN arc.correlate ELSE {},
   metadata |-> ArcMetadataClause(arc)]

(* Variant: what a template computes is not told.                          *)
OutputClauseOfLiterals(net, arc) ==
  [target |-> PlacePhrase(PlaceOf(net, arc.to[2])),
   type |-> arc.color, destination |-> arc.destination, data |-> arc.data,
   computed |-> {}, metadata |-> ArcMetadataClause(arc)]

(* Computed data is told only where there is no literal data.              *)
OutputClause(net, arc) ==
  [target |-> PlacePhrase(PlaceOf(net, arc.to[2])),
   type |-> arc.color, destination |-> arc.destination, data |-> arc.data,
   computed |-> IF arc.data = {} THEN arc.cel ELSE {},
   metadata |-> ArcMetadataClause(arc)]

InputsOfTransition(net, t) ==
  Subsequence(net.arcs, {i \in DOMAIN net.arcs : net.arcs[i].to = <<"transition", t>>})

OutputsOfTransition(net, t) ==
  Subsequence(net.arcs, {i \in DOMAIN net.arcs : net.arcs[i].from = <<"transition", t>>})

(* A timer's maturity is not told.                                         *)
TimerSentence(t) ==
  {[clock |-> timer.clock, cel |-> timer.cel, bind |-> timer.bind] :
     timer \in t.timer}

TransitionParagraph(net, t) ==
  LET inputs == InputsOfTransition(net, t.name)
      outputs == OutputsOfTransition(net, t.name)
  IN  [heading |-> t.name,
       handler |-> Told(t, "transition.handler"),
       kind |-> CASE inputs = <<>> /\ outputs = <<>> -> "isolated"
                  [] inputs = <<>> /\ outputs # <<>> -> "source"
                  [] inputs # <<>> /\ outputs = <<>> -> "sink"
                  [] OTHER -> "inner",
       guard |-> Told(t, "transition.guard"),
       priority |-> Told(t, "transition.priority"),
       timer |-> TimerSentence(t),
       description |-> Told(t, "documentation.description"),
       annotations |-> CoreAnnotations(t),
       inputs |-> [i \in DOMAIN inputs |-> InputClause(net, inputs[i])],
       outputs |-> [i \in DOMAIN outputs |-> OutputClause(net, outputs[i])]]

StandalonePlaces(net) ==
  LET ends == UNION {{arc.from, arc.to} : arc \in Seqs!ToSet(net.arcs)}
      alone == Subsequence(net.places, {i \in DOMAIN net.places :
                                          <<"place", net.places[i].name>> \notin ends})
  IN  [i \in DOMAIN alone |-> PlacePhrase(alone[i])]

Explained(net) ==
  [name |-> net.name, overview |-> Overview(net),
   marking |-> MarkingTold(net),
   flow |-> [i \in DOMAIN net.transitions |->
               TransitionParagraph(net, net.transitions[i])],
   standalone |-> StandalonePlaces(net)]
=============================================================================
