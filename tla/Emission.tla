------------------------------ MODULE Emission -----------------------------
(***************************************************************************)
(* emit_petrinet: the statements it writes for a resolved net document,    *)
(* so that the compiler can be asked what it makes of them.                *)
(*                                                                         *)
(* What a statement spells is left out: names are assumed to need the same *)
(* quoting in every statement.  Facts of one section are written in no     *)
(* particular order.                                                       *)
(***************************************************************************)
EXTENDS Contributions

CONSTANTS
  GeneratedHandles,   (* arc_0, arc_1, ...: one per index, from 1           *)
  GeneratedTemplates  (* token_0, token_1, ...: one per token              *)

Sets == INSTANCE FiniteSetsExt

InSomeOrder(S) == Sets!FoldSet(LAMBDA x, s : Append(s, x), <<>>, S)

(* What was lowered from a JSON text is written as its canonical one.      *)
Spelled(member, value) ==
  CASE member \in JsonMembers -> Rendered(value)
    [] member = "arc.weight" -> Integral(value)
    [] OTHER -> value

FactsOf(member, object, values) ==
  {Fact(member, object, "", Spelled(member, v)) : v \in values}

CarriedFacts(object, attributes) ==
  {Fact(a[1], object, a[2], Spelled(a[1], a[3])) : a \in attributes}

HasPayload(net) ==
  net.handles # {} \/ net.views # {} \/ net.extensions # {} \/ net.named # <<>>

AuthoredAt(net, i) == {h.name : h \in {x \in net.handles : x.index = i}}

(* The handle an elaborated arc is written under: the authored one where   *)
(* the payload keeps it, else one named after the arc's index.             *)
HandleFor(net, i) ==
  IF AuthoredAt(net, i) # {} THEN Elem(AuthoredAt(net, i)) ELSE GeneratedHandles[i]

-----------------------------------------------------------------------------
(* Chains, one per arc; without a payload a plain consume arc takes the    *)
(* produce arc that follows it along.                                      *)

Plain(arc) ==
  arc.mode = "consume" /\ arc.filter = {} /\ arc.weight = 1

Joined(net, i) ==
  /\ ~HasPayload(net)
  /\ Plain(net.arcs[i])
  /\ i < Len(net.arcs)
  /\ ~IsInput(net.arcs[i + 1])
  /\ net.arcs[i + 1].from = net.arcs[i].to

(* The arcs the chain that starts at arc i is made of.                     *)
ChainSpan(net, i) == IF Joined(net, i) THEN {i, i + 1} ELSE {i}

ChainStarts(net) ==
  LET starts == Seqs!FoldLeft(
        LAMBDA s, i : IF s # <<>> /\ i \in ChainSpan(net, s[Len(s)]) THEN s
                      ELSE Append(s, i),
        <<>>, [i \in DOMAIN net.arcs |-> i])
  IN  starts

(* The index whose handle the chain is given, if it needs one.             *)
HandleIndex(net, i) ==
  LET arc == net.arcs[i]
      computed(a) == a.data # {} \/ a.cel # {}
  IN  IF IsInput(arc)
      THEN IF \/ AuthoredAt(net, i) # {} \/ arc.correlate # {}
              \/ arc.weight > 1 \/ arc.filter # {}
           THEN {i}
           ELSE IF Joined(net, i) /\ computed(net.arcs[i + 1]) THEN {i + 1} ELSE {}
      ELSE IF computed(arc) \/ AuthoredAt(net, i) # {} THEN {i} ELSE {}

(* Compact output writes a bare arrow for a default arc at a place of one  *)
(* color that another arc is evidence of.                                  *)
Default(arc) ==
  IF IsInput(arc) THEN Plain(arc) /\ arc.correlate = {}
  ELSE arc.data = {} /\ arc.cel = {}

PlaceAt(arc) == IF IsInput(arc) THEN arc.from[2] ELSE arc.to[2]

Eligible(net, i) ==
  Default(net.arcs[i]) /\ PlaceOf(net, PlaceAt(net.arcs[i])).accepts = <<net.arcs[i].color>>

SameColorAndPlace(a, b) == PlaceAt(a) = PlaceAt(b) /\ a.color = b.color

Elided(net) ==
  {i \in DOMAIN net.arcs :
     /\ Eligible(net, i)
     /\ \E j \in DOMAIN net.arcs :
          /\ SameColorAndPlace(net.arcs[i], net.arcs[j])
          /\ ~Eligible(net, j) \/ j < i}

Segment(net, compact, i) ==
  LET arc == net.arcs[i]
      transition == IF IsInput(arc) THEN arc.to[2] ELSE arc.from[2]
  IN  [mode |-> arc.mode, place |-> PlaceAt(arc), transition |-> transition,
       color |-> IF compact /\ i \in Elided(net) THEN "token" ELSE arc.color]

Chain(net, compact, i) ==
  [kind |-> "chain",
   handle |-> {HandleFor(net, k) : k \in HandleIndex(net, i)},
   segments |-> IF Joined(net, i)
                THEN <<Segment(net, compact, i), Segment(net, compact, i + 1)>>
                ELSE <<Segment(net, compact, i)>>]

-----------------------------------------------------------------------------
(* Facts.                                                                   *)

(* Accepted colors are written for every place or for none.                *)
TopologyPlaces(net) ==
  Seqs!FoldLeft(LAMBDA ps, a : Appear(ps, PlaceAt(a)), <<>>, net.arcs)

TopologyColors(net, p) ==
  Seqs!FoldLeft(LAMBDA colors, a : IF PlaceAt(a) = p THEN Appear(colors, a.color)
                                   ELSE colors, <<>>, net.arcs)

(* Variant: the order of first appearance is not compared.                 *)
TopologySufficesInAnyOrder(net) ==
  /\ Seqs!ToSet(TopologyPlaces(net)) = NamesIn(net.places)
  /\ \A i \in DOMAIN net.places :
       Seqs!ToSet(net.places[i].accepts) =
         Seqs!ToSet(TopologyColors(net, net.places[i].name))

TopologySuffices(net) ==
  /\ TopologyPlaces(net) = [i \in DOMAIN net.places |-> net.places[i].name]
  /\ \A i \in DOMAIN net.places :
       net.places[i].accepts = TopologyColors(net, net.places[i].name)

AcceptsFacts(net) ==
  IF TopologySuffices(net) THEN <<>>
  ELSE [i \in DOMAIN net.places |->
          Fact("place.accepts", <<"place", net.places[i].name>>, "",
               net.places[i].accepts)]

PlaceFacts(place) ==
  LET object == <<"place", place.name>>
  IN  FactsOf("place.port", object, place.port)
      \cup FactsOf("place.capacity", object, place.capacity)
      \cup CarriedFacts(object, place.attributes)

TransitionFacts(t) ==
  LET object == <<"transition", t.name>>
  IN  CarriedFacts(object, t.attributes)
      \cup UNION {FactsOf("transition.timer", object,
                          {[clock |-> timer.clock, cel |-> timer.cel]})
                  \cup FactsOf("transition.timer-maturity", object, timer.maturity)
                  \cup {Fact("transition.timer-bind", object, b[1], b[2]) :
                          b \in timer.bind} : timer \in t.timer}

(* An input arc that keeps its authored handle writes its documentation; a *)
(* produce arc writes none.                                                *)
ArcFacts(net, i) ==
  LET arc == net.arcs[i]
      handle == {h : h \in Chain(net, FALSE, i).handle}
      following == IF Joined(net, i) THEN net.arcs[i + 1] ELSE arc
      about(member, values) ==
        UNION {FactsOf(member, <<"arcHandle", h>>, values) : h \in handle}
  IN  about("arc.weight", IF arc.weight > 1 THEN {arc.weight} ELSE {})
      \cup about("arc.predicate", arc.filter)
      \cup about("arc.correlate", arc.correlate)
      \cup about("arc.produce-data", following.data)
      \cup about("arc.produce-cel", following.cel)
      \cup IF IsInput(arc) /\ AuthoredAt(net, i) # {}
           THEN UNION {CarriedFacts(<<"arcHandle", h>>, arc.attributes) : h \in handle}
           ELSE {}

(* Only the transitions of input arcs count as having appeared.            *)
OrderFacts(net) ==
  LET appeared == Seqs!FoldLeft(
        LAMBDA ts, a : IF IsInput(a) THEN Appear(ts, a.to[2]) ELSE ts, <<>>, net.arcs)
      names == [i \in DOMAIN net.transitions |-> net.transitions[i].name]
  IN  IF appeared = names THEN <<>>
      ELSE [i \in DOMAIN names |->
              [kind |-> "order", of |-> <<"transition", names[i]>>, rank |-> i]]

(* Tokens are written one by one: how equal neighbours are counted         *)
(* together does not show in the result.  A template is named by the place *)
(* of its token among those that need one.                                 *)
Generic(token) == token = <<"token", EmptyObject>>

Templates(net) ==
  LET all == {net.marking} \cup {net.named[m] : m \in DOMAIN net.named}
      tokens == UNION {UNION {Seqs!ToSet(bag[p]) : p \in NamesIn(net.places) \cap DOMAIN bag} :
                         bag \in all}
  IN  InSomeOrder({token \in tokens : ~Generic(token)})

TemplateName(templates, token) ==
  GeneratedTemplates[CHOOSE i \in DOMAIN templates : templates[i] = token]

TokenStatement(templates, marking, p, token) ==
  MarkingStatement(IF marking = "initial" THEN "marking" ELSE "named", marking, p, 1,
                   IF Generic(token) THEN {} ELSE {TemplateName(templates, token)})

MarkingStatements(net, templates, marking, tokens) ==
  Seqs!FlattenSeq([i \in DOMAIN net.places |->
    LET p == net.places[i].name
    IN  IF p \notin DOMAIN tokens THEN <<>>
        ELSE [k \in DOMAIN tokens[p] |->
                TokenStatement(templates, marking, p, tokens[p][k])]])

TemplateFacts(templates) ==
  {TemplateDefinition(TemplateName(templates, token), Rendered(token[2])) :
     token \in Seqs!ToSet(templates)}

PayloadFacts(net) ==
  IF ~HasPayload(net) THEN {}
  ELSE {Fact(v.about[1], v.about[2], v.about[3], Rendered(v.given)) : v \in net.views}
       \cup FactsOf("document.extensions", <<"document", "">>,
                    IF net.extensions = {} THEN {EmptyObject} ELSE net.extensions)

-----------------------------------------------------------------------------

Emitted(net, compact) ==
  LET starts == ChainStarts(net)
      templates == Templates(net)
      each(s, Of(_)) == UNION {Of(s[i]) : i \in DOMAIN s}
      facts == each(net.transitions, TransitionFacts)
               \cup each(net.places, PlaceFacts)
               \cup UNION {ArcFacts(net, i) : i \in Seqs!ToSet(starts)}
               \cup CarriedFacts(<<"document", "">>, net.annotations)
               \cup TemplateFacts(templates) \cup PayloadFacts(net)
      named == InSomeOrder(DOMAIN net.named)
  IN  [header |-> {[kind |-> "net", name |-> net.name,
                    description |-> net.description]},
       statements |->
         AcceptsFacts(net)
         \o [k \in DOMAIN starts |-> Chain(net, compact, starts[k])]
         \o InSomeOrder(facts) \o OrderFacts(net)
         \o MarkingStatements(net, templates, "initial", net.marking)
         \o Seqs!FlattenSeq([k \in DOMAIN named |->
              MarkingStatements(net, templates, named[k], net.named[named[k]])])]

Recompiled(net, compact) == NetOutcome(TablesOf(<<Emitted(net, compact)>>))

(* A composition is written as its uses and then its wires, under a name   *)
(* of its own.                                                             *)
EmittedComposition(c) ==
  [header |-> {[kind |-> "composition", name |-> "composition",
                description |-> {}]},
   statements |->
     [i \in DOMAIN c.uses |->
        [kind |-> "use", alias |-> c.uses[i].alias, ref |-> c.uses[i].ref]]
     \o [i \in DOMAIN c.wires |->
           [kind |-> "wire", from |-> c.wires[i].from, to |-> c.wires[i].to]]]
=============================================================================
