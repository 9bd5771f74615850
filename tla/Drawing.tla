------------------------------ MODULE Drawing ------------------------------
(***************************************************************************)
(* velocitron-viz: the lines of the graph drawn for a net, for a           *)
(* composition and for its ports, and the geometry a view adds to them.    *)
(*                                                                         *)
(* A line is a record                                                      *)
(*   kind    "title", "node" or "edge"                                     *)
(*   ends    <<id>> of a node, <<from, to>> of an edge                     *)
(*   label   what it shows, as a sequence of tagged parts                  *)
(*   look    how it is styled, which tells places, ports and arc modes     *)
(*   tip     its tooltip: a set of at most one text                        *)
(*   pos     the geometry a view has put on it, in order                   *)
(* An id is the tuple of names that its string joins: <<name>>, or <<alias, *)
(* name>> in a composition, and <<place, "@", transition>> for the local   *)
(* instance of a fusion place.  Colors, fonts, markup, line breaks and the *)
(* cutting of long texts are left out.                                     *)
(***************************************************************************)
EXTENDS Composition

CONSTANTS
  TokenGroupLimit,  (* how many groups of tokens a place shows             *)
  TokenSort,        (* pairs of a color and a canonical text, in order     *)
  Arrowed           (* the texts in which the characters " -> " occur      *)

Said(x, member, key) ==
  {a[3] : a \in {b \in x.attributes : b[1] = member /\ b[2] = key}}

Description(x) == Said(x, "documentation.description", "")

Part(tag, values) == Seqs!SetToSeq({<<tag, v>> : v \in values})

Line(kind, ends, label, look, tip, style) ==
  [kind |-> kind, ends |-> ends, label |-> label, look |-> look,
   tip |-> IF style.tooltips THEN tip ELSE {}, pos |-> <<>>]

-----------------------------------------------------------------------------
(* Nodes.                                                                   *)

(* Equal tokens are counted together; groups beyond the limit are only     *)
(* counted.                                                                *)
TokenGroupRows(tokens) ==
  LET canonical == [i \in DOMAIN tokens |-> <<tokens[i][1], Rendered(tokens[i][2])>>]
      groups == SelectSeq(TokenSort, LAMBDA t : t \in Seqs!ToSet(canonical))
      shown == IF Len(groups) < TokenGroupLimit THEN Len(groups) ELSE TokenGroupLimit
      count(t) == Cardinality({i \in DOMAIN canonical : canonical[i] = t})
  IN  [k \in 1..shown |-> <<"tokens", count(groups[k]), groups[k]>>] \o
      IF Len(groups) > shown THEN <<<<"more", Len(groups) - shown>>>> ELSE <<>>

IsFusion(place) ==
  \E value \in Said(place, "documentation.annotation", "fusion") : Truthy(value)

FusionPlaces(net) ==
  {p.name : p \in {x \in Seqs!ToSet(net.places) : IsFusion(x)}}

SpecificColors(colors) == SelectSeq(colors, LAMBDA color : color # "token")

PlaceNode(place, id, tokens, instance, style) ==
  LET directions == {port.direction : port \in place.port}
      look == IF instance THEN "fusion"
              ELSE IF directions = {} THEN "place" ELSE Elem(directions)
  IN  Line("node", <<id>>,
           <<<<"name", place.name>>, <<"accepts", SpecificColors(place.accepts)>>>>
           \o Part("port", place.port) \o TokenGroupRows(tokens),
           look, Description(place), style)

(* Of a timer only the expression is shown.                                *)
TransitionNode(t, id, style) ==
  LET shown(member) == Said(t, member, "")
  IN  Line("node", <<id>>,
           <<<<"name", t.name>>>>
           \o Part("handler", shown("transition.handler"))
           \o Part("guard", shown("transition.guard"))
           \o Part("timer", {timer.cel : timer \in t.timer})
           \o Part("priority", shown("transition.priority")),
           IF shown("transition.guard") = {} THEN "transition" ELSE "guarded",
           Description(t), style)

-----------------------------------------------------------------------------
(* Edges.                                                                   *)

ArcLabel(arc) ==
  LET color == SpecificColors(<<arc.color>>)
  IN  (IF arc.weight # 1 /\ arc.mode # "inhibit" THEN <<<<"weight", arc.weight>>>>
       ELSE <<>>)
      \o (IF color = <<>> THEN <<>> ELSE <<<<"color", color[1]>>>>)
      \o Part("filter", arc.filter) \o Part("correlate", arc.correlate)
      \o Part("data", arc.data) \o Part("cel", arc.cel)

(* An end at a fusion place is its instance at the arc's transition.       *)
PlaceId(prefix, fusion, place, transition) ==
  prefix \o IF place \in fusion THEN <<place, "@", transition>> ELSE <<place>>

Touches(arc) ==
  IF IsInput(arc) THEN [place |-> arc.from[2], transition |-> arc.to[2]]
  ELSE [place |-> arc.to[2], transition |-> arc.from[2]]

ArcEdge(arc, prefix, fusion, style) ==
  LET at == Touches(arc)
      place == PlaceId(prefix, fusion, at.place, at.transition)
      transition == prefix \o <<at.transition>>
  IN  Line("edge",
           IF IsInput(arc) THEN <<place, transition>> ELSE <<transition, place>>,
           ArcLabel(arc), arc.mode, Description(arc), style)

(* An edge that has nothing to say of itself has no attribute list.        *)
HasAttributes(line) ==
  \/ line.kind = "node" \/ line.label # <<>> \/ line.tip # {}
  \/ line.look \in {"read", "inhibit", "wire"}

-----------------------------------------------------------------------------
(* Graphs.                                                                  *)

(* Variant: only transitions that read a fusion place get an instance.     *)
FusionInstancesOfInputs(net, fusion) ==
  LET inputs == SelectSeq(net.arcs, IsInput)
      touched == [i \in DOMAIN inputs |-> Touches(inputs[i])]
  IN  FirstOf(SelectSeq(touched, LAMBDA at : at.place \in fusion))

(* The places and transitions that share an instance, in arc order.        *)
FusionInstances(net, fusion) ==
  LET touched == [i \in DOMAIN net.arcs |-> Touches(net.arcs[i])]
  IN  FirstOf(SelectSeq(touched, LAMBDA at : at.place \in fusion))

NetBody(net, prefix, marking, style, fuse) ==
  LET fusion == IF fuse THEN FusionPlaces(net) ELSE {}
      tokens(p) == IF p \in DOMAIN marking THEN marking[p] ELSE <<>>
      whole == SelectSeq(net.places, LAMBDA p : p.name \notin fusion)
      shared == FusionInstances(net, fusion)
  IN  [i \in DOMAIN whole |->
         PlaceNode(whole[i], prefix \o <<whole[i].name>>, tokens(whole[i].name),
                   FALSE, style)]
      \o [i \in DOMAIN net.transitions |->
            TransitionNode(net.transitions[i],
                           prefix \o <<net.transitions[i].name>>, style)]
      \o [i \in DOMAIN shared |->
            PlaceNode(PlaceOf(net, shared[i].place),
                      PlaceId(prefix, fusion, shared[i].place, shared[i].transition),
                      tokens(shared[i].place), TRUE, style)]
      \o [i \in DOMAIN net.arcs |-> ArcEdge(net.arcs[i], prefix, fusion, style)]

Title(texts, style) == Line("title", <<>>, Part("name", texts), "title", {}, style)

NetToDot(net, marking, style, fuse) ==
  (IF net.name = "unnamed" THEN <<>> ELSE <<Title({net.name}, style)>>)
  \o NetBody(net, <<>>, marking, style, fuse)

Wires(wires, style) ==
  [i \in DOMAIN wires |->
     Line("edge", <<wires[i].from, wires[i].to>>, <<>>, "wire", {}, style)]

CompositionToDot(uses, wires, style, fuse) ==
  Seqs!FlattenSeq([i \in DOMAIN uses |->
    LET net == Library[uses[i].ref]
    IN  <<Title({uses[i].alias}, style)>>
        \o NetBody(net, <<uses[i].alias>>, net.marking, style, fuse)])
  \o Wires(wires, style)

(* Boundary ports only, never as instances.                                *)
CompositionPortsDot(uses, wires, style) ==
  Seqs!FlattenSeq([i \in DOMAIN uses |->
    LET ports == SelectSeq(Library[uses[i].ref].places, LAMBDA p : p.port # {})
    IN  <<Title({uses[i].alias}, style)>>
        \o [j \in DOMAIN ports |->
              PlaceNode(ports[j], <<uses[i].alias, ports[j].name>>, <<>>, FALSE,
                        style)]])
  \o Wires(wires, style)

(* A merged net's names are dotted names, places and transitions alike.    *)
DottedNames(merged) ==
  LET spelled(end) == IF end[1] = "transition" THEN <<end[1], {end[2]}>> ELSE end
  IN  [merged EXCEPT
        !.transitions = [i \in DOMAIN @ |-> [@[i] EXCEPT !.name = {@}]],
        !.arcs = [i \in DOMAIN @ |-> [@[i] EXCEPT !.from = spelled(@),
                                                  !.to = spelled(@)]]]

MergedToDot(uses, wires, style, fuse) ==
  LET drawn(net) == NetBody(net, <<>>, net.marking, style, fuse)
  IN  drawn(DottedNames(Merged(uses, wires)))

-----------------------------------------------------------------------------
(* A selected marking and a selected view of a net document.               *)

ValidSelectedMarking(net, marking) ==
  \A p \in DOMAIN marking :
    /\ p \in NamesIn(net.places)
    /\ \A i \in DOMAIN marking[p] :
         /\ marking[p][i][1] \in Seqs!ToSet(PlaceOf(net, p).accepts)
         /\ marking[p][i][2][1] = "object"

(* The marking drawn: the one selected by name, which must be there and    *)
(* valid, or else the initial one.                                         *)
SelectedMarking(net, name) ==
  IF name = {} THEN {net.marking}
  ELSE {net.named[m] : m \in {n \in name \cap DOMAIN net.named :
                                ValidSelectedMarking(net, net.named[n])}}

(* A view's facts are about <<member, object, view>>.                      *)
GeometryOf(net, member, view) ==
  {v \in net.views : v.about[1] = member /\ v.about[3] = view}

(* Positions go to the lines that begin with the quoted name of their      *)
(* subject, or for a place with that of one of its instances, if they end  *)
(* in an attribute list: the edges that leave an instance are among them.  *)
PlacedBy(position, line) ==
  LET subject == position.about[2]
      node == line.kind = "node" /\ line.ends[1] = <<subject[2]>>
      instance == /\ line.kind # "title"
                  /\ Len(line.ends[1]) = 3
                  /\ line.ends[1][1] = subject[2]
  IN  /\ HasAttributes(line)
      /\ node \/ (subject[1] = "place" /\ instance)

LabelTexts(line) ==
  UNION {CASE part[1] \in {"name", "handler", "guard", "timer"} -> {part[2]}
           [] part[1] = "accepts" -> Seqs!ToSet(part[2])
           [] part[1] = "port" -> {part[2].type}
           [] part[1] = "tokens" -> {part[3][1]} \cup StringsIn(ValueOf(part[3][2]))
           [] OTHER -> {} : part \in Seqs!ToSet(line.label)}

(* Routes go by the number of lines above that have an arrow in them.      *)
(* Markup spells arrows otherwise; tooltips and plain labels do not.       *)
ShowsArrow(line, style) ==
  \/ line.kind = "edge"
  \/ line.tip \cap Arrowed # {}
  \/ ~style.html /\ LabelTexts(line) \cap Arrowed # {}

ArrowsAbove(lines, i, style) ==
  Cardinality({j \in 1..(i - 1) : ShowsArrow(lines[j], style)})

RoutedBy(net, route, lines, i, style) ==
  /\ ShowsArrow(lines[i], style)
  /\ \E h \in net.handles : /\ h.name = route.about[2][2]
                            /\ h.index = ArrowsAbove(lines, i, style) + 1

(* The view must exist and know its routes' handles.                       *)
ViewApplies(net, view) ==
  /\ \E v \in net.views : v.about[3] = view
  /\ \A route \in GeometryOf(net, "view.route", view) :
       \E h \in net.handles : h.name = route.about[2][2]

SelectedViewDot(net, lines, view, style) ==
  LET positions == GeometryOf(net, "view.position", view)
      routes == GeometryOf(net, "view.route", view)
  IN  [i \in DOMAIN lines |->
         [lines[i] EXCEPT !.pos =
            Part("position", {p.given : p \in {q \in positions :
                                                 PlacedBy(q, lines[i])}})
            \o Part("route", {r.given : r \in {q \in routes :
                                RoutedBy(net, q, lines, i, style)}})]]
=============================================================================
