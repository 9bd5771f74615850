----------------------------- MODULE Composition ---------------------------
(***************************************************************************)
(* Compositions: what parse_composition demands of the nets a document     *)
(* uses and of the wires between them, and the one net merge_nets makes.   *)
(*                                                                         *)
(* A use is [alias, ref], a wire [from, to]; a port is <<alias, place>>.   *)
(* The merged net is a net document whose transitions are named <<alias,   *)
(* name>> and whose places are named by sets of ports: an unwired place by *)
(* its own singleton, a fused one by the output ports of its class, which  *)
(* is what the code's "__" join of sorted names stands for.  The port sets *)
(* replace strings, so what an odd place name spells is not looked at.     *)
(***************************************************************************)
EXTENDS NetDocument, Subsequences

CONSTANTS
  Library,    (* the net documents the loader returns: ref -> net          *)
  PortOrder   (* every <<alias, place>>, in the order the names sort       *)

ASSUME LibraryAssumption == \A ref \in DOMAIN Library : IsNet(Library[ref])

Elem(S) == CHOOSE x \in S : TRUE

PlaceOf(net, p) == Elem({x \in Seqs!ToSet(net.places) : x.name = p})

-----------------------------------------------------------------------------
(* parse_composition *)

UsedNet(uses, alias) ==
  Library[Elem({u \in Seqs!ToSet(uses) : u.alias = alias}).ref]

Aliases(uses) == {uses[i].alias : i \in DOMAIN uses}

PortsOf(net, p) ==
  UNION {x.port : x \in {y \in Seqs!ToSet(net.places) : y.name = p}}

WirePort(uses, end, direction) ==
  {port \in PortsOf(UsedNet(uses, end[1]), end[2]) : port.direction = direction}

ValidWire(uses, w) ==
  /\ {w.from[1], w.to[1]} \subseteq Aliases(uses)
  /\ \E source \in WirePort(uses, w.from, "output"),
        target \in WirePort(uses, w.to, "input") : source.type = target.type

ValidComposition(uses, wires) ==
  /\ uses # <<>>
  /\ \A i \in DOMAIN uses :
       uses[i].ref \in DOMAIN Library /\ Parses(Library[uses[i].ref])
  /\ \A i, j \in DOMAIN uses : uses[i].alias = uses[j].alias => i = j
  /\ \A i \in DOMAIN wires : ValidWire(uses, wires[i])

-----------------------------------------------------------------------------
(* The union-find over wired ports.                                        *)

Wired(wires) == UNION {{wires[i].from, wires[i].to} : i \in DOMAIN wires}

(* The forest gives each port its parent, a root is its own.  As many      *)
(* steps up as there are ports end at the root.                            *)
Ancestor(parent, n, steps) ==
  LET up[i \in 0..steps] == IF i = 0 THEN n ELSE parent[up[i - 1]]
  IN  up[steps]

Root(parent, n) == Ancestor(parent, n, Cardinality(DOMAIN parent))

Compressed(parent, n) ==
  LET path == {Ancestor(parent, n, i) : i \in 0..Cardinality(DOMAIN parent)}
  IN  [m \in DOMAIN parent |-> IF m \in path THEN Root(parent, n) ELSE parent[m]]

(* Variant: the wire's own port is moved, its class is not.                *)
UnionOfThePortsAlone(parent, w) == [parent EXCEPT ![w.from] = Root(parent, w.to)]

Union(parent, w) ==
  LET found == Compressed(Compressed(parent, w.from), w.to)
  IN  [found EXCEPT ![Root(parent, w.from)] = Root(parent, w.to)]

Fusion(wires) ==
  LET joined[k \in 0..Len(wires)] ==
        IF k = 0 THEN [n \in Wired(wires) |-> n] ELSE Union(joined[k - 1], wires[k])
  IN  joined[Len(wires)]

(* The class of a wired port.                                              *)
FusedWith(parent, n) == {m \in DOMAIN parent : Root(parent, m) = Root(parent, n)}

IsOutput(uses, n) ==
  \E port \in PortsOf(UsedNet(uses, n[1]), n[2]) : port.direction = "output"

(* rewrite_map: from each member of a class to the fused name.             *)
RewriteMap(uses, parent) ==
  [n \in DOMAIN parent |-> {m \in FusedWith(parent, n) : IsOutput(uses, m)}]

(* The name every reference to a place is rewritten to.                    *)
Renamed(rewrite, n) == IF n \in DOMAIN rewrite THEN rewrite[n] ELSE {n}

-----------------------------------------------------------------------------
(* merge_nets *)

QPlace(uses, n) == PlaceOf(UsedNet(uses, n[1]), n[2])

Annotations(attributes) ==
  {a \in attributes : a[1] = "documentation.annotation"}

(* Output ports come before input ports, each in the order of their names; *)
(* the first member that has a key decides it, and the fusion tag is last. *)
MembersInOrder(uses, members) ==
  LET outputs == {n \in members : IsOutput(uses, n)}
  IN  Among(PortOrder, outputs) \o Among(PortOrder, members \ outputs)

FusedAnnotations(uses, members) ==
  LET merged == Seqs!FoldLeft(
        LAMBDA said, n :
          said \cup {a \in Annotations(QPlace(uses, n).attributes) :
                       \A b \in said : b[2] # a[2]},
        {}, MembersInOrder(uses, members))
  IN  {a \in merged : a[2] # "fusion"} \cup
      {<<"documentation.annotation", "fusion", <<"boolean", TRUE>>>>}

FusedPlace(uses, members) ==
  [name |-> {m \in Seqs!ToSet(members) : IsOutput(uses, m)},
   accepts |-> FirstOf(Seqs!FlattenSeq(
     [i \in DOMAIN members |-> QPlace(uses, members[i]).accepts])),
   port |-> {}, capacity |-> {},
   attributes |-> FusedAnnotations(uses, Seqs!ToSet(members))]

(* The classes by the first of their members, each in order.               *)
Classes(parent) ==
  LET wired == Among(PortOrder, DOMAIN parent)
  IN  FirstOf([i \in DOMAIN wired |-> Among(PortOrder, FusedWith(parent, wired[i]))])

(* A place's capacity is not carried over.                                 *)
QualifiedPlace(alias, place) ==
  [place EXCEPT !.name = {<<alias, place.name>>}, !.capacity = {}]

UnwiredPlaces(use, rewrite) ==
  LET places == Library[use.ref].places
      kept == Subsequence(places, {j \in DOMAIN places :
                            <<use.alias, places[j].name>> \notin DOMAIN rewrite})
  IN  [j \in DOMAIN kept |-> QualifiedPlace(use.alias, kept[j])]

(* Variant: a timer keeps its own net's places.                            *)
TransitionWithItsOwnClock(rewrite, alias, t) ==
  [t EXCEPT !.name = <<alias, t.name>>,
            !.timer = {[timer EXCEPT !.clock = {<<alias, @>>},
                                     !.bind = {<<b[1], {<<alias, b[2]>>}>> : b \in @}] :
                         timer \in t.timer}]

MergedTransition(rewrite, alias, t) ==
  LET place(p) == Renamed(rewrite, <<alias, p>>)
  IN  [t EXCEPT !.name = <<alias, t.name>>,
                !.timer = {[timer EXCEPT !.clock = place(@),
                                         !.bind = {<<b[1], place(b[2])>> : b \in @}] :
                             timer \in t.timer}]

(* An arc is rebuilt from its ends, its consume pattern as it is, and a    *)
(* produce template of type, destination and literal data: the computed    *)
(* fallback of the template and the arc's documentation are not among them.*)
MergedArc(rewrite, alias, arc) ==
  LET end(e) == IF e[1] = "place" THEN <<"place", Renamed(rewrite, <<alias, e[2]>>)>>
                ELSE <<"transition", <<alias, e[2]>>>>
  IN  [arc EXCEPT !.from = end(@), !.to = end(@),
                  !.destination = Renamed(rewrite, <<alias, @>>),
                  !.cel = {}, !.attributes = {}]

(* The tokens a use's net puts on a place of the merged net.               *)
TokensOn(rewrite, use, name) ==
  LET net == Library[use.ref]
      at == {p \in DOMAIN net.marking : Renamed(rewrite, <<use.alias, p>>) = name}
  IN  Seqs!FlattenSeq([k \in DOMAIN net.places |->
        IF net.places[k].name \in at THEN net.marking[net.places[k].name]
        ELSE <<>>])

MergedMarking(uses, rewrite) ==
  [name \in UNION {{Renamed(rewrite, <<uses[i].alias, p>>) :
                       p \in DOMAIN Library[uses[i].ref].marking} :
                      i \in DOMAIN uses} |->
     Seqs!FlattenSeq([i \in DOMAIN uses |-> TokensOn(rewrite, uses[i], name)])]

MergedTransitions(use, rewrite) ==
  LET own == Library[use.ref].transitions
  IN  [j \in DOMAIN own |-> MergedTransition(rewrite, use.alias, own[j])]

MergedArcs(use, rewrite) ==
  LET own == Library[use.ref].arcs
  IN  [j \in DOMAIN own |-> MergedArc(rewrite, use.alias, own[j])]

MergedUnder(uses, classes, rewrite) ==
  [places |->
     Seqs!FlattenSeq([i \in DOMAIN uses |-> UnwiredPlaces(uses[i], rewrite)]) \o
     [i \in DOMAIN classes |-> FusedPlace(uses, classes[i])],
   transitions |->
     Seqs!FlattenSeq([i \in DOMAIN uses |-> MergedTransitions(uses[i], rewrite)]),
   arcs |-> Seqs!FlattenSeq([i \in DOMAIN uses |-> MergedArcs(uses[i], rewrite)]),
   marking |-> MergedMarking(uses, rewrite)]

Merged(uses, wires) ==
  LET parent == Fusion(wires)
  IN  MergedUnder(uses, Classes(parent), RewriteMap(uses, parent))
=============================================================================
