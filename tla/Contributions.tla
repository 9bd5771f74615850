---------------------------- MODULE Contributions --------------------------
(***************************************************************************)
(* The .petrinet compiler: sources are lowered statement by statement,     *)
(* their contributions are collected into tables in source order, and the  *)
(* aggregate is resolved once into a net document.                         *)
(*                                                                         *)
(* Statements are records told apart by kind:                              *)
(*   place, transition  name                                               *)
(*   chain              handle, segments [mode, place, transition, color]  *)
(*   fact               about <<member, <<type, name>>, key>>, given       *)
(*   order              of <<type, name>>, rank                            *)
(*   marking, named     marking, place, count, template                    *)
(*   use, wire          alias, ref; from, to: of a composition             *)
(* A fact is every statement that gives one value to one member of one     *)
(* object: accepted colors, ports, capacities, arc elaborations, handlers, *)
(* guards, timers, priorities, templates, documentation, view geometry,    *)
(* extensions.  It gives a JSON text where the language asks for one.  A   *)
(* source is a header, if it has one, and its statements.                  *)
(*                                                                         *)
(* Names and expressions may be empty, numbers too large and lists may     *)
(* repeat themselves: what lowering or the resolver refuses wherever it    *)
(* stands is ContributionAllowed's to say.  Spans, diagnostics' wording    *)
(* and the checks on Contribution IR that what was lowered always passes   *)
(* are left out; aliases and the variables of a timer are identifiers.     *)
(***************************************************************************)
EXTENDS Composition

CONSTANT
  Scripts  (* what may be written: records of                               *)
           (*   header   of the first source, which tells the script: a set *)
           (*            of at most one [kind, name, description]           *)
           (*   opening  the statements it begins with, in order            *)
           (*   pool     the statements that may follow, in any order       *)
           (*   more     bound on how many of them do                       *)
           (*   further  the headers a second source may have               *)

VARIABLES
  sources,   (* the sources written so far                                  *)
  tables,    (* what resolve_contribution_ir has collected from them        *)
  document   (* its result: a set, empty until resolution ends              *)

vars == <<sources, tables, document>>

-----------------------------------------------------------------------------
(* The statements.                                                          *)

Fact(member, object, key, given) ==
  [kind |-> "fact", about |-> <<member, object, key>>, given |-> given]

ArcFact(member, handle, given) == Fact(member, <<"arcHandle", handle>>, "", given)

TemplateDefinition(template, text) ==
  Fact("template.define", <<"template", template>>, "", text)

(* A count alone stands for that many generic tokens.                      *)
MarkingStatement(kind, marking, place, count, template) ==
  [kind |-> kind, marking |-> marking, place |-> place, count |-> count,
   template |-> template]

InitialMarking(place, count, template) ==
  MarkingStatement("marking", "initial", place, count, template)

NamedMarking(marking, place, count, template) ==
  MarkingStatement("named", marking, place, count, template)

(* Of the document, a place, a transition or the arc of a handle.          *)
MetadataTarget(type, name) == <<type, IF type = "document" THEN "" ELSE name>>

MetadataDescription(target, text) ==
  Fact("documentation.description", target, "", text)

MetadataAnnotation(target, key, text) ==
  Fact("documentation.annotation", target, key, text)

ViewPosition(view, subject, text) == Fact("view.position", subject, view, text)

ViewRoute(view, handle, text) ==
  Fact("view.route", <<"arcHandle", handle>>, view, text)

Extensions(text) == Fact("document.extensions", <<"document", "">>, "", text)

(* The members whose values are JSON.                                       *)
JsonMembers ==
  {"place.capacity", "arc.produce-data", "template.define",
   "documentation.annotation", "view.position", "view.route",
   "document.extensions"}

(* What a statement is: names are strings, accepted colors a list, and a   *)
(* text stands where the language asks for JSON.  A chain has at most one  *)
(* handle.                                                                 *)
IsFact(s) ==
  /\ s.kind = "fact"
  /\ s.about \in STRING \X (STRING \X STRING) \X STRING
  /\ s.about[1] = "place.accepts" => IsList(s.given)
  /\ s.about[1] \in JsonMembers \cup {"arc.weight"} => IsText(s.given)

Segments ==
  [mode : {"consume", "read", "inhibit", "produce"},
   place : STRING, transition : STRING, color : STRING]

IsStatement(s) ==
  \/ s.kind \in {"place", "transition"} /\ s.name \in STRING
  \/ /\ s.kind = "chain"
     /\ s.handle \in SUBSET STRING /\ \A h, g \in s.handle : h = g
     /\ s.segments \in Seq(Segments)
  \/ IsFact(s)
  \/ s.kind = "order" /\ s.of \in STRING \X STRING
  \/ s.kind \in {"marking", "named"}
  \/ s.kind = "use" /\ {s.alias, s.ref} \subseteq STRING
  \/ s.kind = "wire" /\ {s.from, s.to} \subseteq STRING \X STRING

Statements ==
  UNION {Seqs!ToSet(script.opening) \cup script.pool : script \in Scripts}

Headers == UNION {{script.header} \cup script.further : script \in Scripts}

ASSUME ScriptsAssumption ==
  /\ \A script \in Scripts : script.opening \in Seq(Statements)
  /\ \A s \in Statements : IsStatement(s)

ASSUME PortsAssumption ==
  /\ IsList(PortOrder)
  /\ \A s \in Statements : s.kind = "use" /\ s.ref \in DOMAIN Library =>
       {s.alias} \X NamesIn(Library[s.ref].places) \subseteq Seqs!ToSet(PortOrder)

Appear(names, name) ==
  IF name \in Seqs!ToSet(names) THEN names ELSE Append(names, name)

-----------------------------------------------------------------------------
(* The tables.                                                              *)

EmptyTables ==
  [header |-> {}, places |-> <<>>, declared |-> {}, transitions |-> <<>>,
   facts |-> {}, handles |-> {}, arcs |-> <<>>, ranks |-> {},
   markings |-> <<>>, uses |-> <<>>, wires |-> <<>>, refused |-> FALSE]

Refused(tb) == [tb EXCEPT !.refused = TRUE]

(* The header kept is the first; compile_petrinet_sources has compared     *)
(* every source's kind and name with the first one's, a missing header     *)
(* being that of a net named unnamed.                                      *)
KindOf(header) == IF header = {} THEN "net" ELSE Elem(header).kind

NameOf(header) == IF header = {} THEN "unnamed" ELSE Elem(header).name

(* Only a composition has to have a name.                                  *)
CollectHeader(tb, first, header) ==
  IF \/ KindOf(header) # KindOf(first) \/ NameOf(header) # NameOf(first)
     \/ KindOf(header) = "composition" /\ NameOf(header) = ""
  THEN Refused(tb)
  ELSE [tb EXCEPT !.header = IF @ = {} THEN header ELSE @]

CollectDeclaration(tb, s) ==
  IF s.kind = "place"
  THEN [tb EXCEPT !.declared = @ \cup {s.name}, !.places = Appear(@, s.name)]
  ELSE [tb EXCEPT !.transitions = Appear(@, s.name)]

(* A run is known by its source and the statement in it.                   *)
RunIdentity(source, statement) == <<source, statement>>

ArcOf(run, segment) ==
  [run |-> run, place |-> segment.place, transition |-> segment.transition,
   mode |-> segment.mode, color |-> segment.color]

(* A chain declares its arcs, left to right; its handle names the run.     *)
CollectChain(tb, run, s) ==
  IF \E h \in s.handle, g \in tb.handles : g.name = h THEN Refused(tb)
  ELSE [tb EXCEPT
    !.handles = @ \cup {[name |-> h, run |-> run] : h \in s.handle},
    !.places = FirstOf(@ \o [i \in DOMAIN s.segments |-> s.segments[i].place]),
    !.transitions =
      FirstOf(@ \o [i \in DOMAIN s.segments |-> s.segments[i].transition]),
    !.arcs = @ \o [i \in DOMAIN s.segments |-> ArcOf(run, s.segments[i])]]

(* What a fact gives, once lowered.                                        *)
Given(s) ==
  CASE s.about[1] \in JsonMembers -> ValueOf(s.given)
    [] s.about[1] = "arc.weight" -> ValueOf(s.given)[2].halves \div 2
    [] OTHER -> s.given

(* A fact told again must be the same, and the first one told is kept;     *)
(* only accepted colors also make their place appear.                      *)
Known(tb, s) == {f.given : f \in {g \in tb.facts : g.about = s.about}}

Conflicts(tb, s) ==
  \E known \in Known(tb, s) :
    IF s.about[1] \in JsonMembers THEN ~JsonEqual(known, Given(s))
    ELSE known # Given(s)

CollectFact(tb, s) ==
  IF Conflicts(tb, s) THEN Refused(tb)
  ELSE [tb EXCEPT
    !.facts = IF Known(tb, s) # {} THEN @
              ELSE @ \cup {[about |-> s.about, given |-> Given(s)]},
    !.places = IF s.about[1] = "place.accepts" THEN Appear(@, s.about[2][2])
               ELSE @]

(* What can be said, and of which sort of object.                          *)
PlaceMembers == {"place.accepts", "place.port", "place.capacity"}

TransitionMembers ==
  {"transition.handler", "transition.guard", "transition.priority"}

TimerMembers ==
  {"transition.timer", "transition.timer-maturity", "transition.timer-bind"}

ArcMembers ==
  {"arc.weight", "arc.predicate", "arc.correlate", "arc.produce-data",
   "arc.produce-cel"}

DocumentationMembers == {"documentation.description", "documentation.annotation"}

MembersOf(type) ==
  CASE type = "place" ->
         PlaceMembers \cup DocumentationMembers \cup {"view.position"}
    [] type = "transition" ->
         TransitionMembers \cup TimerMembers \cup DocumentationMembers
         \cup {"view.position"}
    [] type = "arcHandle" -> ArcMembers \cup DocumentationMembers \cup {"view.route"}
    [] type = "document" -> DocumentationMembers \cup {"document.extensions"}
    [] type = "template" -> {"template.define"}
    [] OTHER -> {}

(* The members of which the resolver reads the name of the object, and     *)
(* those whose value is an expression it reads; it reads no handler.       *)
NamingMembers ==
  {"place.accepts", "place.port"} \cup TransitionMembers \cup TimerMembers

(* Variant: guards are read no more than handlers are.                     *)
ExpressionsOfArcsAndTimers ==
  {"transition.timer-maturity", "transition.timer-bind", "arc.correlate",
   "arc.produce-cel"}

ExpressionMembers ==
  {"transition.guard", "transition.timer-maturity", "transition.timer-bind",
   "arc.correlate", "arc.produce-cel"}

(* The values lowering and the resolver refuse wherever the fact stands.   *)
ValueAllowed(s) ==
  LET value == ValueOf(s.given)
  IN  /\ s.about[1] \in NamingMembers => s.about[2][2] # ""
      /\ s.about[1] \in ExpressionMembers => s.given # ""
      /\ s.about[1] \in JsonMembers \cup {"arc.weight"} => Readable(s.given)
      /\ CASE s.about[1] = "place.accepts" ->
                /\ s.given # <<>> /\ "" \notin Seqs!ToSet(s.given)
                /\ \A i, j \in DOMAIN s.given : s.given[i] = s.given[j] => i = j
           [] s.about[1] = "place.port" -> s.given.type # ""
           [] s.about[1] = "transition.timer" ->
                "" \notin {s.given.clock, s.given.cel}
           [] s.about[1] = "transition.priority" -> s.given \in 0..SafeInteger
           [] s.about[1] = "arc.predicate" -> s.given[2] # ""
           [] s.about[1] = "place.capacity" -> IsCapacity(value)
           [] s.about[1] = "arc.weight" -> IsPositive(value)
           [] s.about[1] = "documentation.annotation" ->
                s.about[3] \notin {"", "petrinet.dsl/v1"}
           [] s.about[1] = "view.position" -> s.about[3] # "" /\ IsPoint(value)
           [] s.about[1] = "view.route" ->
                /\ value[1] = "array" /\ value[2] # <<>>
                /\ \A i \in DOMAIN value[2] : IsPoint(value[2][i])
           [] s.about[1] = "document.extensions" -> value[1] = "object"
           [] OTHER -> TRUE

(* What lowering and the resolver refuse of a statement, whatever has been *)
(* collected.  Of a chain they read its colors and not its ends' names.    *)
ContributionAllowed(s) ==
  CASE s.kind \in {"place", "transition"} -> s.name # ""
    [] s.kind = "chain" -> \A i \in DOMAIN s.segments : s.segments[i].color # ""
    [] s.kind = "fact" -> s.about[1] \in MembersOf(s.about[2][1]) /\ ValueAllowed(s)
    [] s.kind = "order" -> s.rank \in 1..SafeInteger
    [] s.kind \in {"marking", "named"} ->
         /\ "" \notin {s.marking, s.place} \cup s.template
         /\ s.count \in 1..SafeInteger
    [] s.kind = "use" -> s.ref # ""
    [] s.kind = "wire" -> "" \notin {s.from[2], s.to[2]}

(* Order facts are not idempotent: an object is ranked once, and no two    *)
(* transitions at the same rank.                                           *)
CollectOrder(tb, s) ==
  IF \/ \E r \in tb.ranks : r.of = s.of
     \/ /\ s.of[1] = "transition"
        /\ \E r \in tb.ranks : r.of[1] = "transition" /\ r.rank = s.rank
  THEN Refused(tb)
  ELSE [tb EXCEPT !.ranks = @ \cup {[of |-> s.of, rank |-> s.rank]}]

(* In a composition an alias stands for one reference, and a wire joins    *)
(* aliases already in use, never both ways.                                *)
CollectUse(tb, s) ==
  LET use == [alias |-> s.alias, ref |-> s.ref]
  IN  IF s.alias \notin Aliases(tb.uses)
      THEN [tb EXCEPT !.uses = Append(@, use)]
      ELSE IF use \in Seqs!ToSet(tb.uses) THEN tb ELSE Refused(tb)

CollectWire(tb, s) ==
  LET wire == [from |-> s.from, to |-> s.to]
      reverse == [from |-> s.to, to |-> s.from]
  IN  IF \/ ~({s.from[1], s.to[1]} \subseteq Aliases(tb.uses))
         \/ wire \notin Seqs!ToSet(tb.wires) /\ reverse \in Seqs!ToSet(tb.wires)
      THEN Refused(tb)
      ELSE [tb EXCEPT !.wires = Appear(@, wire)]

(* Variant: a token is kept only on a place declared before it.            *)
CollectMarkingOfKnownPlace(tb, s) ==
  IF s.place \in Seqs!ToSet(tb.places)
  THEN [tb EXCEPT !.markings = Append(@, s)] ELSE Refused(tb)

CollectMarking(tb, s) == [tb EXCEPT !.markings = Append(@, s)]

(* No named marking may take the name of the initial one.                  *)
CollectNamedMarking(tb, s) ==
  IF s.marking = "initial" THEN Refused(tb) ELSE CollectMarking(tb, s)

OfAComposition(s) == s.kind \in {"use", "wire"}

Collect(tb, run, s) ==
  IF tb.refused THEN tb
  ELSE IF \/ OfAComposition(s) # (KindOf(tb.header) = "composition")
          \/ ~ContributionAllowed(s)
  THEN Refused(tb)
  ELSE
  CASE s.kind \in {"place", "transition"} -> CollectDeclaration(tb, s)
    [] s.kind = "chain" -> CollectChain(tb, run, s)
    [] s.kind = "fact" -> CollectFact(tb, s)
    [] s.kind = "order" -> CollectOrder(tb, s)
    [] s.kind = "marking" -> CollectMarking(tb, s)
    [] s.kind = "named" -> CollectNamedMarking(tb, s)
    [] s.kind = "use" -> CollectUse(tb, s)
    [] s.kind = "wire" -> CollectWire(tb, s)

-----------------------------------------------------------------------------
(* The net the tables describe.                                             *)

ValuesOf(tb, member, object) ==
  {f.given : f \in {g \in tb.facts : g.about[1] = member /\ g.about[2] = object}}

(* An arc answers to the handle of its run.                                 *)
ArcValues(tb, member, arc) ==
  UNION {ValuesOf(tb, member, <<"arcHandle", h.name>>) :
           h \in {g \in tb.handles : g.run = arc.run}}

(* What is carried along unread.  Priority 0 is the default and omitted.   *)
CarriedMembers == TransitionMembers \cup DocumentationMembers

Carried(tb, objects) ==
  {<<f.about[1], f.about[3], f.given>> :
     f \in {g \in tb.facts :
              /\ g.about[1] \in CarriedMembers
              /\ g.about[2] \in objects
              /\ g.about[1] = "transition.priority" => g.given # 0}}

(* Declared colors win; without them the colors of the arcs, as they come; *)
(* a place no color is evidence of holds generic tokens.                   *)
ColorsSeen(tb, p) ==
  LET here == Subsequence(tb.arcs, {i \in DOMAIN tb.arcs : tb.arcs[i].place = p})
  IN  FirstOf([i \in DOMAIN here |-> here[i].color])

Accepts(tb, p) ==
  LET declared == ValuesOf(tb, "place.accepts", <<"place", p>>)
      seen == ColorsSeen(tb, p)
  IN  IF declared # {} THEN CHOOSE colors \in declared : TRUE
      ELSE IF seen # <<>> THEN seen ELSE <<"token">>

ResolvedPlace(tb, p) ==
  [name |-> p, accepts |-> Accepts(tb, p),
   port |-> ValuesOf(tb, "place.port", <<"place", p>>),
   capacity |-> ValuesOf(tb, "place.capacity", <<"place", p>>),
   attributes |-> Carried(tb, {<<"place", p>>})]

ResolvedTransition(tb, t) ==
  [name |-> t,
   timer |-> {[clock |-> timer.clock, cel |-> timer.cel,
               maturity |-> ValuesOf(tb, "transition.timer-maturity",
                                     <<"transition", t>>),
               bind |-> {<<f.about[3], f.given>> :
                           f \in {g \in tb.facts :
                                    /\ g.about[1] = "transition.timer-bind"
                                    /\ g.about[2] = <<"transition", t>>}}] :
                timer \in ValuesOf(tb, "transition.timer", <<"transition", t>>)},
   attributes |-> Carried(tb, {<<"transition", t>>})]

ResolvedArc(tb, a) ==
  LET input == IsInput(a)
      said(member) == ArcValues(tb, member, a)
      onlyIf(condition, values) == IF condition THEN values ELSE {}
      place == <<"place", a.place>>
      transition == <<"transition", a.transition>>
  IN  [from |-> IF input THEN place ELSE transition,
       to |-> IF input THEN transition ELSE place,
       mode |-> a.mode, color |-> a.color,
       destination |-> a.place,
       weight |-> IF input /\ said("arc.weight") # {}
                  THEN CHOOSE n \in said("arc.weight") : TRUE ELSE 1,
       filter |-> onlyIf(input, said("arc.predicate")),
       correlate |-> onlyIf(a.mode = "inhibit", said("arc.correlate")),
       data |-> onlyIf(~input, said("arc.produce-data")),
       cel |-> onlyIf(~input, said("arc.produce-cel")),
       attributes |-> Carried(tb, {<<"arcHandle", h.name>> :
                                     h \in {g \in tb.handles : g.run = a.run}})]

(* Ranks, when there are any, replace the order of appearance: transitions *)
(* one by one, arcs in whole runs.                                         *)
Ranked(tb, type) == {r \in tb.ranks : r.of[1] = type}

Named(tb, type, rank) ==
  (CHOOSE r \in Ranked(tb, type) : r.rank = rank).of[2]

OrderedTransitions(tb) ==
  IF Ranked(tb, "transition") = {} THEN tb.transitions
  ELSE [i \in DOMAIN tb.transitions |-> Named(tb, "transition", i)]

RunOf(tb, handle) == (CHOOSE h \in tb.handles : h.name = handle).run

RunArcs(tb, handle) ==
  LET run == RunOf(tb, handle)
  IN  Subsequence(tb.arcs, {i \in DOMAIN tb.arcs : tb.arcs[i].run = run})

OrderedArcs(tb) ==
  IF Ranked(tb, "arcHandle") = {} THEN tb.arcs
  ELSE Seqs!FlattenSeq(
         [i \in 1..Cardinality(tb.handles) |-> RunArcs(tb, Named(tb, "arcHandle", i))])

(* A marking statement appends its tokens to its place, a literal of the   *)
(* generic color or the template's data in the place's only color.         *)
TemplateData(tb, m) ==
  UNION {ValuesOf(tb, "template.define", <<"template", x>>) : x \in m.template}

TokenOf(tb, m) ==
  IF m.template = {} THEN <<"token", EmptyObject>>
  ELSE <<Accepts(tb, m.place)[1], CHOOSE data \in TemplateData(tb, m) : TRUE>>

MarkedAt(tb, marking, p) ==
  LET said == Subsequence(tb.markings,
                {i \in DOMAIN tb.markings : /\ tb.markings[i].marking = marking
                                            /\ tb.markings[i].place = p})
  IN  Seqs!FlattenSeq([i \in DOMAIN said |->
        [n \in 1..said[i].count |-> TokenOf(tb, said[i])]])

Marked(tb, marking) ==
  [p \in {m.place : m \in {x \in Seqs!ToSet(tb.markings) : x.marking = marking}} |->
     MarkedAt(tb, marking, p)]

(* Authored handles survive where metadata needs them, as the index of     *)
(* their arc in the final order and a fingerprint of it.                   *)
MetadataMembers == DocumentationMembers \cup {"view.route"}

MetadataHandles(tb) ==
  {f.about[2][2] : f \in {g \in tb.facts : g.about[1] \in MetadataMembers
                                         /\ g.about[2][1] = "arcHandle"}}

Fingerprint(arc) ==
  [from |-> arc.from, to |-> arc.to, color |-> arc.color, mode |-> arc.mode]

(* Variant: the index is the one the arc had before it was ordered.        *)
PayloadHandleAsWritten(tb, handle) ==
  LET index == CHOOSE i \in DOMAIN tb.arcs : tb.arcs[i].run = RunOf(tb, handle)
  IN  [name |-> handle, index |-> index,
       fingerprint |-> Fingerprint(ResolvedArc(tb, tb.arcs[index]))]

PayloadHandle(tb, handle) ==
  LET arcs == OrderedArcs(tb)
      index == CHOOSE i \in DOMAIN arcs : arcs[i].run = RunOf(tb, handle)
  IN  [name |-> handle, index |-> index,
       fingerprint |-> Fingerprint(ResolvedArc(tb, arcs[index]))]

Views(tb) == {f \in tb.facts : f.about[1] \in {"view.position", "view.route"}}

Resolved(tb) ==
  [name |-> NameOf(tb.header),
   description |-> UNION {h.description : h \in tb.header} \cup
     ValuesOf(tb, "documentation.description", <<"document", "">>),
   annotations |-> {x \in Carried(tb, {<<"document", "">>}) :
                      x[1] = "documentation.annotation"},
   places |-> [i \in DOMAIN tb.places |-> ResolvedPlace(tb, tb.places[i])],
   transitions |-> [i \in DOMAIN tb.transitions |->
                      ResolvedTransition(tb, OrderedTransitions(tb)[i])],
   arcs |-> LET arcs == OrderedArcs(tb)
            IN  [i \in DOMAIN arcs |-> ResolvedArc(tb, arcs[i])],
   marking |-> Marked(tb, "initial"),
   named |-> [m \in {x.marking : x \in Seqs!ToSet(tb.markings)} \ {"initial"} |->
                Marked(tb, m)],
   handles |-> {PayloadHandle(tb, h) : h \in MetadataHandles(tb)},
   views |-> Views(tb),
   extensions |-> ValuesOf(tb, "document.extensions", <<"document", "">>)]

-----------------------------------------------------------------------------
(* Final resolution: what must hold of the aggregate.                       *)

(* Variant: produce arcs may name any color.                               *)
InputColorsDeclared(tb) ==
  \A i \in {j \in DOMAIN tb.arcs : IsInput(tb.arcs[j])} :
    tb.arcs[i].color \in Seqs!ToSet(Accepts(tb, tb.arcs[i].place))

ColorsDeclared(tb) ==
  \A i \in DOMAIN tb.arcs :
    tb.arcs[i].color \in Seqs!ToSet(Accepts(tb, tb.arcs[i].place))

HandleNames(tb) == {h.name : h \in tb.handles}

TargetsKnown(tb) ==
  \A f \in tb.facts :
    CASE f.about[2][1] = "place" -> f.about[2][2] \in Seqs!ToSet(tb.places)
      [] f.about[2][1] = "transition" ->
           f.about[2][2] \in Seqs!ToSet(tb.transitions)
      [] f.about[2][1] = "arcHandle" -> f.about[2][2] \in HandleNames(tb)
      [] OTHER -> TRUE

PortColorsAccepted(tb) ==
  \A f \in tb.facts : f.about[1] = "place.port" =>
    f.given.type \in Seqs!ToSet(Accepts(tb, f.about[2][2]))

(* An elaboration must find exactly one arc of its sort in its run.         *)
InputsOf(tb, handle) ==
  LET arcs == RunArcs(tb, handle)
  IN  Subsequence(arcs, {i \in DOMAIN arcs : IsInput(arcs[i])})

ProducesOf(tb, handle) ==
  LET arcs == RunArcs(tb, handle)
  IN  Subsequence(arcs, {i \in DOMAIN arcs : ~IsInput(arcs[i])})

ArcFactFits(tb, f) ==
  LET handle == f.about[2][2]
      inputs == InputsOf(tb, handle)
      produces == ProducesOf(tb, handle)
  IN  CASE f.about[1] = "arc.weight" ->
             Len(inputs) = 1 /\ (inputs[1].mode = "inhibit" => f.given = 1)
        [] f.about[1] = "arc.produce-data" -> Len(produces) = 1
        [] f.about[1] = "arc.produce-cel" ->
             /\ ValuesOf(tb, "arc.produce-data", f.about[2]) = {}
             /\ Len(produces) = 1
             /\ Compiles({f.given})
        [] f.about[1] = "arc.predicate" ->
             Len(inputs) = 1 /\ Compiles(CelOf({f.given}))
        [] f.about[1] = "arc.correlate" ->
             /\ Len(RunArcs(tb, handle)) = 1
             /\ RunArcs(tb, handle)[1].mode = "inhibit"
             /\ Compiles({f.given})
        [] OTHER -> TRUE

TimersComplete(tb) ==
  \A f \in tb.facts :
    f.about[1] \in {"transition.timer-maturity", "transition.timer-bind"} =>
      ValuesOf(tb, "transition.timer", f.about[2]) # {}

RanksComplete(tb, type, names) ==
  LET ranked == Ranked(tb, type)
  IN  ranked # {} => /\ {r.of[2] : r \in ranked} = names
                     /\ {r.rank : r \in ranked} = 1..Cardinality(names)

NoArcUnranked(tb) ==
  Ranked(tb, "arcHandle") # {} =>
    \A i \in DOMAIN tb.arcs : \E h \in tb.handles : h.run = tb.arcs[i].run

MarkingFits(tb, m) ==
  /\ m.place \in Seqs!ToSet(tb.places)
  /\ IF m.template = {} THEN "token" \in Seqs!ToSet(Accepts(tb, m.place))
     ELSE /\ Len(Accepts(tb, m.place)) = 1
          /\ TemplateData(tb, m) # {}
          /\ \A data \in TemplateData(tb, m) : data[1] = "object"

OneDescription(tb) ==
  Cardinality(UNION {h.description : h \in tb.header} \cup
              ValuesOf(tb, "documentation.description", <<"document", "">>)) <= 1

Consistent(tb) ==
  /\ ColorsDeclared(tb)
  /\ TargetsKnown(tb)
  /\ PortColorsAccepted(tb)
  /\ \A f \in tb.facts : f.about[2][1] = "arcHandle" => ArcFactFits(tb, f)
  /\ TimersComplete(tb)
  /\ RanksComplete(tb, "transition", Seqs!ToSet(tb.transitions))
  /\ RanksComplete(tb, "arcHandle", HandleNames(tb))
  /\ NoArcUnranked(tb)
  /\ \A i \in DOMAIN tb.markings : MarkingFits(tb, tb.markings[i])
  /\ OneDescription(tb)
  /\ \A h \in MetadataHandles(tb) : Len(RunArcs(tb, h)) = 1

(* parse_net has the last word, the schema before the rest.  Its refusal   *)
(* of a timer is reported at the timer's statement; any other escapes as   *)
(* an error nobody located.                                                *)
NetOutcome(tb) ==
  IF tb.refused \/ ~Consistent(tb) THEN [verdict |-> "refused", result |-> {}]
  ELSE IF ~SchemaValid(Resolved(tb)) \/ ~StructureValid(Resolved(tb))
  THEN [verdict |-> "undiagnosed", result |-> {}]
  ELSE IF ~TimersValid(Resolved(tb)) THEN [verdict |-> "refused", result |-> {}]
  ELSE [verdict |-> "resolved", result |-> {Resolved(tb)}]

CompositionOutcome(tb) ==
  IF tb.refused \/ ~ValidComposition(tb.uses, tb.wires)
  THEN [verdict |-> "refused", result |-> {}]
  ELSE [verdict |-> "resolved",
        result |-> {[uses |-> tb.uses, wires |-> tb.wires]}]

Outcome(tb) ==
  IF KindOf(tb.header) = "composition" THEN CompositionOutcome(tb)
  ELSE NetOutcome(tb)

-----------------------------------------------------------------------------
(* The compiler, source by source.                                          *)

Lower(srcs, tb, i) ==
  LET statements == srcs[i].statements
      lowered[j \in 0..Len(statements)] ==
        IF j = 0 THEN CollectHeader(tb, srcs[1].header, srcs[i].header)
        ELSE Collect(lowered[j - 1], RunIdentity(i, j), statements[j])
  IN  lowered[Len(statements)]

TablesOf(srcs) ==
  LET collected[i \in 0..Len(srcs)] ==
        IF i = 0 THEN EmptyTables ELSE Lower(srcs, collected[i - 1], i)
  IN  collected[Len(srcs)]

Init ==
  /\ \E script \in Scripts :
       sources = <<[header |-> script.header, statements |-> <<>>]>>
  /\ tables = CollectHeader(EmptyTables, sources[1].header, sources[1].header)
  /\ document = {}

Written(srcs) == Seqs!FlattenSeq([i \in DOMAIN srcs |-> srcs[i].statements])

Script == CHOOSE script \in Scripts : script.header = sources[1].header

(* The statements that may come next: the opening's, then the pool's.      *)
Upcoming(script) ==
  LET n == Len(Written(sources))
  IN  IF n < Len(script.opening) THEN {script.opening[n + 1]}
      ELSE IF n < Len(script.opening) + script.more THEN script.pool ELSE {}

Write(s) ==
  LET current == Len(sources)
      run == RunIdentity(current, Len(sources[current].statements) + 1)
  IN  /\ document = {}
      /\ sources' = [sources EXCEPT ![current].statements = Append(@, s)]
      /\ tables' = Collect(tables, run, s)
      /\ UNCHANGED document

NextSource(header) ==
  /\ document = {}
  /\ Len(sources) = 1
  /\ sources' = Append(sources, [header |-> header, statements |-> <<>>])
  /\ tables' = CollectHeader(tables, sources[1].header, header)
  /\ UNCHANGED document

Resolve ==
  /\ document = {}
  /\ document' = {Outcome(tables)}
  /\ UNCHANGED <<sources, tables>>

Next ==
  \/ \E s \in Upcoming(Script) : Write(s)
  \/ \E header \in Script.further : NextSource(header)
  \/ Resolve

Spec == Init /\ [][Next]_vars
=============================================================================
