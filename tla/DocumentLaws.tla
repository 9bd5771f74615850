---------------------------- MODULE DocumentLaws ---------------------------
(***************************************************************************)
(* What the document pipeline promises: sources in, a net document out,    *)
(* canonical source from it and back, an account of it, and compositions   *)
(* merged into a net.                                                      *)
(***************************************************************************)
EXTENDS Emission, Account

Outcomes == document

ResolvedNets ==
  IF KindOf(sources[1].header) # "net" THEN {}
  ELSE UNION {o.result : o \in Outcomes}

ResolvedCompositions ==
  IF KindOf(sources[1].header) # "composition" THEN {}
  ELSE UNION {o.result : o \in Outcomes}

BagOf(s) == [x \in Seqs!ToSet(s) |-> Cardinality({i \in DOMAIN s : s[i] = x})]

Bags(marking) == [p \in DOMAIN marking |-> BagOf(marking[p])]

(* What is read where a value has been written.                            *)
CanonicalOf(value) == ValueOf(Rendered(value))

(* A net document with every JSON value in it as Of makes it.              *)
WithValues(net, Of(_)) ==
  LET attributes(S) ==
        {<<a[1], a[2], IF a[1] \in JsonMembers THEN Of(a[3]) ELSE a[3]>> : a \in S}
      tokens(marking) ==
        [p \in DOMAIN marking |-> [i \in DOMAIN marking[p] |->
           <<marking[p][i][1], Of(marking[p][i][2])>>]]
      each(S) == {Of(value) : value \in S}
  IN  [net EXCEPT
        !.annotations = attributes(@),
        !.places = [i \in DOMAIN @ |-> [@[i] EXCEPT !.attributes = attributes(@),
                                                    !.capacity = each(@)]],
        !.transitions = [i \in DOMAIN @ |-> [@[i] EXCEPT !.attributes = attributes(@)]],
        !.arcs = [i \in DOMAIN @ |-> [@[i] EXCEPT !.attributes = attributes(@),
                                                  !.data = each(@)]],
        !.marking = tokens(@),
        !.named = [m \in DOMAIN @ |-> tokens(@[m])],
        !.views = {[v EXCEPT !.given = Of(@)] : v \in @},
        !.extensions = each(@)]

(* A net document with the order of its members, and how its numbers were  *)
(* spelled, forgotten.                                                     *)
Content(given) ==
  LET net == WithValues(given, CanonicalOf) IN
  [net EXCEPT
    !.places = {[place EXCEPT !.accepts = Seqs!ToSet(@)] : place \in Seqs!ToSet(@)},
    !.transitions = Seqs!ToSet(@),
    !.arcs = BagOf(@),
    !.marking = Bags(@),
    !.named = [m \in DOMAIN @ |-> Bags(@[m])],
    !.handles = {[name |-> h.name, fingerprint |-> h.fingerprint] : h \in @}]

Swapped(s, i) == [s EXCEPT ![i] = s[i + 1], ![i + 1] = s[i]]

Reorderings(s) == {Swapped(s, i) : i \in 1..(Len(s) - 1)} \cup {Seqs!Reverse(s)}

Recompilations ==
  {NetOutcome(TablesOf(<<[sources[1] EXCEPT !.statements = s]>>)) :
     s \in Reorderings(sources[1].statements)}

InOneSource(kind) ==
  document # {} /\ Len(sources) = 1 /\ KindOf(sources[1].header) = kind

-----------------------------------------------------------------------------
(* Collecting and resolving.                                               *)

(* How a value would be spelled: two are the same when it is alike.        *)
Spelling(about, value) == Spelled(about[1], value)

(* Unless the aggregate is refused, every fact written in any source is in *)
(* the tables, spelled as canonical source would spell it, and no two are  *)
(* about the same member of the same object (the contribution loop of      *)
(* resolve_contribution_ir).  So facts conflict exactly when their values  *)
(* have different canonical texts: 1 and 1.0 agree, 1 and true do not.     *)
NoFactIsLost ==
  /\ \A f, g \in tables.facts : f.about = g.about => f = g
  /\ LET written == {s \in Seqs!ToSet(Written(sources)) : s.kind = "fact"}
         same(f, s) == f.about = s.about /\
                       Spelling(f.about, f.given) = Spelling(f.about, Given(s))
     IN  \/ tables.refused
         \/ \A s \in written : \E f \in tables.facts : same(f, s)

(* The order of the statements in a source decides the order of places,    *)
(* transitions, arcs and tokens and nothing else: a forward reference is   *)
(* as good as a backward one, and a conflict is one whoever comes first.   *)
(* Where order facts rank transitions, or arcs, it does not decide even    *)
(* their order, nor the indices at which the payload keeps arcs.           *)
OrderIsImmaterial ==
  InOneSource("net") =>
    \A o \in Outcomes, other \in Recompilations :
      /\ other.verdict = o.verdict
      /\ {Content(net) : net \in other.result} = {Content(net) : net \in o.result}
      /\ \A net \in o.result, again \in other.result :
           /\ Ranked(tables, "transition") # {} =>
                again.transitions = net.transitions
           /\ Ranked(tables, "arcHandle") # {} =>
                again.arcs = net.arcs /\ again.handles = net.handles

(* Several sources resolve to what one source with all their statements    *)
(* resolves to; sources that disagree about kind or name are refused.      *)
SplitIsImmaterial ==
  document # {} /\ Len(sources) = 2 =>
    LET headers == [i \in 1..2 |-> sources[i].header]
        joined == [header |-> IF headers[1] = {} THEN headers[2] ELSE headers[1],
                   statements |-> Written(sources)]
        agree == /\ KindOf(headers[1]) = KindOf(headers[2])
                 /\ NameOf(headers[1]) = NameOf(headers[2])
    IN  IF agree THEN document = {Outcome(TablesOf(<<joined>>))}
        ELSE \A o \in Outcomes : o.verdict = "refused"

(* What the compiler hands on without reading, although the schema of nets *)
(* does not take it: a net of no name, an arc that ends at a place or a    *)
(* transition of no name, an empty handler, literal data that is no object.*)
UnreadFault(tb) ==
  \/ NameOf(tb.header) = ""
  \/ \E i \in DOMAIN tb.arcs : "" \in {tb.arcs[i].place, tb.arcs[i].transition}
  \/ \E f \in tb.facts :
       \/ f.about[1] = "transition.handler" /\ f.given = ""
       \/ f.about[1] = "arc.produce-data" /\ f.given[1] # "object"

(* Whatever else the schema or _validate_net would refuse, the resolver or *)
(* the timer check has refused with a diagnostic at a statement.  A net    *)
(* they let pass is refused without one (_validate_projection raises what  *)
(* parse_net raised) exactly when it has one of those four faults.         *)
OnlyTheUnreadIsUndiagnosed ==
  \A o \in Outcomes :
    KindOf(sources[1].header) = "net" /\ o.verdict # "refused" =>
      (o.verdict = "undiagnosed" <=> UnreadFault(tables))

(* An authored handle that metadata keeps points, in the final order of    *)
(* arcs, at the arc its chain wrote and at that handle's documentation.    *)
HandlesFollowTheirArcs ==
  \A net \in ResolvedNets : \A h \in net.handles :
    LET arc == net.arcs[h.index]
        chain == Elem({s \in Seqs!ToSet(Written(sources)) :
                         s.kind = "chain" /\ s.handle = {h.name}})
    IN  /\ <<arc.mode, arc.color>> = <<chain.segments[1].mode, chain.segments[1].color>>
        /\ {arc.from[2], arc.to[2]} =
             {chain.segments[1].place, chain.segments[1].transition}
        /\ arc.attributes = Carried(tables, {<<"arcHandle", h.name>>})

-----------------------------------------------------------------------------
(* Emission.                                                                *)

Isolated(net) ==
  NamesIn(net.transitions) \
    UNION {{arc.from[2], arc.to[2]} : arc \in Seqs!ToSet(net.arcs)}

(* What the emission is known not to carry: transitions no arc touches,    *)
(* and the documentation of a produce arc's authored handle.               *)
Expressible(net) ==
  /\ Isolated(net) = {}
  /\ \A i \in DOMAIN net.arcs :
       IsInput(net.arcs[i]) \/ net.arcs[i].attributes = {}

(* Bare arrows are read as the generic color, so they stand for the colors *)
(* of the arcs only where that is the one they have.                       *)
CompactSafe(net) == \A i \in Elided(net) : net.arcs[i].color = "token"

(* A payload always has extensions once it has been written.               *)
WithExtensions(net) ==
  [net EXCEPT !.extensions = IF HasPayload(net) /\ @ = {} THEN {EmptyObject} ELSE @]

(* A float too large to be read as an integer, and too small to be written *)
(* with an exponent, is written as an integer nonetheless.                 *)
Restatable(net) ==
  \A s \in Seqs!ToSet(Emitted(net, FALSE).statements) :
    s.kind = "fact" /\ s.about[1] \in JsonMembers => Readable(s.given)

(* Canonical and compact source compile to the net they were emitted from, *)
(* in every order, with every handle and up to the spelling of numbers,    *)
(* wherever the emission can express the net; a composition's source       *)
(* compiles to the composition.                                            *)
EmissionIsFaithful ==
  /\ \A c \in ResolvedCompositions :
       Outcome(TablesOf(<<EmittedComposition(c)>>)) \in Outcomes
  /\ \A net \in {n \in ResolvedNets : Expressible(n) /\ Restatable(n)} :
       \A compact \in IF CompactSafe(net) THEN BOOLEAN ELSE {FALSE} :
         Recompiled(net, compact) =
           [verdict |-> "resolved", result |-> {WithValues(WithExtensions(net), CanonicalOf)}]

(* spec/petrinet-language.md: "Canonical DSL is LF-terminated, explicit,   *)
(* deterministic, and a fixed point."                                      *)
CanonicalSourceCompiles ==
  \A net \in ResolvedNets : Recompiled(net, FALSE).verdict = "resolved"

-----------------------------------------------------------------------------
(* The account.                                                             *)

(* What a reader of an account is meant to learn.  Left out on purpose or  *)
(* by omission: the maturity of a timer, how arcs of different transitions *)
(* interleave, the order of the places, and the payload of the DSL.        *)
Meant(net) ==
  LET place(p) == [p EXCEPT !.attributes = {a \in @ : a[1] \in DocumentationMembers}]
      transition(t) ==
        [t EXCEPT !.timer = {[timer EXCEPT !.maturity = {}] : timer \in @}]
      touching(end, input) ==
        Subsequence(net.arcs, {k \in DOMAIN net.arcs :
                                 /\ IsInput(net.arcs[k]) = input
                                 /\ end \in {net.arcs[k].from, net.arcs[k].to}})
      ofTransition(end) == <<touching(end, TRUE), touching(end, FALSE)>>
  IN  [name |-> net.name, description |-> net.description,
       annotations |-> net.annotations, marking |-> net.marking,
       places |-> {place(p) : p \in Seqs!ToSet(net.places)},
       transitions |-> [i \in DOMAIN net.transitions |->
                          transition(net.transitions[i])],
       arcs |-> [i \in DOMAIN net.transitions |->
                   ofTransition(<<"transition", net.transitions[i].name>>)]]

WithoutStatement(i) ==
  [sources[1] EXCEPT !.statements = Seqs!RemoveAt(@, i)]

(* Two nets that differ in anything the account is meant to tell have      *)
(* different accounts, whichever statement the second one lacks.           *)
AccountTellsNetsApart ==
  InOneSource("net") =>
    \A net \in ResolvedNets, i \in DOMAIN sources[1].statements :
      \A other \in NetOutcome(TablesOf(<<WithoutStatement(i)>>)).result :
        Explained(net) = Explained(other) => Meant(net) = Meant(other)

-----------------------------------------------------------------------------
(* Composition.                                                             *)

PortsIn(uses) ==
  UNION {{<<uses[i].alias, p>> : p \in NamesIn(Library[uses[i].ref].places)} :
           i \in DOMAIN uses}

(* The ports some chain of wires, followed either way, leads to from n.    *)
ConnectedTo(wires, n) ==
  LET touching(S) == UNION {{wires[i].from, wires[i].to} :
                              i \in {j \in DOMAIN wires :
                                       {wires[j].from, wires[j].to} \cap S # {}}}
      within[k \in 0..Len(wires)] == IF k = 0 THEN {n}
                           ELSE within[k - 1] \cup touching(within[k - 1])
  IN  within[Len(wires)]

Held(marking, p) == IF p \in DOMAIN marking THEN marking[p] ELSE <<>>

(* The tokens a port's own net puts on it.                                 *)
OwnTokens(uses, n) == Held(UsedNet(uses, n[1]).marking, n[2])

Positions(s, x) == {i \in DOMAIN s : s[i] = x}

FusionFollows(uses, wires, merged, rewrite) ==
  LET home(n) == PlaceOf(merged, Renamed(rewrite, n))
      standing(n, x) == {<<n, i>> : i \in Positions(OwnTokens(uses, n), x)}
      follows(n, place, class, all) ==
        /\ {m \in PortsIn(uses) : home(m) = place} = class
        /\ Seqs!ToSet(place.accepts) =
             UNION {Seqs!ToSet(QPlace(uses, m).accepts) : m \in class}
        /\ place.port = IF n \in Wired(wires) THEN {} ELSE QPlace(uses, n).port
        /\ \A x \in UNION {Seqs!ToSet(OwnTokens(uses, m)) : m \in class}
                     \cup Seqs!ToSet(all) :
             Cardinality(Positions(all, x)) =
               Cardinality(UNION {standing(m, x) : m \in class})
  IN  \A n \in PortsIn(uses) :
        follows(n, home(n), ConnectedTo(wires, n), Held(merged.marking, home(n).name))

(* Two places are one in the merged net exactly when wires connect them.   *)
(* A connected class accepts what its members accept, has lost its ports   *)
(* and starts with the tokens of its members together, none lost and none  *)
(* doubled; a place no wire touches is on the boundary still.              *)
FusionFollowsTheWires ==
  \A c \in ResolvedCompositions :
    FusionFollows(c.uses, c.wires, Merged(c.uses, c.wires),
                  RewriteMap(c.uses, Fusion(c.wires)))

(* A composition of valid nets merges to a valid net: arcs, timers and     *)
(* bindings still name places that exist and accept their colors.  Nor     *)
(* does merging hide or add an advice of the linter: a transition that     *)
(* only consumes is named after the merge exactly when it was before.      *)
MergedNetIsValid ==
  LET valid(uses, merged) ==
        /\ ValidNet(merged)
        /\ {t.name : t \in LintFindings(merged)} =
             UNION {{<<uses[i].alias, t.name>> :
                       t \in LintFindings(Library[uses[i].ref])} : i \in DOMAIN uses}
  IN  \A c \in ResolvedCompositions : valid(c.uses, Merged(c.uses, c.wires))

MergedContent(net) ==
  <<{[place EXCEPT !.accepts = Seqs!ToSet(@)] : place \in Seqs!ToSet(net.places)},
    BagOf(net.transitions), BagOf(net.arcs), Bags(net.marking)>>

(* The order in which wires are written changes nothing in the merged net. *)
WiringOrderIsImmaterial ==
  \A c \in ResolvedCompositions :
    Cardinality({MergedContent(Merged(c.uses, wires)) :
                   wires \in {c.wires} \cup Reorderings(c.wires)}) = 1

(* What is written, not how it is arranged within a source, over several   *)
(* sources or among the wires, decides what the compiler and the merge     *)
(* make of it.                                                             *)
ArrangementIsImmaterial ==
  OrderIsImmaterial /\ SplitIsImmaterial /\ WiringOrderIsImmaterial

(* docs of merge_nets, step 4: arcs are qualified "preserving the          *)
(* Arc-centric representation": what an arc does is what it did before.    *)
ArcsSurviveTheMerge ==
  \A c \in ResolvedCompositions :
    LET behaviour(arc) == [weight |-> arc.weight, filter |-> arc.filter,
                           correlate |-> arc.correlate, data |-> arc.data,
                           cel |-> arc.cel]
        before == Seqs!FlattenSeq(
          [i \in DOMAIN c.uses |-> Library[c.uses[i].ref].arcs])
        after == Merged(c.uses, c.wires).arcs
    IN  [i \in DOMAIN before |-> behaviour(before[i])] =
        [i \in DOMAIN after |-> behaviour(after[i])]
=============================================================================
