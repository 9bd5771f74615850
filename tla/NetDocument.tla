---------------------------- MODULE NetDocument ----------------------------
(***************************************************************************)
(* A net document as parse_net builds it, what the JSON Schema of nets and *)
(* _validate_net demand of it, and what lint_net says about it.            *)
(*                                                                         *)
(* A net is a record of a name, three sequences and a marking:             *)
(*   places       name, accepts, port, capacity, attributes                *)
(*   transitions  name, timer, attributes                                  *)
(*   arcs         from, to, mode, color, weight, filter, correlate,        *)
(*                destination, data, cel, attributes                       *)
(*   marking      place -> sequence of tokens                              *)
(* An optional member is a set: empty when absent, else a singleton.  An   *)
(* arc's ends are pairs <<"place" or "transition", name>>; its mode is     *)
(* "produce" for an output arc.  Attributes are triples <<member, key,     *)
(* value>> of what no check looks at: handler, guard, priority,            *)
(* description and annotations, whose values are JSON, as are data.        *)
(***************************************************************************)
EXTENDS JsonValues

CONSTANT Uncompilable  (* the expressions the CEL adapter cannot compile   *)

Seqs == INSTANCE SequencesExt

(* The lists and records of a net, whatever is in them.                    *)
IsList(s) == s \in Seq({s[i] : i \in DOMAIN s})

IsNet(net) ==
  /\ IsList(net.places) /\ IsList(net.transitions) /\ IsList(net.arcs)
  /\ \A place \in Seqs!ToSet(net.places) :
       /\ DOMAIN place = {"name", "accepts", "port", "capacity", "attributes"}
       /\ IsList(place.accepts)
  /\ \A t \in Seqs!ToSet(net.transitions) :
       /\ DOMAIN t = {"name", "timer", "attributes"}
       /\ \A timer \in t.timer : DOMAIN timer = {"clock", "cel", "maturity", "bind"}
  /\ \A arc \in Seqs!ToSet(net.arcs) :
       DOMAIN arc = {"from", "to", "mode", "color", "weight", "filter", "correlate",
                     "destination", "data", "cel", "attributes"}
  /\ \A p \in DOMAIN net.marking : IsList(net.marking[p])

NamesIn(s) == {s[i].name : i \in DOMAIN s}

NamesUnique(s) == \A i, j \in DOMAIN s : s[i].name = s[j].name => i = j

AcceptedBy(net, p) ==
  UNION {Seqs!ToSet(net.places[i].accepts) :
           i \in {j \in DOMAIN net.places : net.places[j].name = p}}

Compiles(expressions) == expressions \cap Uncompilable = {}

(* A filter is <<"cel", expression>> or <<"handler", reference>>.          *)
CelOf(filter) == {f[2] : f \in {x \in filter : x[1] = "cel"}}

IsInput(arc) == arc.mode # "produce"

-----------------------------------------------------------------------------
(* The JSON Schema: no name, reference or expression is empty, a place     *)
(* accepts something, and data are objects.  The types it also asks for,   *)
(* and the bounds _validate_net asks for again, are not repeated here.     *)

References == {"transition.handler", "transition.guard"}

FilledPlace(place) ==
  /\ place.name # ""
  /\ place.accepts # <<>> /\ "" \notin Seqs!ToSet(place.accepts)
  /\ \A port \in place.port : port.type # ""

FilledTransition(t) ==
  /\ t.name # ""
  /\ \A a \in t.attributes : a[1] \in References => a[3] # ""
  /\ \A timer \in t.timer :
       "" \notin {timer.clock, timer.cel} \cup timer.maturity
                  \cup {b[2] : b \in timer.bind}

FilledArc(arc) ==
  /\ "" \notin {arc.from[2], arc.to[2], arc.color, arc.destination}
  /\ "" \notin {f[2] : f \in arc.filter} \cup arc.correlate \cup arc.cel
  /\ \A data \in arc.data : data[1] = "object"

FilledToken(token) == token[1] # "" /\ token[2][1] = "object"

SchemaValid(net) ==
  /\ net.name # ""
  /\ \A i \in DOMAIN net.places : FilledPlace(net.places[i])
  /\ \A i \in DOMAIN net.transitions : FilledTransition(net.transitions[i])
  /\ \A i \in DOMAIN net.arcs : FilledArc(net.arcs[i])
  /\ \A p \in DOMAIN net.marking : \A i \in DOMAIN net.marking[p] :
       FilledToken(net.marking[p][i])

-----------------------------------------------------------------------------
(* _validate_net                                                            *)

PortsAccepted(net) ==
  \A i \in DOMAIN net.places : \A port \in net.places[i].port :
    port.type \in Seqs!ToSet(net.places[i].accepts)

ValidConsumeArc(net, arc) ==
  /\ arc.from \in {"place"} \X NamesIn(net.places)
  /\ arc.to \in {"transition"} \X NamesIn(net.transitions)
  /\ arc.color \in AcceptedBy(net, arc.from[2])
  /\ arc.weight >= 1
  /\ arc.mode = "inhibit" => arc.weight = 1
  /\ arc.correlate # {} => arc.mode = "inhibit"
  /\ Compiles(CelOf(arc.filter) \cup arc.correlate)

ValidProduceArc(net, arc) ==
  /\ arc.from \in {"transition"} \X NamesIn(net.transitions)
  /\ arc.to \in {"place"} \X NamesIn(net.places)
  /\ arc.destination = arc.to[2]
  /\ arc.color \in AcceptedBy(net, arc.to[2])
  /\ arc.data = {} \/ arc.cel = {}
  /\ Compiles(arc.cel)

(* The places a transition's candidate binding has tokens of.              *)
BindingSources(net, t) ==
  {arc.from[2] : arc \in {x \in Seqs!ToSet(net.arcs) :
                            x.mode \in {"consume", "read"} /\ x.to[2] = t}}

(* A bind is a pair <<variable, place>>.                                   *)
ValidTimer(net, t, timer) ==
  /\ timer.clock \in NamesIn(net.places)
  /\ \A b \in timer.bind : b[1] # "clock" /\ b[2] \in BindingSources(net, t)
  /\ Compiles({timer.cel} \cup timer.maturity)

TimersValid(net) ==
  \A i \in DOMAIN net.transitions : \A timer \in net.transitions[i].timer :
    ValidTimer(net, net.transitions[i].name, timer)

(* What _validate_net demands before it comes to the timers.               *)
StructureValid(net) ==
  /\ NamesUnique(net.places)
  /\ NamesUnique(net.transitions)
  /\ PortsAccepted(net)
  /\ \A i \in DOMAIN net.arcs :
       IF IsInput(net.arcs[i]) THEN ValidConsumeArc(net, net.arcs[i])
                               ELSE ValidProduceArc(net, net.arcs[i])

ValidNet(net) == StructureValid(net) /\ TimersValid(net)

(* What parse_net takes.                                                   *)
Parses(net) == SchemaValid(net) /\ ValidNet(net)

-----------------------------------------------------------------------------
(* lint_net: transitions that consume and never produce, as declared,      *)
(* unless their annotations suppress the rule.                             *)

Consuming(net) ==
  {arc.to[2] : arc \in {x \in Seqs!ToSet(net.arcs) : x.mode = "consume"}}

Producing(net) ==
  {arc.from[2] : arc \in {x \in Seqs!ToSet(net.arcs) : x.mode = "produce"}}

(* Only the documented shape of the annotation suppresses anything.        *)
SuppressedRules(transition) ==
  LET blocks == {a[3] : a \in {b \in transition.attributes :
                                 b[1] = "documentation.annotation" /\ b[2] = "lint"}}
      lists == {block[2]["suppress"] : block \in
                  {b \in blocks : b[1] = "object" /\ "suppress" \in DOMAIN b[2]}}
  IN  UNION {{rule[2] : rule \in {r \in Seqs!ToSet(list[2]) : r[1] = "string"}} :
               list \in {l \in lists : l[1] = "array"}}

LintFindings(net) ==
  {t \in Seqs!ToSet(net.transitions) :
     t.name \in Consuming(net) \ Producing(net)
     /\ "consume-without-produce" \notin SuppressedRules(t)}
=============================================================================
