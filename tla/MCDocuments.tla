---------------------------- MODULE MCDocuments ----------------------------
(***************************************************************************)
(* Small instances of the document pipeline: one script per area of the    *)
(* language, each told by the name in its header.                          *)
(***************************************************************************)
EXTENDS PictureLaws

Header(kind, name) == {[kind |-> kind, name |-> name, description |-> {}]}

Described(name, text) == {[kind |-> "net", name |-> name, description |-> {text}]}

Object(kind, name) == [kind |-> kind, name |-> name]

Arrow(mode, place, transition, color) ==
  [mode |-> mode, place |-> place, transition |-> transition, color |-> color]

ChainOf(handle, segments) ==
  [kind |-> "chain", handle |-> handle, segments |-> segments]

Value(member, type, name, value) == Fact(member, <<type, name>>, "", value)

Order(type, name, rank) == [kind |-> "order", of |-> <<type, name>>, rank |-> rank]

Halves(n) == <<"number", [integer |-> FALSE, halves |-> n]>>

Truth(b) == <<"boolean", b>>

Quoted(s) == <<"string", s>>

Entries(entries) == <<"object", entries>>

At(x, y) == Entries(<<<<"x", x>>, <<"y", y>>>>)

Bound(n) == Entries(<<<<"key", Quoted("k")>>, <<"max", n>>>>)

Use(alias, ref) == [kind |-> "use", alias |-> alias, ref |-> ref]

Wire(from, to) == [kind |-> "wire", from |-> from, to |-> to]

Port(type, direction) == [type |-> type, direction |-> direction]

-----------------------------------------------------------------------------
(* Appearance, colors, ports and capacities.                               *)

Shape ==
  [header |-> Header("net", "shape"), opening |-> <<>>, more |-> 3, further |-> {},
   pool |->
     {Object("place", "p"), Object("transition", "u"),
      ChainOf({}, <<Arrow("consume", "p", "t", "token"),
                    Arrow("produce", "q", "t", "job")>>),
      ChainOf({}, <<Arrow("produce", "p", "u", "job")>>),
      ChainOf({}, <<Arrow("read", "q", "t", "job")>>),
      Value("place.accepts", "place", "p", <<"token", "job">>),
      Value("place.accepts", "place", "p", <<"job">>),
      Value("place.accepts", "place", "q", <<"token">>),
      Value("place.port", "place", "p", Port("job", "output")),
      Value("place.capacity", "place", "q", Bound(Integral(1))),
      Value("documentation.description", "place", "q", "text")}]

(* Elaborations of the arcs of three runs, one of them of two arcs.        *)
Elaboration ==
  [header |-> Header("net", "elaboration"),
   opening |-> <<ChainOf({"h"}, <<Arrow("consume", "p", "t", "job")>>),
                 ChainOf({"k"}, <<Arrow("inhibit", "q", "t", "job")>>),
                 ChainOf({"l"}, <<Arrow("read", "q", "t", "job"),
                                  Arrow("produce", "p", "t", "job")>>)>>,
   more |-> 3, further |-> {},
   pool |->
     {ArcFact("arc.weight", "h", Integral(2)), ArcFact("arc.weight", "k", Integral(2)),
      ArcFact("arc.weight", "l", Integral(1)), ArcFact("arc.weight", "h", Halves(4)),
      ArcFact("arc.predicate", "h", <<"cel", "good">>),
      ArcFact("arc.predicate", "k", <<"cel", "bad">>),
      ArcFact("arc.correlate", "k", "good"), ArcFact("arc.correlate", "l", "good"),
      ArcFact("arc.produce-data", "l", Entries(<<<<"n", Integral(1)>>>>)),
      ArcFact("arc.produce-data", "l", Integral(1)),
      ArcFact("arc.produce-cel", "l", "good"), ArcFact("arc.produce-cel", "h", "good"),
      MetadataDescription(<<"arcHandle", "h">>, "text")}]

Timing ==
  LET timer(clock, cel) ==
        Value("transition.timer", "transition", "t", [clock |-> clock, cel |-> cel])
      bind(variable, place) ==
        Fact("transition.timer-bind", <<"transition", "t">>, variable, place)
  IN  [header |-> Header("net", "timing"),
       opening |-> <<ChainOf({}, <<Arrow("consume", "p", "t", "job"),
                                   Arrow("produce", "q", "t", "job")>>)>>,
       more |-> 3, further |-> {},
       pool |->
         {timer("q", "good"), timer("z", "good"), timer("q", "bad"),
          Value("transition.timer-maturity", "transition", "t", "good"),
          bind("x", "p"), bind("x", "q"), bind("clock", "p"),
          Value("transition.guard", "transition", "t", "guard"),
          Value("transition.handler", "transition", "u", "handler"),
          Value("transition.priority", "transition", "t", 0),
          Value("transition.priority", "transition", "t", 1)}]

(* Runs and transitions to be ordered, and metadata of their handles.      *)
Ordering ==
  [header |-> Header("net", "ordering"),
   opening |-> <<ChainOf({"h"}, <<Arrow("consume", "p", "t", "token"),
                                  Arrow("produce", "q", "t", "token")>>),
                 ChainOf({"k"}, <<Arrow("consume", "q", "u", "token")>>)>>,
   more |-> 4, further |-> {},
   pool |->
     {Order("transition", "t", 2), Order("transition", "u", 1),
      Order("transition", "u", 2),
      Order("arcHandle", "h", 2), Order("arcHandle", "k", 1),
      ViewRoute("main", "k", <<"array", <<At(Integral(1), Integral(1))>>>>),
      Value("documentation.description", "arcHandle", "k", "text")}]

(* Geometry and markings of a view, and fusion places.                     *)
Viewing ==
  LET fusing(p, truth) == MetadataAnnotation(MetadataTarget("place", p), "fusion", truth)
      route(h, points) == ViewRoute("main", h, <<"array", points>>)
  IN  [header |-> Header("net", "viewing"),
       opening |-> <<ChainOf({"h"}, <<Arrow("consume", "p", "t", "token")>>),
                     ChainOf({"k"}, <<Arrow("read", "p", "t", "job")>>),
                     ChainOf({}, <<Arrow("produce", "p", "u", "job"),
                                   Arrow("produce", "q", "t", "job")>>)>>,
       more |-> 3, further |-> {},
       pool |->
         {Object("place", "z"), fusing("p", Truth(TRUE)), fusing("p", Integral(1)),
          fusing("p", Halves(0)), fusing("z", Quoted("yes")),
          route("h", <<At(Integral(1), Halves(1)), At(Integral(2), Integral(0))>>),
          route("k", <<At(Halves(1), Integral(1))>>),
          route("k", <<>>),
          ViewPosition("main", <<"place", "p">>, At(Integral(0), Halves(-1))),
          ViewPosition("main", <<"transition", "t">>, At(Integral(3), Integral(3))),
          ViewPosition("main", <<"transition", "t">>, At(Integral(3), Truth(TRUE))),
          MetadataDescription(<<"transition", "t">>, "to -> fro"),
          NamedMarking("warm", "p", 1, {}), InitialMarking("p", 2, {})}]

(* Templates, markings and the numbers in them: equal under two spellings, *)
(* out of the range of integers, and told twice.                           *)
Tokens ==
  LET count(n) == Entries(<<<<"n", n>>>>)
  IN  [header |-> Described("tokens", "text"), opening |-> <<Object("place", "p")>>,
       more |-> 3, further |-> {},
       pool |->
         {InitialMarking("p", 2, {}), InitialMarking("p", 1, {"x"}),
          NamedMarking("warm", "p", 1, {"x"}), NamedMarking("warm", "q", 1, {}),
          NamedMarking("initial", "p", 1, {}),
          TemplateDefinition("x", count(Integral(1))),
          TemplateDefinition("x", count(Halves(2))),
          TemplateDefinition("x", count(Truth(TRUE))),
          TemplateDefinition("x", Integral(1)),
          Value("place.accepts", "place", "p", <<"job">>),
          Value("place.accepts", "place", "p", <<"job", "token">>),
          MetadataDescription(MetadataTarget("document", "any"), "other"),
          MetadataAnnotation(MetadataTarget("document", "any"), "seen",
                             <<"array", <<<<"null">>, Integral(1)>>>>),
          MetadataAnnotation(MetadataTarget("document", "any"), "seen",
                             <<"array", <<<<"null">>, Halves(2)>>>>),
          Extensions(count(Halves(8))), Extensions(count(Integral(4))),
          Extensions(Entries(<<<<"n", <<"null">>>>, <<"n", <<"null">>>>>>))}]

(* What is empty, told twice or too large.                                 *)
Lacking ==
  LET timer(clock, cel) ==
        Value("transition.timer", "transition", "t", [clock |-> clock, cel |-> cel])
  IN  [header |-> Header("net", "lacking"),
       opening |-> <<ChainOf({"h"}, <<Arrow("consume", "p", "t", "token"),
                                      Arrow("produce", "q", "t", "token")>>),
                     TemplateDefinition("", Entries(<<>>))>>,
       more |-> 2, further |-> {},
       pool |->
         {Object("place", ""), Object("transition", ""),
          ChainOf({}, <<Arrow("consume", "", "t", "token")>>),
          ChainOf({""}, <<Arrow("produce", "p", "", "token")>>),
          ChainOf({}, <<Arrow("read", "p", "t", "")>>),
          Value("place.accepts", "place", "p", <<"token", "token">>),
          Value("place.accepts", "place", "p", <<"token", "">>),
          Value("place.accepts", "place", "", <<"token">>),
          Value("place.port", "place", "p", Port("", "input")),
          Value("transition.handler", "transition", "t", ""),
          Value("transition.handler", "transition", "", "handler"),
          Value("transition.guard", "transition", "t", ""),
          Value("transition.priority", "transition", "t", 4),
          timer("p", ""), timer("", "good"), timer("p", "good"),
          Value("transition.timer-maturity", "transition", "t", ""),
          Fact("transition.timer-bind", <<"transition", "t">>, "x", ""),
          ArcFact("arc.predicate", "h", <<"handler", "">>),
          ArcFact("arc.produce-cel", "h", ""),
          ArcFact("arc.correlate", "", "good"),
          MetadataAnnotation(<<"place", "p">>, "", Truth(TRUE)),
          ViewPosition("", <<"place", "p">>, At(Integral(1), Integral(1))),
          Order("arcHandle", "h", 4), InitialMarking("p", 4, {}),
          InitialMarking("p", 1, {""}), InitialMarking("", 1, {}),
          NamedMarking("", "p", 1, {})}]

Nameless ==
  [header |-> Header("net", ""), opening |-> <<>>, more |-> 1,
   further |-> {{}, Header("net", "")},
   pool |-> {ChainOf({}, <<Arrow("consume", "p", "t", "token")>>),
             ChainOf({}, <<Arrow("consume", "p", "t", "")>>)}]

(* Two sources with and without headers.                                   *)
Sourced(header, others) ==
  [header |-> header, opening |-> <<>>, more |-> 3,
   further |-> {{}, Header("net", "unnamed"), Header("net", "sourced"),
                Described("unnamed", "text"), Header("composition", "unnamed")},
   pool |->
     {ChainOf({"h"}, <<Arrow("consume", "p", "t", "token")>>),
      ChainOf({"k"}, <<Arrow("consume", "p", "t", "job")>>),
      Value("place.accepts", "place", "p", <<"token">>),
      Value("documentation.description", "arcHandle", "h", "text")} \cup others]

-----------------------------------------------------------------------------
(* Compositions of two nets: a stage takes jobs in and gives jobs out when *)
(* its timer lets it, a sink takes them in and may be inhibited.           *)

APlace(name, accepts, port) ==
  [name |-> name, accepts |-> accepts, port |-> port, capacity |-> {},
   attributes |-> {}]

ATransition(name) == [name |-> name, timer |-> {}, attributes |-> {}]

AnArc(mode, place, transition, color) ==
  LET ends == <<<<"place", place>>, <<"transition", transition>>>>
  IN  [from |-> ends[IF mode = "produce" THEN 2 ELSE 1],
       to |-> ends[IF mode = "produce" THEN 1 ELSE 2],
       mode |-> mode, color |-> color, destination |-> place, weight |-> 1,
       filter |-> {}, correlate |-> {}, data |-> {}, cel |-> {}, attributes |-> {}]

JobToken == <<"job", ValueOf(Entries(<<<<"n", Integral(1)>>>>))>>

Stage ==
  [name |-> "stage",
   places |-> <<[APlace("in", <<"job">>, {Port("job", "input")}) EXCEPT
                   !.attributes = {<<"documentation.annotation", "fusion", Truth(FALSE)>>,
                                   <<"documentation.annotation", "owner", Quoted("in")>>}],
                [APlace("out", <<"job", "token">>, {Port("job", "output")}) EXCEPT
                   !.attributes = {<<"documentation.annotation", "owner", Quoted("out")>>}]>>,
   transitions |-> <<[ATransition("work") EXCEPT
                        !.timer = {[clock |-> "out", cel |-> "good", maturity |-> {},
                                    bind |-> {<<"x", "in">>}]}]>>,
   arcs |-> <<[AnArc("consume", "in", "work", "job") EXCEPT !.filter = {<<"cel", "good">>}],
              [AnArc("produce", "out", "work", "job") EXCEPT !.data = {JobToken[2]}]>>,
   marking |-> [p \in {"in", "out"} |->
                  IF p = "in" THEN <<JobToken>> ELSE <<JobToken, JobToken>>]]

Sink ==
  [name |-> "sink",
   places |-> <<APlace("in", <<"job">>, {Port("job", "input")}),
                APlace("out", <<"token">>, {Port("token", "output")})>>,
   transitions |-> <<ATransition("drop")>>,
   arcs |-> <<AnArc("consume", "in", "drop", "job"),
              [AnArc("inhibit", "out", "drop", "token") EXCEPT !.correlate = {"good"}]>>,
   marking |-> [p \in {"out"} |-> <<<<"token", EmptyObject>>>>]]

(* A sink whose author has told the linter so, and draws its input, which  *)
(* is a port, as instances.                                                *)
Drain ==
  [Sink EXCEPT !.places[1].attributes =
                 {<<"documentation.annotation", "fusion", Truth(TRUE)>>},
               !.transitions[1].attributes =
                 {<<"documentation.annotation", "lint",
                    ValueOf(Entries(<<<<"suppress",
                      <<"array", <<Quoted("consume-without-produce")>>>>>>>>))>>}]

Broken == [Sink EXCEPT !.transitions = <<>>]

(* An output that is computed rather than copied.                          *)
Computed ==
  [Stage EXCEPT !.arcs[2] = [AnArc("produce", "out", "work", "job") EXCEPT
                               !.cel = {"good"}]]

MCLibrary ==
  [ref \in {"stage", "sink", "drain", "broken", "computed"} |->
     CASE ref = "stage" -> Stage [] ref = "sink" -> Sink [] ref = "drain" -> Drain
       [] ref = "broken" -> Broken [] ref = "computed" -> Computed]

MCPortOrder ==
  <<<<"a", "in">>, <<"a", "out">>, <<"b", "in">>, <<"b", "out">>,
    <<"c", "in">>, <<"c", "out">>>>

Using ==
  [header |-> Header("composition", "using"), opening |-> <<>>, more |-> 3,
   further |-> {{}},
   pool |-> {Use("a", "stage"), Use("a", "sink"), Use("b", "broken"),
             Use("b", "absent"), Use("c", "sink"),
             Use("b", "drain"), Wire(<<"a", "out">>, <<"c", "in">>), Wire(<<"c", "in">>, <<"a", "out">>),
             Wire(<<"c", "out">>, <<"a", "in">>), Wire(<<"a", "none">>, <<"c", "in">>)}]

Wiring ==
  [header |-> Header("composition", "wiring"),
   opening |-> <<Use("c", "stage"), Use("a", "stage"), Use("b", "sink"),
                 Wire(<<"a", "out">>, <<"b", "in">>)>>,
   more |-> 3, further |-> {},
   pool |-> {Use("c", ""), Wire(<<"a", "">>, <<"c", "in">>),
             Wire(<<"a", "out">>, <<"c", "in">>),
             Wire(<<"c", "out">>, <<"a", "in">>), Wire(<<"c", "out">>, <<"b", "in">>),
             Wire(<<"a", "out">>, <<"a", "in">>), Wire(<<"b", "out">>, <<"a", "in">>)}]

-----------------------------------------------------------------------------

Plumbing ==
  [header |-> Header("composition", "plumbing"),
   opening |-> <<Use("a", "computed")>>, more |-> 0, further |-> {}, pool |-> {}]

Unnamed ==
  [header |-> Header("composition", ""), opening |-> <<>>, more |-> 1,
   further |-> {}, pool |-> {Use("a", "stage")}]

MCScripts ==
  {Shape, Elaboration, Timing, Ordering, Viewing, Tokens, Lacking, Nameless,
   Using, Wiring, Unnamed,
   Sourced({}, {}), Sourced(Header("net", "sourced"), {Object("transition", "u")})}

ShapeScripts == {Shape}

MergeScripts == {Plumbing}

MCUncompilable == {"bad"}

MCTokenGroupLimit == 2

MCTokenSort ==
  LET count(n) == Entries(<<<<"n", n>>>>)
  IN  <<<<"job", count(Integral(1))>>, <<"job", count(Truth(TRUE))>>,
        <<"token", count(Integral(1))>>, <<"token", count(Truth(TRUE))>>,
        <<"token", Rendered(EmptyObject)>>>>

MCSafeInteger == 3

MCPlainBelow == 5

MCLargestFinite == 6

MCNesting == 2

MCArrowed == {"to -> fro"}

MCGeneratedHandles ==
  <<"arc_0", "arc_1", "arc_2", "arc_3", "arc_4", "arc_5", "arc_6", "arc_7">>

MCGeneratedTemplates == <<"token_0", "token_1", "token_2">>
=============================================================================
