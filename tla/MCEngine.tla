------------------------------ MODULE MCEngine ------------------------------
(***************************************************************************)
(* A small net to run the engine on.  Tokens: two jobs a and b, a result   *)
(* r, and the times t0 and t1 of a clock.                                  *)
(*   pair   takes two jobs from one place, the second one whose tag is "a" *)
(*          and so an a, as b's tag is no string, and reads the jobs that  *)
(*          a handler, which raises at an a, agrees to                     *)
(*   late   takes a job that is due by the clock; only a ever is, at t1    *)
(*   audit  takes a result, unless an a queues beside it as a correlated   *)
(*          inhibitor; its guard refuses attempt 1 and raises at 3         *)
(*   feed   has no binding arcs, only an inhibitor; it makes a result      *)
(*   stub   reads the clock from t1 on, and has no handler                 *)
(* Its consumer may also ask for a transition "none".                      *)
(***************************************************************************)
EXTENDS PropertyPass, TLC

AB == INSTANCE ArcBindings

CONSTANTS a, b, r, t0, t1

In(id, place, mode, weight, match) ==
  [id |-> id, place |-> place, mode |-> mode, weight |-> weight,
   match |-> match]

MCPlace == {"job", "out", "clock"}
MCTransitionOrder == <<"pair", "late", "audit", "feed", "stub">>
MCArcOrder ==
  "pair"  :> <<In(1, "job", "consume", 1, {a, b}), In(2, "job", "consume", 1, {a}),
              In(3, "job", "read", 1, {b})>> @@
  "late"  :> <<In(1, "clock", "read", 1, {t0, t1}), In(2, "job", "consume", 1, {a, b})>> @@
  "audit" :> <<In(1, "out", "consume", 1, {r}), In(2, "job", "inhibit", 1, {a, b})>> @@
  "feed"  :> <<In(1, "out", "inhibit", 1, {r})>> @@
  "stub"  :> <<In(1, "clock", "read", 1, {t1})>>
MCColorOf(arc) ==
  CASE arc.place = "job" -> {a, b} [] arc.place = "out" -> {r}
    [] arc.place = "clock" -> {t0, t1}
Tagged == [kind |-> "cel", equality |-> {[field |-> "tag", text |-> "a"]}]
MCPredicateOf(arc) ==
  CASE arc = MCArcOrder["pair"][2] -> {Tagged}
    [] arc = MCArcOrder["pair"][3] -> {[kind |-> "handler", equality |-> {}]}
    [] arc = MCArcOrder["stub"][1] -> {[kind |-> "cel", equality |-> {}]}
    [] OTHER -> {}
MCTextAt(token, field) == IF token = a /\ field = "tag" THEN {"a"} ELSE {}
MCEvaluated(arc, token) ==
  CASE arc.place = "clock" -> IF token = t1 THEN "true" ELSE "other"
    [] arc.mode = "read" -> IF token = b THEN "true" ELSE "raises"
    [] OTHER -> IF token = a THEN "true" ELSE "raises"
MCInArcs == [t \in Transition |-> Seqs!ToSet(MCArcOrder[t])]
MCClockOf == [t \in Transition |-> IF t = "late" THEN "clock" ELSE "none"]
MCCorrelates(arc, token, bound) == arc.place = "job" => token = a
MCTimerHolds(t, clock, bound) == clock = t1 /\ Head(bound["job"]) = a
MCGuardVerdict(t, bound, attempt) ==
  IF t = "audit" /\ attempt = 1 THEN "false"
  ELSE IF t = "audit" /\ attempt = 3 THEN "raises" ELSE "true"
MCBindings == [t \in Transition |-> AB!ArcBindings(t)]

MCAccepts == "job" :> {a, b} @@ "out" :> {r} @@ "clock" :> {t0, t1}
Produces(place, type, fallback, data) ==
  [place |-> place, type |-> type, fallback |-> fallback, data |-> data]
MCTemplates ==
  "pair"  :> <<Produces("out", {r}, "data", r), Produces("job", {a, b}, "none", a)>> @@
  "late"  :> <<Produces("out", {r}, "cel", r)>> @@
  "audit" :> <<>> @@
  "feed"  :> <<Produces("out", {r}, "data", r)>> @@
  "stub"  :> <<>>
MCComputed(template, bound) == IF Head(bound["job"]) = b THEN "error" ELSE r
MCOutArcs ==
  [t \in Transition |-> {MCTemplates[t][k].place : k \in DOMAIN MCTemplates[t]}]

Put(p, s) == [NoBound EXCEPT ![p] = s]
MCOutputs ==
  "pair"  :> {NoBound, Put("job", <<b>>)} @@
  "late"  :> {NoBound} @@
  "audit" :> {NoBound} @@
  "feed"  :> {NoBound, Put("out", <<b>>)} @@
  "stub"  :> {NoBound}
(* What may be deposited: the data and cel templates always deliver.       *)
One(p, x) == [q \in Place |-> [v \in Token |-> IF q = p /\ v = x THEN 1 ELSE 0]]
MCDeposits ==
  "pair"  :> {One("out", r), Add(One("out", r), One("job", b))} @@
  "late"  :> {One("out", r)} @@
  "audit" :> {NoTokens} @@
  "feed"  :> {One("out", r)} @@
  "stub"  :> {NoTokens}

MCInitial == "job" :> <<b, a, a>> @@ "out" :> <<>> @@ "clock" :> <<t0>>
MCPriority == "pair" :> 1 @@ "late" :> 1 @@ "audit" :> 2 @@ "feed" :> 1 @@ "stub" :> 0
Place1(p, x) == [place |-> p, token |-> x]
MCArrivals ==
  {[replace |-> TRUE, placements |-> <<Place1("clock", t1)>>],
   [replace |-> FALSE, placements |-> <<Place1("job", b), Place1("out", r), Place1("job", a)>>],
   [replace |-> FALSE, placements |-> <<Place1("out", r), Place1("out", a)>>]}

-----------------------------------------------------------------------------
(* The checks of the property pass: tokens are their own keys, but for     *)
(* times, which have none.                                                 *)

Key == [v \in Token |-> IF v \in {t0, t1} THEN "absent" ELSE ToString(v)]

NoKey == [v \in Token |-> "all"]

ACheck(kind, scope, place) ==
  [kind |-> kind, scope |-> scope, place |-> place, max |-> 1, key |-> Key,
   match |-> {b}, places |-> {"job"}, transition |-> "pair"]

MCChecks ==
  {ACheck("at-most-n", "always", "job"),
   [ACheck("at-most-n", "always", "job") EXCEPT !.key = NoKey, !.max = 3],
   ACheck("place-empty", "quiescence", "job"),
   ACheck("marking-invariant", "always", "out"),
   ACheck("key-correlation", "always", "out"),
   ACheck("firing-binding", "firing", "job"),
   [ACheck("eventually-reaches", "end", "job") EXCEPT !.places = {"out"}],
   [ACheck("eventually-reaches", "end", "clock") EXCEPT
      !.places = {"clock"}, !.key = [v \in Token |-> ToString(v)]]}

MCCountsHold(check, count) == count["job"] >= count["out"]
=============================================================================
