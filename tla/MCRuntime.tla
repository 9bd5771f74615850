------------------------------ MODULE MCRuntime -----------------------------
(***************************************************************************)
(* Small nets to run the Runtime on.                                       *)
(***************************************************************************)
EXTENDS Runtime, ArcBindings, TLC

CONSTANTS v, w  \* token values

In(id, place, mode, weight, match) ==
  [id |-> id, place |-> place, mode |-> mode, weight |-> weight,
   match |-> match]

MCBindings == [t \in Transition |-> ArcBindings(t)]

Tokens(bag) == [p \in Place |-> [x \in Token |-> IF <<p, x>> \in DOMAIN bag
                                                 THEN bag[<<p, x>>] ELSE 0]]
One(p) == Tokens(<<p, v>> :> 1)
Append1(p) == [places |-> {p}, add |-> One(p), replace |-> FALSE]
Replace1(p) == [places |-> {p}, add |-> One(p), replace |-> TRUE]

(* The timeout race: work reads the window that expire consumes, expire's  *)
(* handler cancels the scope of the work, and report waits until no job is *)
(* queued.                                                                 *)
RacePlace == {"job", "window", "done", "alert"}
RaceTransition == {"work", "expire", "report"}
RaceIn ==
  "work"   :> {In(1, "job", "consume", 1, {v}), In(2, "window", "read", 1, {v})} @@
  "expire" :> {In(1, "window", "consume", 1, {v})} @@
  "report" :> {In(1, "done", "consume", 1, {v}), In(2, "job", "inhibit", 1, {v})}
RaceOut == "work" :> {"done"} @@ "expire" :> {"alert"} @@ "report" :> {"alert"}
RaceDeposits ==
  "work"   :> {One("done")} @@
  "expire" :> {One("alert"), Tokens(<<>>)} @@
  "report" :> {One("alert")}
RaceInitial == Tokens(<<"job", v>> :> 1 @@ <<"window", v>> :> 1)
RaceArrivals ==
  {Append1("job"), Replace1("window"),
   [places |-> {"job", "done"}, replace |-> FALSE,
    add |-> Tokens(<<"job", v>> :> 1 @@ <<"done", v>> :> 1)]}
RaceScopes == "work" :> {"s"} @@ "expire" :> {"none"} @@ "report" :> {"none"}
RaceLanes == "work" :> "svc" @@ "expire" :> "svc" @@ "report" :> "cpu"
RaceCapacity == "svc" :> 2 @@ "cpu" :> 1

(* Two token values, a weighted arc, and two transitions competing for one *)
(* place: pair takes any two tokens, pick takes one w while a v is there   *)
(* to be read, and poll reads without consuming or producing, so it can    *)
(* overlap itself up to its lane's capacity.                               *)
MixPlace == {"in", "out", "log"}
MixTransition == {"pair", "pick", "poll"}
MixIn ==
  "pair" :> {In(1, "in", "consume", 2, {v, w})} @@
  "pick" :> {In(1, "in", "consume", 1, {w}), In(2, "in", "read", 1, {v})} @@
  "poll" :> {In(1, "in", "read", 1, {v})}
MixOut == "pair" :> {"out"} @@ "pick" :> {"log"} @@ "poll" :> {}
MixDeposits ==
  "pair" :> {One("out")} @@ "pick" :> {One("log")} @@ "poll" :> {Tokens(<<>>)}
MixInitial == Tokens(<<"in", v>> :> 2 @@ <<"in", w>> :> 1)
MixArrivals == {Append1("in"), Replace1("log")}
MixScopes == "pair" :> {"s", "none"} @@ "pick" :> {"s"} @@ "poll" :> {"none"}
MixLanes == "pair" :> "svc" @@ "pick" :> "cpu" @@ "poll" :> "cpu"
MixCapacity == "svc" :> 1 @@ "cpu" :> 2

NoScopes == [t \in Transition |-> {"none"}]
=============================================================================
