------------------------------- MODULE MCTimers -------------------------------
(***************************************************************************)
(* A small net with two clocks to run TimedRuntime on.  A token is the     *)
(* time it carries: the deadline of a job, or what a clock shows.          *)
(***************************************************************************)
EXTENDS TimedRuntime, TLC

In(id, place, mode, match) ==
  [id |-> id, place |-> place, mode |-> mode, weight |-> 1, match |-> match]

One(p, x) ==
  [q \in Place |-> [y \in Token |-> IF q = p /\ y = x THEN 1 ELSE 0]]

(* expire takes a job at its deadline; poll fires in a window of its own   *)
(* clock that can be missed; work takes a job at any time and reads the    *)
(* clock of expire while it runs.                                          *)
TimerPlace == {"job", "beat", "clock", "pulse", "out"}
TimerTransition == {"expire", "poll", "work"}
TimerIn ==
  "expire" :> {In(1, "job", "consume", Token \ {0})} @@
  "poll"   :> {In(1, "beat", "consume", {1})} @@
  "work"   :> {In(1, "job", "consume", {2}), In(2, "clock", "read", Token)}
TimerOut == "expire" :> {"out"} @@ "poll" :> {"out"} @@ "work" :> {"beat"}
TimerDeposits ==
  "expire" :> {One("out", 0)} @@ "poll" :> {One("out", 0)} @@
  "work" :> {One("beat", 1)}

MCClockOf == "expire" :> "clock" @@ "poll" :> "pulse"

(* What the arcs admit: each arc takes or reads one token, and the timer's *)
(* condition blocks the clock values at which it is false.                 *)
Takes(p, x, read, clock, notAt) ==
  [take |-> One(p, x), read |-> read,
   block |-> [q \in Place |-> IF q = clock THEN notAt ELSE {}]]

(* clock.now >= job.deadline, and clock.now = 1.                           *)
Expire(d) == Takes("job", d, NoTokens, "clock", 0..d - 1)
Poll == Takes("beat", 1, NoTokens, "pulse", Token \ {1})

MCBindings ==
  "expire" :> {Expire(1), Expire(2)} @@
  "poll"   :> {Poll} @@
  "work"   :> {Takes("job", 2, One("clock", c), "none", {}) : c \in Token}

MCMaturityOf ==
  "expire" :> (Expire(1) :> 1 @@ Expire(2) :> 2) @@ "poll" :> (Poll :> 1)

(* One clock has a token from the start, start() fills the other.          *)
TimerInitial == Add(Add(One("job", 2), One("beat", 1)), One("pulse", 0))
Append(p, x) == [places |-> {p}, add |-> One(p, x), replace |-> FALSE]
TimerArrivals == {Append("job", 1)}
NoScopes == [t \in Transition |-> {"none"}]
TimerLanes == [t \in Transition |-> "io"]
TwoAtOnce == "io" :> 2
=============================================================================
