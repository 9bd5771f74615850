------------------------------ MODULE MCDurable -----------------------------
(***************************************************************************)
(* Small nets to kill and restart the Runtime on.                          *)
(***************************************************************************)
EXTENDS DurableRuntime, MCRuntime

(* Half of the timeout race: work reads the window that expire consumes,   *)
(* and expire may put the job back that it has cancelled.                  *)
HalfPlace == {"job", "window"}
HalfTransition == {"work", "expire"}
HalfIn ==
  "work"   :> {In(1, "job", "consume", 1, {v}), In(2, "window", "read", 1, {v})} @@
  "expire" :> {In(1, "window", "consume", 1, {v})}
HalfOut == "work" :> {} @@ "expire" :> {"job"}
HalfDeposits ==
  "work" :> {Tokens(<<>>)} @@ "expire" :> {One("job"), Tokens(<<>>)}
HalfInitial == Tokens(<<"job", v>> :> 1 @@ <<"window", v>> :> 1)
HalfScopes == "work" :> {"s"} @@ "expire" :> {"none"}
HalfLanes == "work" :> "svc" @@ "expire" :> "svc"
HalfCapacity == "svc" :> 2

BatchArrivals ==
  {Replace1("window"),
   [places |-> {"job", "window"}, replace |-> FALSE,
    add |-> Tokens(<<"job", v>> :> 1 @@ <<"window", v>> :> 1)]}
SingleArrivals == {Append1("job"), Replace1("window")}
=============================================================================
