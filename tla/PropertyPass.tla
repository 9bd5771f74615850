----------------------------- MODULE PropertyPass ---------------------------
(***************************************************************************)
(* The property pass: check_replay reconstructs every marking of a run     *)
(* from its records and the net alone and checks declared properties on    *)
(* the way.  Here it reads the tape of module EngineRun, at any time.      *)
(*                                                                         *)
(* A check is a record [kind, scope, place, max, key, match, places,       *)
(* transition], of which a kind reads what it needs:                       *)
(*   at-most-n           max tokens of one key in place                    *)
(*   place-empty         no token of match in place                        *)
(*   marking-invariant   CountsHold of the number of tokens in each place  *)
(*   key-correlation     a token of places for each token of place         *)
(*   firing-binding      one key among the bound tokens of transition      *)
(*   eventually-reaches  what entered place is in one of places            *)
(* key gives each token its key value, the marker for an absent field      *)
(* being one; a check without key has the same for all.                    *)
(***************************************************************************)
EXTENDS EngineRun

CONSTANTS
  Checks,            (* the declared properties and the net's capacities   *)
  CountsHold(_, _)   (* check, place -> number: its expression is true     *)

(* The source of an eventually-reaches check is a place of the net; the    *)
(* pass takes any other for one that stays empty.                          *)
ASSUME CheckAssumption ==
  \A c \in Checks : c.scope = "end" => c.place \in Place

-----------------------------------------------------------------------------
(* _ReplayWalker.                                                          *)

(* How many of the tokens recorded for each place the first k arcs own.    *)
Offsets(t) ==
  LET arcs == BindingArcs[t]
      upTo[k \in 0..Len(arcs)] ==
        IF k = 0 THEN [p \in Place |-> 0]
        ELSE [upTo[k - 1] EXCEPT ![arcs[k].place] = @ + arcs[k].weight]
  IN  upTo

ArcSlice(t, k, input) ==
  LET arc == BindingArcs[t][k]
      start == Offsets(t)[k - 1][arc.place]
  IN  SubSeq(input[arc.place], start + 1, start + arc.weight)

(* Variant: what an arc only read is taken as well.                        *)
AllSlices(t, input) == input

(* The tokens a firing removed: the slices of its consuming arcs.          *)
ConsumedSlices(t, input) ==
  LET arcs == BindingArcs[t]
      upTo[k \in 0..Len(arcs)] ==
        IF k = 0 THEN NoBound
        ELSE IF arcs[k].mode # "consume" THEN upTo[k - 1]
        ELSE [upTo[k - 1] EXCEPT ![arcs[k].place] = @ \o ArcSlice(t, k, input)]
  IN  upTo[Len(arcs)]

IsCompleted(e) == e.kind = "firing" /\ e.error = "none"

(* The records a walker does not refuse with a ValueError.                 *)
FitsTheNet(m, e) ==
  IsCompleted(e) =>
    /\ \A p \in Place : Len(e.input[p]) = Offsets(e.t)[Len(BindingArcs[e.t])][p]
    /\ IsSubmultiset(ConsumedSlices(e.t, e.input), m)

Applied(m, e) ==
  CASE e.kind = "injection" ->
         [m EXCEPT ![e.place] = IF e.replace THEN <<e.token>> ELSE Append(@, e.token)]
    [] IsCompleted(e) ->
         ApplyDeposit(ConsumeTokens(m, ConsumedSlices(e.t, e.input)), e.output)
    [] OTHER -> m

(* The walker's marking after each record of a tape, and before the first. *)
Walked(records) ==
  LET after[k \in 0..Len(records)] ==
        IF k = 0 THEN InitialMarking ELSE Applied(after[k - 1], records[k])
  IN  after

-----------------------------------------------------------------------------
(* _Checker.  What is found is told by the keys that offend.               *)

KeysOf(check, tokens) == {check.key[tokens[i]] : i \in DOMAIN tokens}

Crowded(check, tokens) ==
  {k \in KeysOf(check, tokens) :
     Cardinality({i \in DOMAIN tokens : check.key[tokens[i]] = k}) > check.max}

Offences(check, m) ==
  CASE check.kind = "at-most-n" -> Crowded(check, m[check.place])
    [] check.kind = "place-empty" ->
         KeysOf(check, SelectSeq(m[check.place], LAMBDA v : v \in check.match))
    [] check.kind = "marking-invariant" ->
         IF CountsHold(check, [p \in Place |-> Len(m[p])]) THEN {} ELSE {check.kind}
    [] check.kind = "key-correlation" ->
         KeysOf(check, m[check.place]) \
           UNION {KeysOf(check, m[p]) : p \in check.places}

BindingOffences(check, e) ==
  LET keys == UNION {KeysOf(check, e.input[p]) : p \in Place}
  IN  IF IsCompleted(e) /\ e.t = check.transition /\ Cardinality(keys) > 1
      THEN keys ELSE {}

(* Variant: only what firings deposit enters.                              *)
DepositedInto(check, e) ==
  IF IsCompleted(e) THEN KeysOf(check, e.output[check.place]) ELSE {}

NewEntries(check, e) ==
  CASE e.kind = "injection" ->
         IF e.place = check.place THEN KeysOf(check, <<e.token>>) ELSE {}
    [] IsCompleted(e) -> KeysOf(check, e.output[check.place])
    [] OTHER -> {}

Entered(check, records) ==
  KeysOf(check, InitialMarking[check.place])
    \cup UNION {NewEntries(check, records[i]) : i \in DOMAIN records}

Unreached(check, records, final) ==
  Entered(check, records) \ UNION {KeysOf(check, final[p]) : p \in check.places}

-----------------------------------------------------------------------------
(* check_replay.  A finding at the initial marking or the end of the       *)
(* replay has no step.                                                     *)

OfScope(scope) == {c \in Checks : c.scope = scope}

Findings(check, step, keys) ==
  {[check |-> check, step |-> step, key |-> k] : k \in keys}

(* At the marking after k records, and at the k-th record.                 *)
AtMarking(check, walked, k) == Findings(check, {k} \ {0}, Offences(check, walked[k]))

AtFiring(check, records, k) == Findings(check, {k}, BindingOffences(check, records[k]))

(* Variant: markings are checked before their record is applied.           *)
AlwaysBefore(records) ==
  LET walked == Walked(records)
  IN  UNION {Findings(c, {k}, Offences(c, walked[k - 1])) :
               c \in OfScope("always"), k \in DOMAIN records}

Always(records) ==
  LET walked == Walked(records)
  IN  UNION {AtMarking(c, walked, k) : c \in OfScope("always"), k \in 0..Len(records)}

Firings(records) ==
  UNION {AtFiring(c, records, k) : c \in OfScope("firing"), k \in DOMAIN records}

AtQuiescence(m) ==
  UNION {Findings(c, {}, Offences(c, m)) : c \in OfScope("quiescence")}

AtEnd(records, m) ==
  UNION {Findings(c, {}, Unreached(c, records, m)) : c \in OfScope("end")}

Report(records) ==
  LET final == Walked(records)[Len(records)]
  IN  Always(records) \cup Firings(records)
      \cup AtQuiescence(final) \cup AtEnd(records, final)

(* check_marking, of the checks that can be asked of a single marking.     *)
MarkingReport(m) ==
  UNION {Findings(c, {}, Offences(c, m)) : c \in OfScope("always") \cup OfScope("quiescence")}

-----------------------------------------------------------------------------
(* Properties.                                                             *)

(* The tape tells the whole story: the walker of the property pass refuses *)
(* no record of it, and ends with the engine's marking token by token and  *)
(* in order, also where an exception has just left run, and where a        *)
(* transition reads and consumes from one place.                           *)
TapeIsTheRun ==
  LET walked == Walked(tape)
  IN  /\ \A k \in DOMAIN tape : FitsTheNet(walked[k - 1], tape[k])
      /\ walked[Len(tape)] = marking

(* What the pass counts as having entered a place is what was ever there:  *)
(* nothing gets into the engine's marking unnoticed by the records, and    *)
(* nothing is noted that did not get in.                                   *)
EntriesAreSeen ==
  [][\A c \in OfScope("end") :
       Entered(c, tape') = Entered(c, tape) \cup KeysOf(c, marking'[c.place])]_vars

(* A finding at a step stays one however the run goes on, and of the last  *)
(* step and of the end the report says what is the case in the engine,     *)
(* which is what check_marking says of the engine's marking.               *)
ReportFollowsTheRun ==
  [][tape' # tape =>
       LET said(records) == {f \in Report(records) : f.check.scope \in {"always", "firing"}}
           now(scope, step) == {[f EXCEPT !.step = {}] :
                                  f \in {g \in Report(tape') :
                                           g.check.scope = scope /\ g.step = step}}
       IN  /\ {f \in said(tape') : f.step \subseteq DOMAIN tape} = said(tape)
           /\ now("always", {Len(tape')}) \cup now("quiescence", {}) =
                MarkingReport(marking')]_vars
=============================================================================
