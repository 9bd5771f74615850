----------------------------- MODULE JsonValues ----------------------------
(***************************************************************************)
(* JSON as the .petrinet compiler reads it, compares it, writes it again   *)
(* and asks for its truth.  A text is one of                               *)
(*   <<"null">>   <<"boolean", b>>   <<"string", s>>                       *)
(*   <<"number", [integer, halves]>>                                       *)
(*   <<"array", texts>>   <<"object", a sequence of pairs <<key, text>>>>  *)
(* and the value it is read as is the same with an object's entries as a   *)
(* function of their keys.  A number is counted in halves and is an integer*)
(* where its lexeme has no fraction and no exponent, else a float.  Escapes*)
(* and surrogates of strings, and how a float's digits are found, are left *)
(* out.                                                                    *)
(***************************************************************************)
EXTENDS Integers, Sequences, FiniteSets

CONSTANTS
  SafeInteger,    (* the largest integer read: 2^53 - 1                    *)
  PlainBelow,     (* from here floats are written with an exponent: 10^21  *)
  LargestFinite,  (* the largest binary64                                  *)
  Nesting         (* bound on how many arrays and objects are nested       *)

ASSUME JsonAssumption ==
  /\ {SafeInteger, PlainBelow, LargestFinite, Nesting} \subseteq Nat
  /\ SafeInteger < PlainBelow

Magnitude(number) == IF number.halves < 0 THEN -number.halves ELSE number.halves

ReadableNumber(number) ==
  /\ Magnitude(number) <= 2 * LargestFinite
  /\ number.integer => Magnitude(number) <= 2 * SafeInteger

(* Numbers that are an int of at least 1; 2.0 is none and neither is true. *)
IsPositive(value) ==
  value[1] = "number" /\ value[2].integer /\ value[2].halves >= 2

Integral(n) == <<"number", [integer |-> TRUE, halves |-> 2 * n]>>

-----------------------------------------------------------------------------
(* Nested texts and values, level by level.                                *)

TextParts(text) ==
  CASE text[1] = "array" -> {text[2][i] : i \in DOMAIN text[2]}
    [] text[1] = "object" -> {text[2][i][2] : i \in DOMAIN text[2]}
    [] OTHER -> {}

ValueParts(value) ==
  IF value[1] \in {"array", "object"} THEN {value[2][k] : k \in DOMAIN value[2]}
  ELSE {}

Levels(whole, Parts(_)) ==
  LET level[n \in 0..Nesting] ==
        IF n = 0 THEN {whole} ELSE UNION {Parts(x) : x \in level[n - 1]}
  IN  level

(* What One makes of the whole, given what it has made of the parts.       *)
Rebuilt(whole, Parts(_), One(_, _)) ==
  LET levels == Levels(whole, Parts)
      built[n \in 0..Nesting] ==
        LET inner == IF n = 0 THEN <<>> ELSE built[n - 1]
        IN  [x \in levels[Nesting - n] |-> One(x, inner)]
  IN  built[Nesting][whole]

(* What lowering reads without an error: no number out of range and no key *)
(* twice in an object, at any depth.                                       *)
ReadableAlone(text) ==
  /\ text[1] = "number" => ReadableNumber(text[2])
  /\ text[1] = "object" =>
       \A i, j \in DOMAIN text[2] : text[2][i][1] = text[2][j][1] => i = j

Readable(text) ==
  \A n \in 0..Nesting : \A t \in Levels(text, TextParts)[n] : ReadableAlone(t)

(* Texts as the grammar gives them: an integer is whole, and nothing is    *)
(* nested deeper than the bound.                                           *)
TextAlone(text) ==
  /\ text[1] = "number" =>
       /\ text[2] \in [integer : BOOLEAN, halves : Int]
       /\ text[2].integer => text[2].halves % 2 = 0
  /\ text[1] \in {"array", "object"} =>
       text[2] \in Seq({text[2][i] : i \in DOMAIN text[2]})

IsText(text) ==
  /\ \A n \in 0..Nesting : \A t \in Levels(text, TextParts)[n] : TextAlone(t)
  /\ \A t \in Levels(text, TextParts)[Nesting] : TextParts(t) = {}

ReadWith(text, parts) ==
  CASE text[1] = "array" ->
         <<"array", [i \in DOMAIN text[2] |-> parts[text[2][i]]]>>
    [] text[1] = "object" ->
         LET keys == {text[2][i][1] : i \in DOMAIN text[2]}
             at(key) == CHOOSE i \in DOMAIN text[2] : text[2][i][1] = key
         IN  <<"object", [key \in keys |-> parts[text[2][at(key)][2]]]>>
    [] OTHER -> text

ValueOf(text) == Rebuilt(text, TextParts, ReadWith)

EmptyObject == <<"object", [key \in {} |-> key]>>

-----------------------------------------------------------------------------

(* Values whose parts, as far as they match, are alike throughout.         *)
MatchedParts(pair) ==
  IF /\ {pair[1][1], pair[2][1]} \in {{"array"}, {"object"}}
     /\ DOMAIN pair[1][2] = DOMAIN pair[2][2]
  THEN {<<pair[1][2][k], pair[2][2][k]>> : k \in DOMAIN pair[1][2]}
  ELSE {}

Throughout(left, right, Alike(_, _)) ==
  \A n \in 0..Nesting :
    \A pair \in Levels(<<left, right>>, MatchedParts)[n] : Alike(pair[1], pair[2])

SameMembers(left, right) ==
  /\ left[1] = right[1]
  /\ IF left[1] \in {"array", "object"} THEN DOMAIN left[2] = DOMAIN right[2]
     ELSE left = right

(* Variant: == of Python, for which true is 1 and false is 0.               *)
PythonAlike(left, right) ==
  LET counted(v) == CASE v[1] = "number" -> {v[2].halves}
                      [] v[1] = "boolean" -> {IF v[2] THEN 2 ELSE 0}
                      [] OTHER -> {}
  IN  IF counted(left) # {} \/ counted(right) # {}
      THEN counted(left) = counted(right)
      ELSE SameMembers(left, right)

PythonEqual(left, right) == Throughout(left, right, PythonAlike)

(* Numbers are equal by value, whatever their lexemes, and equal nothing   *)
(* else; the order of an object's entries does not count.                  *)
JsonAlike(left, right) ==
  IF "number" \in {left[1], right[1]}
  THEN left[1] = right[1] /\ left[2].halves = right[2].halves
  ELSE SameMembers(left, right)

JsonEqual(left, right) == Throughout(left, right, JsonAlike)

(* An integral float in the plain range is written like an integer.        *)
RenderedNumber(number) ==
  [number EXCEPT !.integer =
     \/ @
     \/ number.halves % 2 = 0 /\ Magnitude(number) < 2 * PlainBelow]

(* The one text render_canonical_json gives a value; keys in an order that *)
(* depends on nothing but the keys.                                        *)
KeysInOrder(keys) ==
  CHOOSE s \in [1..Cardinality(keys) -> keys] : {s[i] : i \in DOMAIN s} = keys

WrittenWith(value, parts) ==
  CASE value[1] = "number" -> <<"number", RenderedNumber(value[2])>>
    [] value[1] = "array" ->
         <<"array", [i \in DOMAIN value[2] |-> parts[value[2][i]]]>>
    [] value[1] = "object" ->
         LET keys == KeysInOrder(DOMAIN value[2])
         IN  <<"object", [i \in DOMAIN keys |->
                            <<keys[i], parts[value[2][keys[i]]]>>]>>
    [] OTHER -> value

Rendered(value) == Rebuilt(value, ValueParts, WrittenWith)

(* bool() of a value.                                                       *)
Truthy(value) ==
  CASE value[1] = "null" -> FALSE
    [] value[1] = "boolean" -> value[2]
    [] value[1] = "string" -> value[2] # ""
    [] value[1] = "number" -> value[2].halves # 0
    [] value[1] = "array" -> value[2] # <<>>
    [] value[1] = "object" -> DOMAIN value[2] # {}

IsName(value) == value[1] = "string" /\ value[2] # ""

(* A capacity has a key, a name or several, and a positive bound.          *)
IsCapacity(value) ==
  /\ value[1] = "object"
  /\ DOMAIN value[2] = {"key", "max"}
  /\ LET key == value[2]["key"]
     IN  \/ IsName(key)
         \/ key[1] = "array" /\ key[2] # <<>> /\ \A i \in DOMAIN key[2] : IsName(key[2][i])
  /\ IsPositive(value[2]["max"])

(* Points of views have two numbers and nothing else.                      *)
IsPoint(value) ==
  /\ value[1] = "object"
  /\ DOMAIN value[2] = {"x", "y"}
  /\ \A axis \in {"x", "y"} : value[2][axis][1] = "number"

StringsIn(value) ==
  LET at(v) == CASE v[1] = "string" -> {v[2]}
                 [] v[1] = "object" -> DOMAIN v[2]
                 [] OTHER -> {}
  IN  UNION {UNION {at(v) : v \in Levels(value, ValueParts)[n]} : n \in 0..Nesting}
=============================================================================
