------------------------------ MODULE PetriNet ------------------------------
(***************************************************************************)
(* The net a Runtime executes: its arcs, the token choices the arcs admit, *)
(* and the effect of a firing on a marking.                                *)
(*                                                                         *)
(* A place's contents are a bag of tokens.  Token order decides which      *)
(* binding is found first (module BindingSelection); nothing in this       *)
(* module or in the modules that use it depends on it, because a rollback  *)
(* puts the whole place back.                                              *)
(*                                                                         *)
(* Here and in the other modules a definition headed "Variant" is a        *)
(* deliberately wrong form of the one below it, which takes its place in   *)
(* the mutation runs; no specification uses it.                            *)
(***************************************************************************)
EXTENDS Integers, FiniteSets

CONSTANTS
  Place,       (* the net's places                                         *)
  Token,       (* the token values that occur                              *)
  Transition,  (* the net's transitions                                    *)
  InArcs,      (* transition -> its input arcs                             *)
  OutArcs,     (* transition -> the places its produce templates name      *)
  Bindings,    (* transition -> the token choices its arcs, filters and    *)
               (* guard admit, each with the tokens that inhibit it        *)
  Deposits     (* transition -> the bags a contract-respecting completion  *)
               (* may append, fixed and computed fallbacks included        *)

Bag     == [Token -> Nat]
Marking == [Place -> Bag]
NoTokens == [p \in Place |-> [v \in Token |-> 0]]

(* One element of the product over the binding arcs: what fire removes,    *)
(* what it only tests, and which tokens' presence forbids it.              *)
Binding == [take : Marking, read : Marking, block : [Place -> SUBSET Token]]

ArcMode == {"consume", "read", "inhibit"}

(* The place sets Runtime._footprint collects for a transition.            *)
Consume(t) == {a.place : a \in {x \in InArcs[t] : x.mode = "consume"}}
Read(t)    == {a.place : a \in {x \in InArcs[t] : x.mode = "read"}}
Write(t)   == OutArcs[t]

ASSUME NetAssumption ==
  /\ Transition # {}
  /\ \A t \in Transition :
       /\ \A a \in InArcs[t] :
            /\ a.place \in Place /\ a.mode \in ArcMode
            /\ a.weight \in Nat \ {0} /\ a.match \subseteq Token
       /\ OutArcs[t] \in SUBSET Place
       /\ Bindings[t] \subseteq Binding
       /\ Deposits[t] \subseteq Marking
       /\ \A b \in Bindings[t] : \A p \in Place, v \in Token :
            /\ b.take[p][v] > 0 => p \in Consume(t)
            /\ b.read[p][v] > 0 => p \in Read(t)
       /\ \A d \in Deposits[t] : \A p \in Place, v \in Token :
            d[p][v] > 0 => p \in Write(t)

-----------------------------------------------------------------------------

(* Variant: presence is tested, multiplicity is not.                       *)
EnablesByPresence(b, m) ==
  \A p \in Place, v \in Token :
    /\ b.take[p][v] + b.read[p][v] > 0 => m[p][v] > 0
    /\ v \in b.block[p] => m[p][v] = 0

(* The binding's tokens are a sub-multiset of their places and no          *)
(* inhibiting token is present.                                            *)
Enables(b, m) ==
  \A p \in Place, v \in Token :
    /\ b.take[p][v] + b.read[p][v] <= m[p][v]
    /\ v \in b.block[p] => m[p][v] = 0

Enabled(t, m) == \E b \in Bindings[t] : Enables(b, m)

Remove(m, taken) ==
  [p \in Place |-> [v \in Token |-> m[p][v] - taken[p][v]]]

Add(m, deposit) ==
  [p \in Place |-> [v \in Token |-> m[p][v] + deposit[p][v]]]

(* Variant: only the places written are compared.                          *)
ConflictOnWrites(t, u) ==
  \/ Write(t) \cap (Consume(u) \cup Read(u) \cup Write(u)) # {}
  \/ Write(u) \cap (Consume(t) \cup Read(t) \cup Write(t)) # {}

(* Variant: a deposit into a place the other firing has reserved from is   *)
(* let through.                                                            *)
ConflictOnInputs(t, u) ==
  \/ Consume(t) \cap Consume(u) # {}
  \/ Write(t) \cap (Read(u) \cup Write(u)) # {}
  \/ Write(u) \cap (Read(t) \cup Write(t)) # {}

(* Whether two firings of these transitions may not overlap.               *)
Conflict(t, u) ==
  \/ Consume(t) \cap (Consume(u) \cup Write(u)) # {}
  \/ Write(t) \cap (Consume(u) \cup Read(u) \cup Write(u)) # {}
  \/ Consume(u) \cap Write(t) # {}
  \/ Write(u) \cap (Consume(t) \cup Read(t) \cup Write(t)) # {}

-----------------------------------------------------------------------------

(* An environment arrival: a batch (or one token) appended to its places,  *)
(* or one token that replaces a place's contents.                          *)
Arrival == [places : SUBSET Place, add : Marking, replace : BOOLEAN]

Inject(m, a) ==
  [p \in Place |->
     IF p \notin a.places THEN m[p]
     ELSE [v \in Token |-> a.add[p][v] + IF a.replace THEN 0 ELSE m[p][v]]]
=============================================================================
