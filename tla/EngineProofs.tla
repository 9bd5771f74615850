----------------------------- MODULE EngineProofs ---------------------------
(***************************************************************************)
(* Proofs about BindingSelection and EngineRun: that the walk over the     *)
(* choices has a first one to stop at, that what is found is taken from    *)
(* the marking, and that the transitions that are not probed have no       *)
(* binding; what run fires and why it stops, what its firings leave in the *)
(* marking, and that what is found needs no token twice.                   *)
(*                                                                         *)
(* And about PropertyPass: that the records of EngineRun and the net give  *)
(* the run back.  A firing's record holds what was bound, place by place.  *)
(* Its tokens are the arcs' tokens one after the other, and each arc has   *)
(* as many as its weight says: split at the arcs' offsets they are what    *)
(* each arc took, so that the walker removes what the firing consumed.  A  *)
(* batch of injections leaves one record for each token, in order.  So the *)
(* walk along the tape ends with the engine's marking after every step,    *)
(* and what is found on the way is what was there.                         *)
(***************************************************************************)
EXTENDS PropertyPass, SubsequenceProofs


-----------------------------------------------------------------------------
(* The order of combinations().                                            *)

LEMMA MinIsLeast ==
  ASSUME NEW S \in SUBSET Nat, S # {}
  PROVE  Min(S) \in S /\ \A y \in S : Min(S) <= y
BY LeastNatural DEF Min

(* What two combinations differ in.                                        *)
Differing(c, d) == (c \ d) \cup (d \ c)

LEMMA EarlierIsTotal ==
  ASSUME NEW c \in SUBSET Nat, NEW d \in SUBSET Nat, c # d
  PROVE  /\ Differing(c, d) \in SUBSET Nat /\ Differing(c, d) # {}
         /\ Earlier(c, d) \/ Earlier(d, c)
<1>1. Differing(c, d) \in SUBSET Nat /\ Differing(c, d) # {}
  BY DEF Differing
<1>2. Min(Differing(c, d)) \in Differing(c, d)
  BY <1>1, MinIsLeast
<1>3. Min(Differing(c, d)) \in c \/ Min(Differing(c, d)) \in d
  BY <1>2 DEF Differing
<1>4. Differing(d, c) = Differing(c, d)
  BY DEF Differing
<1>5. /\ Earlier(c, d) <=> Min(Differing(c, d)) \in c
      /\ Earlier(d, c) <=> Min(Differing(d, c)) \in d
  BY DEF Earlier, Differing
<1>6. QED
  BY <1>1, <1>3, <1>4, <1>5

(* One combination is earlier where a position is in it and not in the     *)
(* other, and below it the two agree.                                      *)
LEMMA EarlierAt ==
  ASSUME NEW c \in SUBSET Nat, NEW d \in SUBSET Nat
  PROVE  Earlier(c, d) <=> \E i \in c : i \notin d /\ \A j \in Nat : j < i => (j \in c <=> j \in d)
<1>1. CASE c = d
  BY <1>1 DEF Earlier
<1>2. CASE c # d
  <2>1. Differing(c, d) \in SUBSET Nat /\ Differing(c, d) # {}
    BY <1>2, EarlierIsTotal
  <2>2. /\ Min(Differing(c, d)) \in Differing(c, d)
        /\ \A y \in Differing(c, d) : Min(Differing(c, d)) <= y
    BY <2>1, MinIsLeast
  <2>3. Earlier(c, d) <=> Min(Differing(c, d)) \in c
    BY <1>2 DEF Earlier, Differing
  <2>4. \A j : j \in Differing(c, d) <=> (j \in c /\ j \notin d) \/ (j \in d /\ j \notin c)
    BY DEF Differing
  <2>5. PICK i \in Nat : i = Min(Differing(c, d))
    BY <2>1, <2>2
  <2>6. \A j \in Nat : j < i => (j \in c <=> j \in d)
    BY <2>2, <2>4, <2>5
  <2>7. ASSUME NEW k \in c, k \notin d, \A j \in Nat : j < k => (j \in c <=> j \in d)
        PROVE  i = k
    <3>1. k \in Nat /\ k \in Differing(c, d)
      BY <2>4, <2>7
    <3>2. i <= k
      BY <2>2, <2>5, <3>1
    <3>3. ~(i < k)
      BY <2>2, <2>4, <2>5, <2>7
    <3>4. QED
      BY <3>1, <3>2, <3>3
  <2>8. i \in c => i \notin d
    BY <2>2, <2>4, <2>5
  <2>9. QED
    BY <2>3, <2>5, <2>6, <2>7, <2>8
<1>3. QED
  BY <1>1, <1>2

LEMMA EarlierIsTransitive ==
  ASSUME NEW b \in SUBSET Nat, NEW c \in SUBSET Nat, NEW d \in SUBSET Nat,
         Earlier(b, c), Earlier(c, d)
  PROVE  Earlier(b, d)
<1>1. PICK i \in b : i \notin c /\ \A j \in Nat : j < i => (j \in b <=> j \in c)
  BY EarlierAt
<1>2. PICK k \in c : k \notin d /\ \A j \in Nat : j < k => (j \in c <=> j \in d)
  BY EarlierAt
<1>3. i \in Nat /\ k \in Nat /\ i # k
  BY <1>1, <1>2
<1>4. CASE i < k
  <2>1. i \notin d /\ \A j \in Nat : j < i => (j \in b <=> j \in d)
    BY <1>1, <1>2, <1>3, <1>4
  <2>2. QED
    BY <2>1, EarlierAt
<1>5. CASE k < i
  <2>1. k \in b /\ \A j \in Nat : j < k => (j \in b <=> j \in d)
    BY <1>1, <1>2, <1>3, <1>5
  <2>2. QED
    BY <1>2, <2>1, EarlierAt
<1>6. QED
  BY <1>3, <1>4, <1>5

(* Of finitely many combinations one is the earliest: the one that the     *)
(* fewest are earlier than.                                                *)
LEMMA EarliestExists ==
  ASSUME NEW V, IsFiniteSet(V), V # {}, \A x \in V : x \in SUBSET Nat
  PROVE  \E x \in V : \A y \in V : y = x \/ Earlier(x, y)
<1> DEFINE ahead(x) == {y \in V : Earlier(y, x)}
           counts == {Cardinality(ahead(x)) : x \in V}
<1>1. \A x \in V : IsFiniteSet(ahead(x)) /\ Cardinality(ahead(x)) \in Nat
  <2>1. SUFFICES ASSUME NEW x \in V
                 PROVE  IsFiniteSet(ahead(x)) /\ Cardinality(ahead(x)) \in Nat
    OBVIOUS
  <2>2. ahead(x) \in SUBSET V
    OBVIOUS
  <2> HIDE DEF ahead
  <2>3. QED
    BY <2>2, FS_Subset, FS_CardinalityType
<1>2. \A x, y : y \in ahead(x) <=> y \in V /\ Earlier(y, x)
  OBVIOUS
<1> HIDE DEF ahead
<1>3. counts \in SUBSET Nat /\ counts # {}
  BY <1>1
<1>4. PICK n \in counts : \A m \in counts : n <= m
  BY <1>3, LeastNatural
<1>5. PICK x \in V : \A y \in V : Cardinality(ahead(x)) <= Cardinality(ahead(y))
  BY <1>4
<1>6. SUFFICES ASSUME NEW y \in V, y # x, ~Earlier(x, y)
               PROVE  FALSE
  BY <1>5
<1>7. Earlier(y, x)
  BY <1>6, EarlierIsTotal
<1>8. ahead(y) \in SUBSET ahead(x)
  <2>1. ASSUME NEW z \in ahead(y) PROVE z \in ahead(x)
    BY <1>2, <1>7, <2>1, EarlierIsTransitive
  <2>2. QED
    BY <2>1
<1>9. y \in ahead(x) /\ y \notin ahead(y)
  BY <1>2, <1>7 DEF Earlier
<1>10. /\ Cardinality(ahead(y)) <= Cardinality(ahead(x))
       /\ Cardinality(ahead(x)) = Cardinality(ahead(y)) => ahead(x) = ahead(y)
  BY <1>1, <1>8, FS_Subset
<1>11. Cardinality(ahead(x)) = Cardinality(ahead(y))
  <2>1. Cardinality(ahead(x)) \in Nat /\ Cardinality(ahead(y)) \in Nat
    BY <1>1
  <2>2. Cardinality(ahead(x)) <= Cardinality(ahead(y))
    BY <1>5
  <2>3. QED
    BY <1>10, <2>1, <2>2
<1>12. QED
  BY <1>9, <1>10, <1>11

-----------------------------------------------------------------------------
(* Choices.                                                                *)

LEMMA ArcsAre ==
  ASSUME NEW t \in Transition
  PROVE  /\ BindingArcs[t] \in Seq(InArcs[t])
         /\ DOMAIN BindingArcs[t] = 1..Len(BindingArcs[t]) /\ Len(BindingArcs[t]) \in Nat
         /\ \A k \in DOMAIN BindingArcs[t] :
              /\ BindingArcs[t][k] \in InArcs[t]
              /\ BindingArcs[t][k].place \in Place
              /\ BindingArcs[t][k].mode \in {"consume", "read"}
              /\ BindingArcs[t][k].weight \in Nat \ {0}
<1> DEFINE arcs == BindingArcs[t]
           T == {a \in InArcs[t] : a.mode # "inhibit"}
<1>1. ArcOrder[t] \in Seq(InArcs[t]) /\ arcs = Among(ArcOrder[t], T)
  BY SelectionAssumption DEF BindingArcs
<1>2. \A a \in T : a \in InArcs[t] /\ a.mode # "inhibit"
  OBVIOUS
<1> HIDE DEF T
<1>3. arcs \in Seq(InArcs[t]) /\ Elements(arcs) \subseteq T
  BY <1>1, AmongDistinct
<1> HIDE DEF arcs
<1>4. \A k \in DOMAIN arcs : arcs[k] \in T
  BY <1>3 DEF Elements
<1>5. \A k \in DOMAIN arcs : arcs[k] \in InArcs[t] /\ arcs[k].mode # "inhibit"
  BY <1>2, <1>4
<1>6. \A a \in InArcs[t] : a.place \in Place /\ a.mode \in ArcMode /\ a.weight \in Nat \ {0}
  BY NetAssumption
<1>7. DOMAIN arcs = 1..Len(arcs) /\ Len(arcs) \in Nat
  BY <1>3
<1>8. QED
  BY <1>3, <1>5, <1>6, <1>7 DEF arcs, ArcMode

LEMMA CandidatesAre ==
  ASSUME NEW a, NEW m \in OrderedMarking, a.place \in Place
  PROVE  /\ IsFiniteSet(ArcCandidates(a, m))
         /\ \A c \in ArcCandidates(a, m) : /\ c \in SUBSET DOMAIN m[a.place]
                                           /\ c \in SUBSET Nat
                                           /\ Cardinality(c) = a.weight
<1> DEFINE D == DOMAIN m[a.place]
<1>1. m[a.place] \in Seq(Token)
  BY DEF OrderedMarking
<1>2. D = 1..Len(m[a.place]) /\ Len(m[a.place]) \in Nat
  BY <1>1
<1>3. IsFiniteSet(D) /\ D \in SUBSET Nat
  BY <1>2, FS_Interval
<1>4. \A c \in ArcCandidates(a, m) : c \in SUBSET D /\ Cardinality(c) = a.weight
  BY DEF ArcCandidates, kSubset
<1> HIDE DEF D
<1>5. IsFiniteSet(SUBSET D) /\ ArcCandidates(a, m) \in SUBSET (SUBSET D)
  BY <1>3, <1>4, FS_SUBSET
<1>6. IsFiniteSet(ArcCandidates(a, m))
  BY <1>5, FS_Subset
<1>7. QED
  BY <1>3, <1>4, <1>6 DEF D

(* Two choices agree on the arcs up to the n-th.                           *)
AgreeTo(c, d, n) == \A j \in 1..n : c[j] = d[j]

(* Among any choices one comes first in the order of product(): for each   *)
(* number of arcs there is one that no other precedes by them.             *)
LEMMA FirstIsFirst ==
  ASSUME NEW t \in Transition, NEW m \in OrderedMarking,
         NEW open \in SUBSET Product(t, m), open # {}
  PROVE  /\ First(open) \in open
         /\ \A d \in open : d = First(open) \/ Before(First(open), d)
<1> DEFINE arcs == BindingArcs[t]
           n == Len(arcs)
           Ahead(c, d, k) == \E j \in 1..k : Earlier(c[j], d[j]) /\ AgreeTo(c, d, j - 1)
           Leads(c, k) == \A d \in open : Ahead(c, d, k) \/ AgreeTo(c, d, k)
           bad == {k \in 0..n : \A c \in open : ~Leads(c, k)}
<1>1. /\ n \in Nat /\ DOMAIN arcs = 1..n
      /\ \A k \in 1..n : arcs[k].place \in Place
  BY ArcsAre
<1>2. \A c \in open : /\ DOMAIN c = 1..n /\ c = [k \in 1..n |-> c[k]]
                      /\ \A k \in 1..n : c[k] \in ArcCandidates(arcs[k], m)
  <2>1. SUFFICES ASSUME NEW c \in Product(t, m)
                 PROVE  /\ DOMAIN c = 1..n /\ c = [k \in 1..n |-> c[k]]
                        /\ \A k \in 1..n : c[k] \in ArcCandidates(arcs[k], m)
    OBVIOUS
  <2>2. c \in [1..n -> UNION {ArcCandidates(arcs[k], m) : k \in DOMAIN arcs}]
    BY <1>1 DEF Product
  <2>3. \A k \in 1..n : c[k] \in ArcCandidates(arcs[k], m)
    BY <1>1 DEF Product
  <2>4. QED
    BY <2>2, <2>3
<1>3. \A k : k \in bad <=> k \in 0..n /\ \A c \in open : ~Leads(c, k)
  OBVIOUS
<1>4. \A c, k : Leads(c, k) <=> \A d \in open : Ahead(c, d, k) \/ AgreeTo(c, d, k)
  OBVIOUS
<1>5. \A c, d, k : Ahead(c, d, k) <=>
        \E j \in 1..k : Earlier(c[j], d[j]) /\ AgreeTo(c, d, j - 1)
  OBVIOUS
<1> HIDE DEF bad, Leads, Ahead, n, arcs
<1>6. bad = {}
  <2>1. SUFFICES ASSUME bad # {} PROVE FALSE
    OBVIOUS
  <2>2. bad \in SUBSET Nat
    BY <1>1, <1>3
  <2>3. PICK k \in bad : \A l \in bad : k <= l
    BY <2>1, <2>2, LeastNatural
  <2>4. k \in 0..n /\ \A c \in open : ~Leads(c, k)
    BY <1>3
  <2>5. k # 0
    <3>1. \A c, d : AgreeTo(c, d, 0)
      BY DEF AgreeTo
    <3>2. \A c : Leads(c, 0)
      BY <1>4, <3>1
    <3>3. QED
      BY <2>4, <3>2
  <2>6. k - 1 \in 0..n /\ k \in 1..n /\ k - 1 \notin bad
    BY <1>1, <2>3, <2>4, <2>5
  <2>7. PICK c \in open : Leads(c, k - 1)
    BY <1>3, <2>6
  <2> DEFINE same == {d \in open : AgreeTo(c, d, k - 1)}
             V == {d[k] : d \in same}
  <2>8. c \in same
    BY DEF AgreeTo
  <2>9. \A d \in same : d \in open /\ AgreeTo(c, d, k - 1)
    OBVIOUS
  <2>10. \A d \in open : AgreeTo(c, d, k - 1) => d \in same
    OBVIOUS
  <2> HIDE DEF same
  <2>11. V \in SUBSET ArcCandidates(arcs[k], m) /\ V # {}
    BY <1>2, <2>6, <2>8, <2>9
  <2>12. IsFiniteSet(V) /\ \A x \in V : x \in SUBSET Nat
    <3>1. /\ IsFiniteSet(ArcCandidates(arcs[k], m))
          /\ \A x \in ArcCandidates(arcs[k], m) : x \in SUBSET Nat
      BY <1>1, <2>6, CandidatesAre
    <3> HIDE DEF V
    <3>2. QED
      BY <2>11, <3>1, FS_Subset
  <2>13. \A d \in same : d[k] \in V
    OBVIOUS
  <2>14. \A x \in V : \E d \in same : x = d[k]
    OBVIOUS
  <2> HIDE DEF V
  <2>15. PICK x \in V : \A y \in V : y = x \/ Earlier(x, y)
    BY <2>11, <2>12, EarliestExists
  <2>16. PICK e \in same : x = e[k]
    BY <2>14
  <2>17. AgreeTo(c, e, k - 1) /\ e \in open
    BY <2>9
  <2>18. \A i \in 1..k : i = k \/ i \in 1..(k - 1)
    BY <2>6
  <2>19. ASSUME NEW d \in open PROVE Ahead(e, d, k) \/ AgreeTo(e, d, k)
    <3>1. CASE Ahead(c, d, k - 1)
      <4>1. PICK j \in 1..(k - 1) : Earlier(c[j], d[j]) /\ AgreeTo(c, d, j - 1)
        BY <1>5, <3>1
      <4>2. e[j] = c[j] /\ AgreeTo(e, d, j - 1) /\ j \in 1..k
        BY <2>6, <2>17, <4>1 DEF AgreeTo
      <4>3. QED
        BY <1>5, <4>1, <4>2
    <3>2. CASE AgreeTo(c, d, k - 1)
      <4>1. d \in same /\ d[k] \in V /\ AgreeTo(e, d, k - 1)
        BY <2>10, <2>13, <2>17, <3>2 DEF AgreeTo
      <4>2. CASE d[k] = x
        BY <2>16, <2>18, <4>1, <4>2 DEF AgreeTo
      <4>3. CASE Earlier(x, d[k])
        BY <1>5, <2>6, <2>16, <4>1, <4>3
      <4>4. QED
        BY <2>15, <4>1, <4>2, <4>3
    <3>3. QED
      BY <1>4, <2>7, <3>1, <3>2
  <2>20. Leads(e, k)
    BY <1>4, <2>19
  <2>21. QED
    BY <2>4, <2>17, <2>20
<1>7. PICK c \in open : Leads(c, n)
  <2>1. n \in 0..n
    BY <1>1
  <2>2. QED
    BY <1>3, <1>6, <2>1
<1>8. \A d \in open : d = c \/ Before(c, d)
  <2>1. SUFFICES ASSUME NEW d \in open PROVE d = c \/ Before(c, d)
    OBVIOUS
  <2>2. CASE Ahead(c, d, n)
    BY <1>2, <1>5, <2>2 DEF Before, AgreeTo
  <2>3. CASE AgreeTo(c, d, n)
    <3>1. [k \in 1..n |-> c[k]] = [k \in 1..n |-> d[k]]
      BY <2>3 DEF AgreeTo
    <3>2. QED
      BY <1>2, <3>1
  <2>4. QED
    BY <1>4, <1>7, <2>2, <2>3
<1>9. /\ First(open) \in open
      /\ \A d \in open \ {First(open)} : Before(First(open), d)
  BY <1>8 DEF First
<1>10. QED
  BY <1>9

-----------------------------------------------------------------------------
(* The tokens of a choice, collected arc by arc.                           *)
LEMMA TokensAreCollected ==
  ASSUME NEW t \in Transition, NEW m \in OrderedMarking,
         NEW c \in Product(t, m), NEW modes
  PROVE  /\ TokensOf(t, c, m, modes) \in OrderedMarking
         /\ \E f \in [0..Len(BindingArcs[t]) -> OrderedMarking] :
           /\ TokensOf(t, c, m, modes) = f[Len(BindingArcs[t])]
           /\ f[0] = NoBound
           /\ \A k \in 1..Len(BindingArcs[t]) : \A p \in Place :
                f[k][p] = IF BindingArcs[t][k].mode \in modes /\ p = BindingArcs[t][k].place
                          THEN f[k - 1][p] \o Subsequence(m[p], c[k])
                          ELSE f[k - 1][p]
<1> DEFINE arcs == BindingArcs[t]
           n == Len(arcs)
           Took(k, x) == IF arcs[k].mode \notin modes THEN x
                         ELSE [x EXCEPT ![arcs[k].place] =
                                 @ \o Subsequence(m[arcs[k].place], c[k])]
           step == [k \in 1..n |-> [x \in OrderedMarking |-> Took(k, x)]]
<1>1. n \in Nat /\ DOMAIN arcs = 1..n /\ \A k \in 1..n : arcs[k].place \in Place
  BY ArcsAre
<1>2. NoBound \in OrderedMarking
  <2>1. <<>> \in Seq(Token)
    OBVIOUS
  <2>2. QED
    BY <2>1 DEF NoBound, OrderedMarking
<1>3. \A k \in 1..n : Subsequence(m[arcs[k].place], c[k]) \in Seq(Token)
  <2>1. SUFFICES ASSUME NEW k \in 1..n
                 PROVE  Subsequence(m[arcs[k].place], c[k]) \in Seq(Token)
    OBVIOUS
  <2>2. c[k] \in ArcCandidates(arcs[k], m)
    BY <1>1 DEF Product
  <2>3. c[k] \in SUBSET DOMAIN m[arcs[k].place] /\ m[arcs[k].place] \in Seq(Token)
    BY <1>1, <2>2, CandidatesAre DEF OrderedMarking
  <2>4. QED
    BY <2>3, SubsequenceAt
<1>4. \A k \in 1..n, x \in OrderedMarking : Took(k, x) \in OrderedMarking
  BY <1>1, <1>3 DEF OrderedMarking
<1>5. \A k \in 1..n, x \in OrderedMarking, p \in Place :
        Took(k, x)[p] = IF arcs[k].mode \in modes /\ p = arcs[k].place
                        THEN x[p] \o Subsequence(m[p], c[k]) ELSE x[p]
  BY <1>1 DEF OrderedMarking
<1>6. TokensOf(t, c, m, modes) =
        (CHOOSE f : f = [k \in 0..n |-> IF k = 0 THEN NoBound
                                         ELSE Took(k, f[k - 1])])[n]
  BY DEF TokensOf
<1> HIDE DEF Took, n, arcs
<1>7. step \in [1..n -> [OrderedMarking -> OrderedMarking]]
  BY <1>4
<1>8. \A k \in 1..n, x \in OrderedMarking : step[k][x] = Took(k, x)
  OBVIOUS
<1> HIDE DEF step
<1>9. PICK g : Loops(g, OrderedMarking, NoBound, n, step)
  BY <1>1, <1>2, <1>7, LoopExists
<1>10. g = [k \in 0..n |-> IF k = 0 THEN NoBound ELSE Took(k, g[k - 1])]
  <2>1. \A k \in 1..n : k - 1 \in 0..n /\ g[k - 1] \in OrderedMarking
    BY <1>1, <1>9 DEF Loops
  <2>2. \A k \in 0..n : g[k] = IF k = 0 THEN NoBound ELSE Took(k, g[k - 1])
    BY <1>1, <1>8, <1>9, <2>1 DEF Loops
  <2>3. g = [k \in 0..n |-> g[k]]
    BY <1>9 DEF Loops
  <2>4. QED
    BY <2>2, <2>3
<1> DEFINE f == CHOOSE f : f = [k \in 0..n |-> IF k = 0 THEN NoBound ELSE Took(k, f[k - 1])]
<1>11. f = [k \in 0..n |-> IF k = 0 THEN NoBound ELSE Took(k, f[k - 1])]
  BY <1>10
<1> HIDE DEF f
<1>12. f[0] = NoBound /\ \A k \in 1..n : f[k] = Took(k, f[k - 1])
  BY <1>1, <1>11
<1> DEFINE bad == {k \in 0..n : f[k] \notin OrderedMarking}
<1>13. bad = {}
  <2>1. SUFFICES ASSUME bad # {} PROVE FALSE
    OBVIOUS
  <2>2. PICK k \in bad : \A l \in bad : k <= l
    <3>1. bad \in SUBSET Nat
      BY <1>1
    <3> HIDE DEF bad
    <3>2. QED
      BY <2>1, <3>1, LeastNatural
  <2>3. k # 0
    BY <1>2, <1>12
  <2>4. k \in 1..n /\ k - 1 \in 0..n /\ k - 1 \notin bad
    BY <1>1, <2>2, <2>3
  <2>5. QED
    BY <1>4, <1>12, <2>2, <2>4
<1>14. f \in [0..n -> OrderedMarking]
  BY <1>11, <1>13
<1>15. TokensOf(t, c, m, modes) = f[n]
  BY <1>6 DEF f
<1>16. n \in 0..n /\ f[n] \in OrderedMarking
  BY <1>1, <1>14
<1>17. \A k \in 1..n, p \in Place :
         f[k][p] = IF arcs[k].mode \in modes /\ p = arcs[k].place
                   THEN f[k - 1][p] \o Subsequence(m[p], c[k]) ELSE f[k - 1][p]
  <2>1. \A k \in 1..n : k - 1 \in 0..n /\ f[k - 1] \in OrderedMarking
    BY <1>1, <1>14
  <2>2. QED
    BY <1>5, <1>12, <2>1
<1>18. QED
  BY <1>12, <1>14, <1>15, <1>16, <1>17 DEF n, arcs

(* What is selected passes the tests and is made of the marking's tokens.  *)
LEMMA SelectedIsViable ==
  ASSUME NEW t \in Transition, NEW m \in OrderedMarking, NEW attempt,
         NEW b \in SelectBinding(t, m, attempt)
  PROVE  /\ \E c \in Viable(t, m) : b.tokens = Bound(t, c, m) /\ b.consumed = Consumed(t, c, m)
         /\ b.tokens \in OrderedMarking /\ b.consumed \in OrderedMarking
         /\ IsSubmultiset(b.tokens, m)
<1> DEFINE open == {c \in Viable(t, m) : GuardVerdict(t, Bound(t, c, m), attempt) # "false"}
<1>1. /\ open # {}
      /\ b = [tokens |-> Bound(t, First(open), m), consumed |-> Consumed(t, First(open), m)]
  BY DEF SelectBinding
<1>2. open \in SUBSET Viable(t, m) /\ Viable(t, m) \in SUBSET Product(t, m)
  BY DEF Viable
<1> HIDE DEF open
<1>3. First(open) \in open
  BY <1>1, <1>2, FirstIsFirst
<1>4. /\ First(open) \in Viable(t, m) /\ First(open) \in Product(t, m)
      /\ b.tokens = Bound(t, First(open), m) /\ b.consumed = Consumed(t, First(open), m)
  BY <1>1, <1>2, <1>3
<1>5. IsSubmultiset(Bound(t, First(open), m), m)
  BY <1>4 DEF Viable
<1>6. TokensOf(t, First(open), m, {"consume", "read"}) \in OrderedMarking
  BY <1>4, TokensAreCollected
<1>7. TokensOf(t, First(open), m, {"consume"}) \in OrderedMarking
  BY <1>4, TokensAreCollected
<1>8. QED
  BY <1>4, <1>5, <1>6, <1>7 DEF Bound, Consumed

-----------------------------------------------------------------------------
(* Enablement.                                                             *)

LEMMA EnabledAre ==
  ASSUME NEW m, NEW attempt
  PROVE  /\ EnabledTransitions(m, attempt) \in Seq(Transition)
         /\ \A t : t \in Elements(EnabledTransitions(m, attempt)) <=>
              t \in Transition /\ IsCandidate(t, m) /\ SelectBinding(t, m, attempt) # {}
<1> DEFINE T == {t \in Transition : IsCandidate(t, m) /\ SelectBinding(t, m, attempt) # {}}
<1>1. EnabledTransitions(m, attempt) = Among(TransitionOrder, T)
  BY DEF EnabledTransitions
<1>2. TransitionOrder \in Seq(Transition) /\ Elements(TransitionOrder) = Transition
  BY SelectionAssumption DEF Seqs!ToSet, Elements
<1>3. \A t : t \in T <=> t \in Transition /\ IsCandidate(t, m)
                         /\ SelectBinding(t, m, attempt) # {}
  OBVIOUS
<1> HIDE DEF T
<1>4. /\ Among(TransitionOrder, T) \in Seq(Transition)
      /\ Elements(Among(TransitionOrder, T)) = Transition \cap T
  BY <1>2, AmongDistinct
<1>5. QED
  BY <1>1, <1>3, <1>4

(* The transitions that are not probed have no binding.                    *)
LEMMA BindingIsCandidate ==
  ASSUME NEW t \in Transition, NEW m, NEW attempt, SelectBinding(t, m, attempt) # {}
  PROVE  IsCandidate(t, m)
<1> DEFINE arcs == BindingArcs[t]
<1>1. SUFFICES ASSUME arcs # <<>> PROVE m[Head(arcs).place] # <<>>
  BY DEF IsCandidate
<1>2. arcs \in Seq(InArcs[t])
  BY SelectionAssumption, AmongDistinct DEF BindingArcs
<1> HIDE DEF arcs
<1>3. 1 \in DOMAIN arcs /\ Head(arcs) = arcs[1] /\ arcs[1] \in InArcs[t]
  BY <1>1, <1>2
<1>4. PICK c : c \in Viable(t, m)
  BY DEF SelectBinding
<1>5. c[1] \in ArcCandidates(arcs[1], m)
  BY <1>3, <1>4 DEF Viable, Product, arcs
<1>6. /\ c[1] \in SUBSET DOMAIN m[arcs[1].place]
      /\ Cardinality(c[1]) = arcs[1].weight
  BY <1>5 DEF ArcCandidates, kSubset
<1>7. arcs[1].weight # 0
  BY <1>3, NetAssumption
<1>8. c[1] # {}
  BY <1>6, <1>7, FS_EmptySet
<1>9. m[arcs[1].place] # <<>>
  BY <1>6, <1>8
<1>10. QED
  BY <1>3, <1>9

-----------------------------------------------------------------------------
(* How often a token stands in a sequence.                                 *)

LEMMA CountType ==
  ASSUME NEW S, NEW s \in Seq(S), NEW v
  PROVE  /\ IsFiniteSet({i \in DOMAIN s : s[i] = v}) /\ CountOf(s, v) \in Nat
         /\ CountOf(s, v) = 0 <=> v \notin Elements(s)
<1> DEFINE A == {i \in DOMAIN s : s[i] = v}
<1>1. DOMAIN s = 1..Len(s) /\ Len(s) \in Nat
  OBVIOUS
<1>2. A \in SUBSET DOMAIN s /\ IsFiniteSet(DOMAIN s)
  BY <1>1, FS_Interval
<1>3. A = {} <=> v \notin Elements(s)
  BY DEF Elements
<1> HIDE DEF A
<1>4. IsFiniteSet(A) /\ Cardinality(A) \in Nat /\ (Cardinality(A) = 0 <=> A = {})
  BY <1>2, FS_Subset, FS_CardinalityType, FS_EmptySet
<1>5. QED
  BY <1>3, <1>4 DEF CountOf, A

LEMMA CountConcat ==
  ASSUME NEW S, NEW s \in Seq(S), NEW u \in Seq(S), NEW v
  PROVE  CountOf(s \o u, v) = CountOf(s, v) + CountOf(u, v)
<1> DEFINE A == {i \in DOMAIN s : s[i] = v}
           B == {i \in DOMAIN u : u[i] = v}
           C == {i \in DOMAIN (s \o u) : (s \o u)[i] = v}
           D == {i + Len(s) : i \in B}
           f == [i \in B |-> i + Len(s)]
<1>1. /\ DOMAIN s = 1..Len(s) /\ Len(s) \in Nat
      /\ DOMAIN u = 1..Len(u) /\ Len(u) \in Nat
      /\ DOMAIN (s \o u) = 1..(Len(s) + Len(u))
      /\ \A i \in 1..(Len(s) + Len(u)) :
           (s \o u)[i] = IF i <= Len(s) THEN s[i] ELSE u[i - Len(s)]
  OBVIOUS
<1>2. IsFiniteSet(A) /\ IsFiniteSet(B) /\ CountOf(s, v) \in Nat /\ CountOf(u, v) \in Nat
  BY CountType
<1>3. C = A \cup D
  <2>1. \A i \in C : i \in A \/ (i - Len(s) \in B /\ i = (i - Len(s)) + Len(s))
    BY <1>1
  <2>2. \A i \in A : i \in C
    BY <1>1
  <2>3. \A i \in B : i + Len(s) \in C
    BY <1>1
  <2>4. \A i : i \in D <=> \E k \in B : i = k + Len(s)
    OBVIOUS
  <2> HIDE DEF A, B, C, D
  <2>5. QED
    BY <2>1, <2>2, <2>3, <2>4
<1>4. A \cap D = {}
  BY <1>1
<1>5. f \in Bijection(B, D)
  <2>1. f \in [B -> D] /\ \A y \in D : \E x \in B : f[x] = y
    OBVIOUS
  <2>2. \A x \in B, y \in B : f[x] = f[y] => x = y
    BY <1>1
  <2> HIDE DEF f, B, D
  <2>3. QED
    BY <2>1, <2>2 DEF Bijection, Injection, Surjection, IsInjective
<1> HIDE DEF A, B, C, D, f
<1>6. IsFiniteSet(D) /\ Cardinality(D) = Cardinality(B)
  BY <1>2, <1>5, FS_Bijection DEF ExistsBijection
<1>7. Cardinality(A \cup D) = Cardinality(A) + Cardinality(D) - Cardinality(A \cap D)
  BY <1>2, <1>6, FS_Union
<1>8. Cardinality({}) = 0
  BY FS_EmptySet
<1>9. Cardinality(A) \in Nat /\ Cardinality(D) \in Nat
  BY <1>2, <1>6, FS_CardinalityType
<1>10. Cardinality(C) = Cardinality(A) + Cardinality(B)
  <2>1. Cardinality(A \cap D) = 0
    BY <1>4, <1>8
  <2>2. Cardinality(C) = Cardinality(A \cup D)
    BY <1>3
  <2>3. QED
    BY <1>6, <1>7, <1>9, <2>1, <2>2
<1>11. QED
  BY <1>10 DEF CountOf, A, B, C

LEMMA CountOne ==
  ASSUME NEW v, NEW w
  PROVE  CountOf(<<w>>, v) = IF w = v THEN 1 ELSE 0
<1>1. DOMAIN <<w>> = {1} /\ <<w>>[1] = w
  OBVIOUS
<1>2. CASE w = v
  <2>1. {i \in DOMAIN <<w>> : <<w>>[i] = v} = {1}
    BY <1>1, <1>2
  <2>2. Cardinality({1}) = 1
    BY FS_Singleton
  <2>3. QED
    BY <1>2, <2>1, <2>2 DEF CountOf
<1>3. CASE w # v
  <2>1. {i \in DOMAIN <<w>> : <<w>>[i] = v} = {}
    BY <1>1, <1>3
  <2>2. QED
    BY <1>3, <2>1, FS_EmptySet DEF CountOf
<1>4. QED
  BY <1>2, <1>3

(* Python's list.remove takes one of the equals away, and nothing else.    *)
LEMMA RemoveFirstCounts ==
  ASSUME NEW S, NEW s \in Seq(S), NEW w
  PROVE  /\ Seqs!RemoveFirst(s, w) \in Seq(S)
         /\ Elements(Seqs!RemoveFirst(s, w)) \subseteq Elements(s)
         /\ \A v : CountOf(Seqs!RemoveFirst(s, w), v) =
                     IF v = w /\ CountOf(s, v) > 0 THEN CountOf(s, v) - 1 ELSE CountOf(s, v)
<1>1. DOMAIN s = 1..Len(s) /\ Len(s) \in Nat
  OBVIOUS
<1>2. CASE w \notin Elements(s)
  <2>1. Seqs!RemoveFirst(s, w) = s
    BY <1>1, <1>2 DEF Seqs!RemoveFirst, Elements
  <2>2. CountOf(s, w) = 0
    BY <1>2, CountType
  <2>3. QED
    BY <2>1, <2>2
<1>3. CASE w \in Elements(s)
  <2> DEFINE I == {i \in 1..Len(s) : s[i] = w}
             i == Seqs!Min(I)
             pre == SubSeq(s, 1, i - 1)
             post == SubSeq(s, i + 1, Len(s))
             one == <<w>>
  <2>1. I # {} /\ I \in SUBSET Nat
    BY <1>1, <1>3 DEF Elements
  <2>2. i \in I
    <3> HIDE DEF I
    <3>1. QED
      BY <2>1, LeastNatural DEF Seqs!Min
  <2>3. Seqs!RemoveFirst(s, w) = pre \o post
    BY <1>1, <1>3, <2>1 DEF Seqs!RemoveFirst, Seqs!RemoveAt, Seqs!SelectInSeq, Elements
  <2> HIDE DEF i
  <2>4. i \in 1..Len(s) /\ s[i] = w
    BY <2>2
  <2>5. /\ pre \in Seq(S) /\ Len(pre) = i - 1 /\ \A k \in 1..(i - 1) : pre[k] = s[k]
        /\ post \in Seq(S) /\ Len(post) = Len(s) - i
        /\ \A k \in 1..(Len(s) - i) : post[k] = s[i + k]
        /\ one \in Seq(S) /\ Len(one) = 1 /\ one[1] = w
    <3>1. /\ 1 \in Int /\ i - 1 \in Int /\ i + 1 \in Int /\ Len(s) \in Int
          /\ \A k \in 1..(i - 1) : s[k] \in S
          /\ \A k \in (i + 1)..Len(s) : s[k] \in S
      BY <1>1, <2>4
    <3>2. /\ pre \in Seq(S) /\ Len(pre) = IF 1 <= i - 1 THEN (i - 1) - 1 + 1 ELSE 0
          /\ \A k \in 1..((i - 1) - 1 + 1) : pre[k] = s[1 + k - 1]
      BY <3>1, SubSeqProperties
    <3>3. /\ post \in Seq(S)
          /\ Len(post) = IF i + 1 <= Len(s) THEN Len(s) - (i + 1) + 1 ELSE 0
          /\ \A k \in 1..(Len(s) - (i + 1) + 1) : post[k] = s[(i + 1) + k - 1]
      BY <3>1, SubSeqProperties
    <3> HIDE DEF pre, post
    <3>4. Len(pre) = i - 1 /\ Len(post) = Len(s) - i
      <4>1. i \in Int /\ Len(s) \in Int /\ 1 <= i /\ i <= Len(s)
        BY <1>1, <2>4
      <4>2. /\ (IF 1 <= i - 1 THEN (i - 1) - 1 + 1 ELSE 0) = i - 1
            /\ (IF i + 1 <= Len(s) THEN Len(s) - (i + 1) + 1 ELSE 0) = Len(s) - i
        BY <4>1
      <4>3. QED
        BY <3>2, <3>3, <4>2
    <3>5. \A k \in 1..(i - 1) : k \in 1..((i - 1) - 1 + 1) /\ 1 + k - 1 = k
      BY <1>1, <2>4
    <3>6. \A k \in 1..(Len(s) - i) : k \in 1..(Len(s) - (i + 1) + 1) /\ (i + 1) + k - 1 = i + k
      BY <1>1, <2>4
    <3>7. w \in S /\ one \in Seq(S) /\ Len(one) = 1 /\ one[1] = w
      BY <1>1, <2>4
    <3>8. QED
      BY <3>2, <3>3, <3>4, <3>5, <3>6, <3>7
  <2> HIDE DEF pre, post, one
  <2> DEFINE half == pre \o one
             u == half \o post
  <2>12. /\ half \in Seq(S) /\ Len(half) = i /\ half[i] = w
         /\ \A k \in 1..(i - 1) : half[k] = s[k]
    <3>1. /\ half \in Seq(S) /\ Len(half) = Len(pre) + Len(one)
          /\ \A k \in 1..(Len(pre) + Len(one)) :
               half[k] = IF k <= Len(pre) THEN pre[k] ELSE one[k - Len(pre)]
      BY <2>5, ConcatProperties
    <3> HIDE DEF half
    <3>2. /\ \A k \in 1..(i - 1) : k \in 1..(Len(pre) + Len(one)) /\ k <= Len(pre)
          /\ i \in 1..(Len(pre) + Len(one)) /\ ~(i <= Len(pre)) /\ i - Len(pre) = 1
          /\ Len(pre) + Len(one) = i
      BY <1>1, <2>4, <2>5
    <3>3. QED
      BY <2>5, <3>1, <3>2
  <2> HIDE DEF half
  <2>13. /\ u \in Seq(S) /\ Len(u) = Len(s) /\ DOMAIN u = 1..Len(s)
         /\ \A k \in 1..i : u[k] = half[k]
         /\ \A k \in (i + 1)..Len(s) : u[k] = post[k - i]
    <3>1. /\ u \in Seq(S) /\ Len(u) = Len(half) + Len(post)
          /\ \A k \in 1..(Len(half) + Len(post)) :
               u[k] = IF k <= Len(half) THEN half[k] ELSE post[k - Len(half)]
      BY <2>5, <2>12, ConcatProperties
    <3> HIDE DEF u
    <3>2. /\ Len(half) + Len(post) = Len(s)
          /\ \A k \in 1..i : k \in 1..Len(s) /\ k <= Len(half)
          /\ \A k \in (i + 1)..Len(s) : k \in 1..Len(s) /\ ~(k <= Len(half))
      BY <1>1, <2>4, <2>5, <2>12
    <3>3. DOMAIN u = 1..Len(u)
      BY <3>1
    <3>4. QED
      BY <2>12, <3>1, <3>2, <3>3
  <2> HIDE DEF u
  <2>14. \A k \in 1..Len(s) : u[k] = s[k]
    <3>1. SUFFICES ASSUME NEW k \in 1..Len(s) PROVE u[k] = s[k]
      OBVIOUS
    <3>2. CASE k < i
      BY <1>1, <2>4, <2>12, <2>13, <3>2
    <3>3. CASE k = i
      BY <1>1, <2>4, <2>12, <2>13, <3>3
    <3>4. CASE k > i
      <4>1. k \in (i + 1)..Len(s) /\ k - i \in 1..(Len(s) - i) /\ i + (k - i) = k
        BY <1>1, <2>4, <3>4
      <4>2. QED
        BY <2>5, <2>13, <4>1
    <3>5. QED
      BY <1>1, <2>4, <3>2, <3>3, <3>4
  <2>6. s = half \o post
    <3>1. u = s
      BY <2>13, <2>14
    <3>2. QED
      BY <3>1 DEF u
  <2>7. pre \o post \in Seq(S)
    BY <2>5
  <2>8. Elements(pre \o post) \subseteq Elements(s)
    <3>1. Elements(pre \o post) = Elements(pre) \cup Elements(post)
      BY <2>5, ConcatDistinct
    <3>2. Elements(half) = Elements(pre) \cup Elements(one)
      BY <2>5, ConcatDistinct DEF half
    <3>3. Elements(s) = Elements(half) \cup Elements(post)
      BY <2>5, <2>6, <2>12, ConcatDistinct
    <3>4. QED
      BY <3>1, <3>2, <3>3
  <2>9. \A v : /\ CountOf(s, v) = CountOf(pre, v) + CountOf(one, v) + CountOf(post, v)
               /\ CountOf(pre \o post, v) = CountOf(pre, v) + CountOf(post, v)
               /\ CountOf(pre, v) \in Nat /\ CountOf(post, v) \in Nat
               /\ CountOf(one, v) = IF w = v THEN 1 ELSE 0
    <3>1. SUFFICES ASSUME NEW v
                   PROVE  /\ CountOf(s, v) = CountOf(pre, v) + CountOf(one, v) + CountOf(post, v)
                          /\ CountOf(pre \o post, v) = CountOf(pre, v) + CountOf(post, v)
                          /\ CountOf(pre, v) \in Nat /\ CountOf(post, v) \in Nat
                          /\ CountOf(one, v) = IF w = v THEN 1 ELSE 0
      OBVIOUS
    <3>7. CountOf(one, v) = IF w = v THEN 1 ELSE 0
      BY CountOne DEF one
    <3>2. CountOf(half, v) = CountOf(pre, v) + CountOf(one, v)
      BY <2>5, CountConcat DEF half
    <3>3. CountOf(s, v) = CountOf(half, v) + CountOf(post, v)
      BY <2>5, <2>6, <2>12, CountConcat
    <3>4. CountOf(pre \o post, v) = CountOf(pre, v) + CountOf(post, v)
      BY <2>5, CountConcat
    <3>5. CountOf(pre, v) \in Nat /\ CountOf(post, v) \in Nat
      BY <2>5, CountType
    <3>6. QED
      BY <3>2, <3>3, <3>4, <3>5, <3>7
  <2>10. \A v : CountOf(pre \o post, v) =
                  IF v = w /\ CountOf(s, v) > 0 THEN CountOf(s, v) - 1 ELSE CountOf(s, v)
    BY <2>9
  <2>11. QED
    BY <2>3, <2>7, <2>8, <2>10
<1>4. QED
  BY <1>2, <1>3

(* Of every token a firing removes at most as many as it has bound.        *)
LEMMA ConsumedIsBound ==
  ASSUME NEW t \in Transition, NEW m \in OrderedMarking, NEW c \in Product(t, m)
  PROVE  \A p \in Place, v \in Token :
           CountOf(Consumed(t, c, m)[p], v) <= CountOf(Bound(t, c, m)[p], v)
<1> DEFINE arcs == BindingArcs[t]
           n == Len(arcs)
           taken(k, p) == Subsequence(m[p], c[k])
<1>1. n \in Nat /\ DOMAIN arcs = 1..n /\ \A k \in 1..n : arcs[k].place \in Place
  BY ArcsAre
<1>2. \A k \in 1..n : taken(k, arcs[k].place) \in Seq(Token)
  <2>1. SUFFICES ASSUME NEW k \in 1..n PROVE taken(k, arcs[k].place) \in Seq(Token)
    OBVIOUS
  <2>2. c[k] \in ArcCandidates(arcs[k], m)
    BY <1>1 DEF Product
  <2>3. c[k] \in SUBSET DOMAIN m[arcs[k].place] /\ m[arcs[k].place] \in Seq(Token)
    BY <1>1, <2>2, CandidatesAre DEF OrderedMarking
  <2>4. QED
    BY <2>3, SubsequenceAt
<1>3. PICK f \in [0..n -> OrderedMarking] :
        /\ TokensOf(t, c, m, {"consume"}) = f[n]
        /\ f[0] = NoBound
        /\ \A k \in 1..n : \A p \in Place :
             f[k][p] = IF arcs[k].mode \in {"consume"} /\ p = arcs[k].place
                       THEN f[k - 1][p] \o taken(k, p) ELSE f[k - 1][p]
  BY TokensAreCollected
<1>4. PICK g \in [0..n -> OrderedMarking] :
        /\ TokensOf(t, c, m, {"consume", "read"}) = g[n]
        /\ g[0] = NoBound
        /\ \A k \in 1..n : \A p \in Place :
             g[k][p] = IF arcs[k].mode \in {"consume", "read"} /\ p = arcs[k].place
                       THEN g[k - 1][p] \o taken(k, p) ELSE g[k - 1][p]
  BY TokensAreCollected
<1>5. \A k \in 1..n : arcs[k].mode \in {"consume", "read"}
  BY ArcsAre
<1> HIDE DEF n, arcs, taken
<1> DEFINE within(k) == \A p \in Place, v \in Token : CountOf(f[k][p], v) <= CountOf(g[k][p], v)
           bad == {k \in 0..n : ~within(k)}
<1>6. bad = {}
  <2>1. SUFFICES ASSUME bad # {} PROVE FALSE
    OBVIOUS
  <2>2. PICK k \in bad : \A l \in bad : k <= l
    <3>1. bad \in SUBSET Nat
      BY <1>1
    <3> HIDE DEF bad
    <3>2. QED
      BY <2>1, <3>1, LeastNatural
  <2>3. k \in 0..n /\ ~within(k)
    OBVIOUS
  <2>4. k # 0
    <3>1. <<>> \in Seq(Token)
      OBVIOUS
    <3>2. \A v : CountOf(<<>>, v) \in Nat
      BY <3>1, CountType
    <3>3. \A p \in Place : f[0][p] = <<>> /\ g[0][p] = <<>>
      BY <1>3, <1>4 DEF NoBound
    <3>4. within(0)
      BY <3>2, <3>3
    <3>5. QED
      BY <2>3, <3>4
  <2>5. k \in 1..n /\ k - 1 \in 0..n /\ within(k - 1)
    BY <1>1, <2>2, <2>3, <2>4
  <2> HIDE DEF bad
  <2>6. f[k - 1] \in OrderedMarking /\ g[k - 1] \in OrderedMarking
    BY <1>1, <2>5
  <2>7. \A p \in Place : g[k][p] = IF p = arcs[k].place THEN g[k - 1][p] \o taken(k, p) ELSE g[k - 1][p]
    BY <1>4, <1>5, <2>5
  <2>8. \A p \in Place : \/ f[k][p] = f[k - 1][p]
                         \/ p = arcs[k].place /\ f[k][p] = f[k - 1][p] \o taken(k, p)
    BY <1>3, <2>5
  <2>9. ASSUME NEW p \in Place, NEW v \in Token
        PROVE  CountOf(f[k][p], v) <= CountOf(g[k][p], v)
    <3>1. f[k - 1][p] \in Seq(Token) /\ g[k - 1][p] \in Seq(Token)
      BY <2>6 DEF OrderedMarking
    <3>2. CountOf(f[k - 1][p], v) \in Nat /\ CountOf(g[k - 1][p], v) \in Nat
      BY <3>1, CountType
    <3>3. CountOf(f[k - 1][p], v) <= CountOf(g[k - 1][p], v)
      BY <2>5
    <3> HIDE DEF within
    <3>4. CASE p = arcs[k].place
      <4> DEFINE u == taken(k, p)
      <4>1. u \in Seq(Token)
        BY <1>2, <2>5, <3>4
      <4>2. g[k][p] = g[k - 1][p] \o u
        BY <2>7, <3>4
      <4>3. f[k][p] = f[k - 1][p] \/ f[k][p] = f[k - 1][p] \o u
        BY <2>8
      <4> HIDE DEF u
      <4>4. CountOf(u, v) \in Nat
        BY <4>1, CountType
      <4>5. CountOf(f[k - 1][p] \o u, v) = CountOf(f[k - 1][p], v) + CountOf(u, v)
        BY <3>1, <4>1, CountConcat
      <4>6. CountOf(g[k - 1][p] \o u, v) = CountOf(g[k - 1][p], v) + CountOf(u, v)
        BY <3>1, <4>1, CountConcat
      <4>7. CASE f[k][p] = f[k - 1][p]
        BY <3>2, <3>3, <4>2, <4>4, <4>6, <4>7
      <4>8. CASE f[k][p] = f[k - 1][p] \o u
        BY <3>2, <3>3, <4>2, <4>4, <4>5, <4>6, <4>8
      <4>9. QED
        BY <4>3, <4>7, <4>8
    <3>5. CASE p # arcs[k].place
      <4>1. g[k][p] = g[k - 1][p] /\ f[k][p] = f[k - 1][p]
        BY <2>7, <2>8, <3>5
      <4>2. QED
        BY <3>3, <4>1
    <3>6. QED
      BY <3>4, <3>5
  <2>10. QED
    BY <2>3, <2>9
<1>7. within(n)
  BY <1>1, <1>6
<1>8. QED
  BY <1>3, <1>4, <1>7 DEF Consumed, Bound

-----------------------------------------------------------------------------

LEMMA BeforeIsAsymmetric ==
  ASSUME NEW t \in Transition, NEW m \in OrderedMarking,
         NEW c \in Product(t, m), NEW d \in Product(t, m), Before(c, d)
  PROVE  ~Before(d, c)
<1> DEFINE arcs == BindingArcs[t]
           n == Len(arcs)
<1>1. n \in Nat /\ DOMAIN arcs = 1..n /\ \A k \in 1..n : arcs[k].place \in Place
  BY ArcsAre
<1>2. /\ DOMAIN c = 1..n /\ DOMAIN d = 1..n
      /\ \A k \in 1..n : c[k] \in ArcCandidates(arcs[k], m) /\ d[k] \in ArcCandidates(arcs[k], m)
  BY <1>1 DEF Product
<1> HIDE DEF n, arcs
<1>3. \A k \in 1..n : c[k] \in SUBSET Nat /\ d[k] \in SUBSET Nat
  BY <1>1, <1>2, CandidatesAre
<1>4. PICK k \in 1..n : Earlier(c[k], d[k]) /\ \A j \in 1..(k - 1) : c[j] = d[j]
  BY <1>2 DEF Before
<1>5. ~Earlier(d[k], c[k])
  <2>1. Earlier(d[k], c[k]) => Earlier(c[k], c[k])
    BY <1>3, <1>4, EarlierIsTransitive
  <2>2. ~Earlier(c[k], c[k])
    BY DEF Earlier
  <2>3. QED
    BY <2>1, <2>2
<1>6. c[k] # d[k]
  BY <1>4 DEF Earlier
<1>7. SUFFICES ASSUME NEW l \in 1..n, Earlier(d[l], c[l]), \A j \in 1..(l - 1) : d[j] = c[j]
               PROVE  FALSE
  BY <1>2 DEF Before
<1>8. d[l] # c[l]
  BY <1>7 DEF Earlier
<1>9. k \in Nat /\ l \in Nat /\ ~(k < l) /\ ~(l < k)
  BY <1>1, <1>4, <1>6, <1>7, <1>8
<1>10. k = l
  BY <1>9
<1>11. QED
  BY <1>5, <1>7, <1>10

(* _select_binding returns at the first choice, in the order in which      *)
(* combinations() and product() yield them, that passes the tests and      *)
(* whose guard does not refuse: it exists if there is any such choice, and *)
(* every passing choice before it has been refused by its guard; a guard   *)
(* that raises there ends the search.                                      *)
THEOREM SelectionStopsAtFirst ==
  ASSUME NEW t \in Transition, NEW m \in OrderedMarking, NEW attempt
  PROVE  LET Ask(c) == GuardVerdict(t, Bound(t, c, m), attempt)
             open   == {c \in Viable(t, m) : Ask(c) # "false"}
         IN  /\ open = {} => SelectBinding(t, m, attempt) = {}
             /\ open # {} =>
                  \E c \in open :
                    /\ \A d \in open : d = c \/ Before(c, d)
                    /\ \A d \in Viable(t, m) : Before(d, c) => Ask(d) = "false"
                    /\ SelectBinding(t, m, attempt) =
                         IF Ask(c) = "raises" THEN {}
                         ELSE {[tokens |-> Bound(t, c, m), consumed |-> Consumed(t, c, m)]}
<1> DEFINE Ask(c) == GuardVerdict(t, Bound(t, c, m), attempt)
           open   == {c \in Viable(t, m) : Ask(c) # "false"}
<1>1. SelectBinding(t, m, attempt) =
        IF open = {} \/ Ask(First(open)) = "raises" THEN {}
        ELSE {[tokens |-> Bound(t, First(open), m), consumed |-> Consumed(t, First(open), m)]}
  BY DEF SelectBinding
<1>2. open \in SUBSET Product(t, m) /\ Viable(t, m) \in SUBSET Product(t, m)
  BY DEF Viable
<1>3. \A d : d \in open <=> d \in Viable(t, m) /\ Ask(d) # "false"
  OBVIOUS
<1> HIDE DEF open, Ask
<1>4. ASSUME open # {}
      PROVE  /\ First(open) \in open
             /\ \A d \in open : d = First(open) \/ Before(First(open), d)
             /\ \A d \in Viable(t, m) : Before(d, First(open)) => Ask(d) = "false"
  <2>1. /\ First(open) \in open
        /\ \A d \in open : d = First(open) \/ Before(First(open), d)
    BY <1>2, <1>4, FirstIsFirst
  <2>2. ASSUME NEW d \in Viable(t, m), Before(d, First(open)), Ask(d) # "false"
        PROVE  FALSE
    <3>1. ~Before(First(open), d)
      BY <1>2, <2>1, <2>2, BeforeIsAsymmetric
    <3>2. d = First(open)
      BY <1>3, <2>1, <2>2, <3>1
    <3>3. QED
      BY <2>2, <3>1, <3>2
  <2>3. QED
    BY <2>1, <2>2
<1>5. open # {} =>
        \E c \in open :
          /\ \A d \in open : d = c \/ Before(c, d)
          /\ \A d \in Viable(t, m) : Before(d, c) => Ask(d) = "false"
          /\ SelectBinding(t, m, attempt) =
               IF Ask(c) = "raises" THEN {}
               ELSE {[tokens |-> Bound(t, c, m), consumed |-> Consumed(t, c, m)]}
  BY <1>1, <1>4
<1>6. QED
  BY <1>1, <1>5 DEF open, Ask

-----------------------------------------------------------------------------
(* The transitions run may select.                                         *)

LEMMA SelectableAre ==
  /\ Selectable \in Seq(Transition)
  /\ \A t : t \in Elements(Selectable) <=>
       /\ t \in Elements(EnabledTransitions(marking, steps))
       /\ Budget = 0 \/ failures[t] < Budget
<1> DEFINE T == {t \in Transition : Budget = 0 \/ failures[t] < Budget}
           E == EnabledTransitions(marking, steps)
<1>1. Selectable = Among(E, T)
  BY DEF Selectable
<1>2. E \in Seq(Transition) /\ \A t \in Elements(E) : t \in Transition
  BY EnabledAre
<1>3. \A t : t \in T <=> t \in Transition /\ (Budget = 0 \/ failures[t] < Budget)
  OBVIOUS
<1> HIDE DEF T, E
<1>4. Among(E, T) \in Seq(Transition) /\ Elements(Among(E, T)) = Elements(E) \cap T
  BY <1>2, AmongDistinct
<1>5. QED
  BY <1>1, <1>2, <1>3, <1>4 DEF E

(* The policy finds a transition of the highest priority, the first of     *)
(* them: a longer and longer beginning of the sequence has one.            *)
LEMMA ChoiceIsMade ==
  ASSUME NEW s \in Seq(Transition), s # <<>>
  PROVE  Choice(s) \in Elements(s)
<1> DEFINE Best(i, n) == \A j \in 1..n : \/ Priority[s[j]] < Priority[s[i]]
                                         \/ Priority[s[j]] = Priority[s[i]] /\ i <= j
           N == {n \in 1..Len(s) : \A i \in 1..n : ~Best(i, n)}
<1>1. Len(s) \in Nat \ {0} /\ DOMAIN s = 1..Len(s)
  OBVIOUS
<1>2. \A i \in 1..Len(s) : Priority[s[i]] \in Int
  BY <1>1, EngineAssumption
<1>3. \A n \in 1..Len(s) : n \in N <=> \A i \in 1..n : ~Best(i, n)
  OBVIOUS
<1>4. N \in SUBSET Nat /\ N \subseteq 1..Len(s)
  BY <1>1
<1>5. \A i, n : Best(i, n) <=> \A j \in 1..n :
                               \/ Priority[s[j]] < Priority[s[i]]
                               \/ Priority[s[j]] = Priority[s[i]] /\ i <= j
  OBVIOUS
<1> HIDE DEF N, Best
<1>6. N = {}
  <2>1. SUFFICES ASSUME N # {} PROVE FALSE
    OBVIOUS
  <2>2. PICK n \in N : \A m \in N : n <= m
    BY <1>4, <2>1, LeastNatural
  <2>3. n \in 1..Len(s)
    BY <1>4
  <2>4. \A i \in 1..n : ~Best(i, n)
    BY <1>3, <2>3
  <2>5. n # 1
    <3>1. ASSUME n = 1 PROVE Best(1, 1)
      BY <1>2, <1>5, <2>3, <3>1
    <3>2. QED
      BY <2>4, <3>1
  <2>6. n - 1 \in 1..Len(s)
    BY <1>1, <2>3, <2>5
  <2>7. n - 1 \notin N
    BY <1>1, <2>2, <2>3, <2>6
  <2>8. PICK k \in 1..(n - 1) : Best(k, n - 1)
    BY <1>3, <2>6, <2>7
  <2>9. k \in 1..Len(s) /\ k \in 1..n /\ n \in 1..n
    BY <1>1, <2>3
  <2>10. Priority[s[k]] \in Int /\ Priority[s[n]] \in Int
    BY <1>2, <2>3, <2>9
  <2>11. \A j \in 1..n : j = n \/ j \in 1..(n - 1)
    BY <2>3
  <2>12. \A j \in 1..(n - 1) : Priority[s[j]] \in Int
    BY <1>1, <1>2, <2>3
  <2>13. CASE Priority[s[n]] > Priority[s[k]]
    <3>1. \A j \in 1..(n - 1) : Priority[s[j]] < Priority[s[n]]
      BY <1>5, <2>8, <2>10, <2>12, <2>13
    <3>2. \A j \in 1..n : \/ Priority[s[j]] < Priority[s[n]]
                          \/ Priority[s[j]] = Priority[s[n]] /\ n <= j
      BY <2>3, <2>11, <3>1
    <3>3. QED
      BY <1>5, <2>4, <2>9, <3>2
  <2>14. CASE ~(Priority[s[n]] > Priority[s[k]])
    <3>1. Priority[s[n]] < Priority[s[k]] \/ (Priority[s[n]] = Priority[s[k]] /\ k <= n)
      BY <2>3, <2>9, <2>10, <2>14
    <3>2. \A j \in 1..n : \/ Priority[s[j]] < Priority[s[k]]
                          \/ Priority[s[j]] = Priority[s[k]] /\ k <= j
      BY <1>5, <2>8, <2>11, <3>1
    <3>3. QED
      BY <1>5, <2>4, <2>9, <3>2
  <2>15. QED
    BY <2>13, <2>14
<1>7. \E i \in DOMAIN s : Best(i, Len(s))
  <2>1. Len(s) \in 1..Len(s)
    BY <1>1
  <2>2. QED
    BY <1>1, <1>3, <1>6, <2>1
<1>8. Choice(s) = s[CHOOSE i \in DOMAIN s : Best(i, Len(s))]
  BY <1>1 DEF Choice, Best
<1>9. (CHOOSE i \in DOMAIN s : Best(i, Len(s))) \in DOMAIN s
  BY <1>7
<1>10. QED
  BY <1>8, <1>9 DEF Elements

(* What run chooses has a binding, for this marking and this attempt.      *)
LEMMA ChosenHasBinding ==
  ASSUME Selectable # <<>>
  PROVE  /\ Choice(Selectable) \in Transition
         /\ SelectBinding(Choice(Selectable), marking, steps) # {}
         /\ Budget = 0 \/ failures[Choice(Selectable)] < Budget
<1>1. Choice(Selectable) \in Elements(Selectable)
  BY SelectableAre, ChoiceIsMade
<1>2. QED
  BY <1>1, SelectableAre, EnabledAre

-----------------------------------------------------------------------------
(* The tape is a sequence, whatever its records are.                       *)

LEMMA GrowingSequence ==
  ASSUME NEW s, NEW x, s \in Seq(Elements(s))
  PROVE  /\ Append(s, x) \in Seq(Elements(Append(s, x)))
         /\ Len(Append(s, x)) = Len(s) + 1 /\ Len(s) \in Nat
         /\ DOMAIN s = 1..Len(s)
         /\ Append(s, x)[Len(s) + 1] = x
         /\ \A i \in 1..Len(s) : Append(s, x)[i] = s[i]
<1> DEFINE S == Elements(s) \cup {x}
<1>1. \A i \in DOMAIN s : s[i] \in S
  BY DEF Elements
<1>2. s \in Seq(S) /\ x \in S
  <2>1. Elements(s) \subseteq S
    OBVIOUS
  <2> HIDE DEF S
  <2>2. s \in Seq(S)
    BY <2>1
  <2>3. QED
    BY <2>2 DEF S
<1> HIDE DEF S
<1>3. Append(s, x) \in Seq(S)
  BY <1>2
<1>4. QED
  BY <1>2, <1>3 DEF Elements

(* A step of run leaves one record, and that of a step that fails is no    *)
(* completion.                                                             *)
LEMMA StepLeavesRecord ==
  ASSUME Selectable # <<>>, NEW t, t = Choice(Selectable)
  PROVE  /\ Completes(t, steps) =>
              \E e : tape' = Append(tape, e) /\ e.error = "none" /\ e.t = t
         /\ Fails(t, steps) \/ Drops(t, steps) =>
              \E e : /\ tape' = Append(tape, e) /\ e.t = t
                     /\ e.error # "none" /\ e.error # "NotEnabled"
         /\ Raises(t, steps) =>
              \/ UNCHANGED tape
              \/ \E e : tape' = Append(tape, e) /\ e.error # "NotEnabled"
<1>1. SelectBinding(t, marking, steps) # {}
  BY ChosenHasBinding
<1>2. ASSUME Completes(t, steps)
      PROVE  \E e : tape' = Append(tape, e) /\ e.error = "none" /\ e.t = t
  <2>1. PICK b, out : Record(FiringRecord(t, steps, "none", b.tokens, Deposited(t, out, b.tokens)))
    BY <1>2 DEF Completes
  <2>2. QED
    BY <2>1 DEF Record, FiringRecord
<1>3. ASSUME Fails(t, steps)
      PROVE  \E e : /\ tape' = Append(tape, e) /\ e.t = t
                    /\ e.error # "none" /\ e.error # "NotEnabled"
  <2>1. PICK e \in Errors(t, steps) : Record(FiringRecord(t, steps, e, NoBound, NoBound))
    BY <1>3 DEF Fails
  <2>2. e # "none" /\ e # "NotEnabled"
    BY <1>1 DEF Errors
  <2>3. QED
    BY <2>1, <2>2 DEF Record, FiringRecord
<1>4. /\ ViolationRecord(t, steps).error = "DepositViolation"
      /\ ViolationRecord(t, steps).t = t
  BY DEF ViolationRecord
<1>5. Drops(t, steps) => tape' = Append(tape, ViolationRecord(t, steps))
  BY DEF Drops, Record
<1>6. Raises(t, steps) => UNCHANGED tape \/ tape' = Append(tape, ViolationRecord(t, steps))
  BY DEF Raises, Record
<1>7. QED
  BY <1>2, <1>3, <1>4, <1>5, <1>6

(* A firing leaves one record or none, wherever it is called from.         *)
LEMMA FiringLeavesRecord ==
  ASSUME NEW t, NEW attempt,
         \/ Completes(t, attempt) \/ Fails(t, attempt)
         \/ Drops(t, attempt) \/ Raises(t, attempt)
  PROVE  UNCHANGED tape \/ \E e : tape' = Append(tape, e)
<1>1. ASSUME Completes(t, attempt) PROVE \E e : tape' = Append(tape, e)
  BY <1>1 DEF Completes, Record
<1>2. ASSUME Fails(t, attempt) PROVE \E e : tape' = Append(tape, e)
  BY <1>2 DEF Fails, Record
<1>3. Drops(t, attempt) => tape' = Append(tape, ViolationRecord(t, attempt))
  BY DEF Drops, Record
<1>4. Raises(t, attempt) => UNCHANGED tape \/ tape' = Append(tape, ViolationRecord(t, attempt))
  BY DEF Raises, Record
<1>5. QED
  BY <1>1, <1>2, <1>3, <1>4

LEMMA StillSequence ==
  ASSUME tape \in Seq(Elements(tape)), UNCHANGED tape \/ \E e : tape' = Append(tape, e)
  PROVE  tape' \in Seq(Elements(tape'))
<1>1. CASE UNCHANGED tape
  BY <1>1
<1>2. CASE \E e : tape' = Append(tape, e)
  <2>1. PICK e : tape' = Append(tape, e)
    BY <1>2
  <2>2. Append(tape, e) \in Seq(Elements(Append(tape, e)))
    BY GrowingSequence
  <2>3. QED
    BY <2>1, <2>2
<1>3. QED
  BY <1>1, <1>2

LEMMA InjectionLeavesRecords ==
  ASSUME NEW a \in Arrivals, Injects(a), tape \in Seq(Elements(tape))
  PROVE  tape' \in Seq(Elements(tape'))
<1> DEFINE r == InjectionRecords(a)
           S == Elements(tape) \cup Elements(r)
<1>1. a.placements \in Seq(Placement)
  BY EngineAssumption
<1>2. Len(a.placements) \in Nat /\ DOMAIN a.placements = 1..Len(a.placements)
  BY <1>1
<1>3. \A i \in DOMAIN r : r[i] \in Elements(r)
  BY DEF Elements
<1>4. r \in [1..Len(a.placements) -> Elements(r)]
  BY <1>2, <1>3 DEF InjectionRecords
<1> HIDE DEF r
<1>5. r \in Seq(Elements(r))
  BY <1>2, <1>4
<1>6. tape \in Seq(S) /\ r \in Seq(S)
  <2>1. Elements(tape) \subseteq S /\ Elements(r) \subseteq S
    OBVIOUS
  <2> HIDE DEF S
  <2>2. QED
    BY <1>5, <2>1
<1>7. tape \o r \in Seq(S) /\ Elements(tape \o r) = S
  BY <1>6, ConcatDistinct
<1>8. tape' = tape \o r
  BY DEF Injects, r
<1>9. QED
  BY <1>7, <1>8

-----------------------------------------------------------------------------
(* run's counts and the tape.                                              *)

(* In a run the last records of the tape are its steps', and the failures  *)
(* it counts are those that the records show.                              *)
Counting ==
  /\ tape \in Seq(Elements(tape))
  /\ steps \in Nat
  /\ phase = "running" =>
       /\ failures \in [Transition -> Nat]
       /\ steps <= Len(tape)
       /\ \A t \in Transition : /\ failures[t] = FailuresSince(t)
                                /\ Budget = 0 \/ failures[t] <= Budget

LEMMA CompletionClears ==
  ASSUME tape \in Seq(Elements(tape)), steps \in Nat, steps' = steps + 1,
         NEW e, e.error = "none", tape' = Append(tape, e), NEW t
  PROVE  FailuresSince(t)' = 0
<1> DEFINE window == (Len(tape') - steps' + 1)..Len(tape')
<1>1. /\ Len(tape) \in Nat /\ Len(tape') = Len(tape) + 1
      /\ tape'[Len(tape')].error = "none"
  BY GrowingSequence
<1>2. \A i \in window : Len(tape') \in i..Len(tape')
  BY <1>1
<1>3. {i \in window : /\ tape'[i].t = t
                      /\ \A j \in i..Len(tape') : tape'[j].error # "none"} = {}
  BY <1>1, <1>2
<1>4. Cardinality({}) = 0
  BY FS_EmptySet
<1>5. QED
  BY <1>3, <1>4 DEF FailuresSince

LEMMA FailureCounts ==
  ASSUME tape \in Seq(Elements(tape)), steps \in Nat, steps <= Len(tape),
         steps' = steps + 1,
         NEW e, e.error # "none", tape' = Append(tape, e), NEW t
  PROVE  /\ FailuresSince(t) \in Nat
         /\ FailuresSince(t)' = IF e.t = t THEN FailuresSince(t) + 1 ELSE FailuresSince(t)
<1> DEFINE window == (Len(tape) - steps + 1)..Len(tape)
           old == {i \in window : /\ tape[i].t = t
                                  /\ \A j \in i..Len(tape) : tape[j].error # "none"}
           last == Len(tape) + 1
           windowThen == (Len(tape') - steps' + 1)..Len(tape')
           new == {i \in windowThen : /\ tape'[i].t = t
                                      /\ \A j \in i..Len(tape') : tape'[j].error # "none"}
<1>1. /\ Len(tape) \in Nat /\ Len(tape') = last
      /\ tape'[last] = e /\ \A i \in 1..Len(tape) : tape'[i] = tape[i]
  BY GrowingSequence
<1>2. /\ window \subseteq 1..Len(tape) /\ last \notin window
      /\ \A i : i \in windowThen <=> i \in window \/ i = last
  BY <1>1
<1>3. \A i \in window : /\ i..Len(tape) \subseteq 1..Len(tape)
                        /\ \A j : j \in i..Len(tape') <=> j \in i..Len(tape) \/ j = last
  BY <1>1
<1>4. last..Len(tape') = {last}
  BY <1>1
<1>5. \A i \in window : i \in new <=> i \in old
  <2>1. SUFFICES ASSUME NEW i \in window PROVE i \in new <=> i \in old
    OBVIOUS
  <2>2. \A j \in i..Len(tape) : tape'[j] = tape[j]
    BY <1>1, <1>3
  <2>3. (\A j \in i..Len(tape') : tape'[j].error # "none")
          <=> (\A j \in i..Len(tape) : tape[j].error # "none")
    BY <1>1, <1>3, <2>2
  <2>4. tape'[i] = tape[i] /\ i \in windowThen
    BY <1>1, <1>2
  <2>5. QED
    BY <2>3, <2>4
<1>6. last \in new <=> e.t = t
  BY <1>1, <1>2, <1>4
<1>7. IsFiniteSet(old) /\ Cardinality(old) \in Nat
  <2>1. old \in SUBSET (1..Len(tape)) /\ IsFiniteSet(1..Len(tape))
    BY <1>1, <1>2, FS_Interval
  <2> HIDE DEF old
  <2>2. QED
    BY <2>1, FS_Subset, FS_CardinalityType
<1>8. \A i \in old : i \in window
  OBVIOUS
<1>9. \A i \in new : i \in window \/ i = last
  BY <1>2
<1>10. FailuresSince(t) = Cardinality(old) /\ FailuresSince(t)' = Cardinality(new)
  BY DEF FailuresSince
<1> HIDE DEF old, new, window, windowThen, last
<1>11. new = IF e.t = t THEN old \cup {last} ELSE old
  <2>1. \A i : i \in new <=> i \in old \/ (i = last /\ e.t = t)
    BY <1>2, <1>5, <1>6, <1>8, <1>9
  <2>2. CASE e.t = t
    BY <2>1, <2>2
  <2>3. CASE e.t # t
    BY <2>1, <2>3
  <2>4. QED
    BY <2>2, <2>3
<1>12. last \notin old
  BY <1>2, <1>8
<1>13. Cardinality(old \cup {last}) = Cardinality(old) + 1
  BY <1>7, <1>12, FS_AddElement
<1>14. QED
  BY <1>7, <1>10, <1>11, <1>13


(* One step of run keeps the counts in agreement with the tape.            *)
LEMMA RunFiresCounting ==
  Counting /\ RunFires => Counting'
<1> SUFFICES ASSUME Counting, RunFires PROVE Counting'
  OBVIOUS
<1> DEFINE t == Choice(Selectable)
<1>1. /\ phase = "running" /\ Selectable # <<>>
      /\ tape \in Seq(Elements(tape)) /\ steps \in Nat /\ Len(tape) \in Nat
      /\ failures \in [Transition -> Nat] /\ steps <= Len(tape)
      /\ \A u \in Transition : /\ failures[u] = FailuresSince(u)
                               /\ Budget = 0 \/ failures[u] <= Budget
      /\ Budget \in Nat
  BY EngineAssumption DEF RunFires, Counting
<1>2. t \in Transition /\ (Budget = 0 \/ failures[t] < Budget)
  BY <1>1, ChosenHasBinding
<1> HIDE DEF t
<1>3. CASE Completes(t, steps) /\ failures' = Cleared(t) /\ steps' = steps + 1
  <2>1. PICK e : tape' = Append(tape, e) /\ e.error = "none"
    BY <1>1, <1>3, StepLeavesRecord DEF t
  <2>2. /\ tape' \in Seq(Elements(tape')) /\ Len(tape') = Len(tape) + 1
    BY <1>1, <2>1, GrowingSequence
  <2>3. \A u \in Transition : FailuresSince(u)' = 0
    BY <1>1, <1>3, <2>1, CompletionClears
  <2>4. failures' = [u \in Transition |-> 0]
    BY <1>3 DEF Cleared, NoFailures
  <2>5. steps' \in Nat /\ steps' <= Len(tape')
    BY <1>1, <1>3, <2>2
  <2>6. /\ failures' \in [Transition -> Nat]
        /\ \A u \in Transition : /\ failures'[u] = FailuresSince(u)'
                                 /\ Budget = 0 \/ failures'[u] <= Budget
    BY <1>1, <2>3, <2>4
  <2>7. QED
    BY <2>2, <2>5, <2>6 DEF Counting
<1>4. CASE /\ Fails(t, steps) \/ Drops(t, steps)
           /\ failures' = [failures EXCEPT ![t] = @ + 1]
           /\ steps' = steps + 1
  <2>1. PICK e : tape' = Append(tape, e) /\ e.t = t /\ e.error # "none"
    BY <1>1, <1>4, StepLeavesRecord DEF t
  <2>2. /\ tape' \in Seq(Elements(tape')) /\ Len(tape') = Len(tape) + 1
    BY <1>1, <2>1, GrowingSequence
  <2>3. \A u \in Transition :
          FailuresSince(u)' = IF e.t = u THEN FailuresSince(u) + 1 ELSE FailuresSince(u)
    BY <1>1, <1>4, <2>1, FailureCounts
  <2>4. steps' \in Nat /\ steps' <= Len(tape')
    BY <1>1, <1>4, <2>2
  <2>5. /\ failures' \in [Transition -> Nat]
        /\ \A u \in Transition : failures'[u] = IF u = t THEN failures[u] + 1 ELSE failures[u]
    BY <1>1, <1>2, <1>4
  <2>6. \A u \in Transition : failures[u] \in Nat
    BY <1>1
  <2>7. \A u \in Transition : /\ failures'[u] = FailuresSince(u)'
                              /\ Budget = 0 \/ failures'[u] <= Budget
    BY <1>1, <1>2, <2>1, <2>3, <2>5, <2>6
  <2>8. QED
    BY <2>2, <2>4, <2>5, <2>7 DEF Counting
<1>5. CASE Raises(t, steps) /\ phase' = "raised" /\ UNCHANGED <<steps, failures>>
  <2>1. UNCHANGED tape \/ \E e : tape' = Append(tape, e)
    BY <1>5, FiringLeavesRecord
  <2>2. tape' \in Seq(Elements(tape'))
    BY <1>1, <2>1, StillSequence
  <2>3. phase' # "running" /\ steps' \in Nat
    BY <1>1, <1>5
  <2>4. QED
    BY <2>2, <2>3 DEF Counting
<1>6. QED
  BY <1>3, <1>4, <1>5 DEF RunFires, t

LEMMA StartCounting ==
  ASSUME StartsRun, tape' \in Seq(Elements(tape'))
  PROVE  Counting'
<1>1. steps' = 0 /\ failures' = [u \in Transition |-> 0]
  BY DEF StartsRun, NoFailures
<1>2. \A u \in Transition : FailuresSince(u)' = 0
  <2>1. ASSUME NEW u PROVE FailuresSince(u)' = 0
    <3>1. Len(tape') \in Nat
      OBVIOUS
    <3>2. (Len(tape') - steps' + 1)..Len(tape') = {}
      BY <1>1, <3>1
    <3>3. Cardinality({}) = 0
      BY FS_EmptySet
    <3>4. QED
      BY <3>2, <3>3 DEF FailuresSince
  <2>2. QED
    BY <2>1
<1>3. Budget \in Nat /\ Len(tape') \in Nat
  BY EngineAssumption
<1>4. /\ failures' \in [Transition -> Nat]
      /\ \A u \in Transition : /\ failures'[u] = FailuresSince(u)'
                               /\ Budget = 0 \/ failures'[u] <= Budget
  BY <1>1, <1>2, <1>3
<1>5. QED
  BY <1>1, <1>3, <1>4 DEF Counting

LEMMA NextCounting ==
  Counting /\ [Next]_vars => Counting'
<1> SUFFICES ASSUME Counting, [Next]_vars PROVE Counting'
  OBVIOUS
<1>1. tape \in Seq(Elements(tape)) /\ steps \in Nat
  BY DEF Counting
<1>2. CASE UNCHANGED vars
  BY <1>2 DEF Counting, FailuresSince, vars
<1>3. CASE RunFires
  BY <1>3, RunFiresCounting
<1>4. CASE RunReturns
  BY <1>1, <1>4 DEF RunReturns, Counting
<1>5. CASE CallRun
  BY <1>1, <1>5, StartCounting DEF CallRun
<1>6. ASSUME NEW t \in Transition \cup Misnamed, CallFire(t)
      PROVE  Counting'
  <2>1. phase' # "running" /\ steps' = steps
    BY <1>6 DEF CallFire, Calls
  <2>2. UNCHANGED tape \/ \E e : tape' = Append(tape, e)
    BY <1>6, FiringLeavesRecord DEF CallFire
  <2>3. tape' \in Seq(Elements(tape'))
    BY <1>1, <2>2, StillSequence
  <2>4. QED
    BY <1>1, <2>1, <2>3 DEF Counting
<1>7. ASSUME NEW a \in Arrivals, CallInject(a)
      PROVE  Counting'
  <2>1. phase' # "running" /\ steps' = steps
    BY <1>7 DEF CallInject, Calls
  <2>2. tape' \in Seq(Elements(tape'))
    BY <1>1, <1>7, InjectionLeavesRecords DEF CallInject
  <2>3. QED
    BY <1>1, <2>1, <2>2 DEF Counting
<1>8. ASSUME NEW a \in Arrivals, CallTick(a)
      PROVE  Counting'
  BY <1>1, <1>8, InjectionLeavesRecords, StartCounting DEF CallTick
<1>9. QED
  BY <1>2, <1>3, <1>4, <1>5, <1>6, <1>7, <1>8 DEF Next

LEMMA SpecCounting == Spec => []Counting
<1>1. Init => Counting
  <2>1. <<>> \in Seq(Elements(<<>>))
    BY EmptyIsDistinct
  <2>2. QED
    BY <2>1 DEF Init, Counting
<1>2. QED
  BY <1>1, NextCounting, PTL DEF Spec

-----------------------------------------------------------------------------

(* run fires what it probed: whatever a guard makes of the attempt, no     *)
(* step of run leaves a NotEnabled.                                        *)
THEOREM ProbeIsFired == Spec => ProbeAgreesWithFire
<1> DEFINE Agrees == phase = "running" /\ tape' # tape => tape'[Len(tape')].error # "NotEnabled"
<1>1. ASSUME Counting, [Next]_vars PROVE Agrees
  <2>1. SUFFICES ASSUME phase = "running", tape' # tape
                 PROVE  tape'[Len(tape')].error # "NotEnabled"
    OBVIOUS
  <2>2. RunFires
    BY <1>1, <2>1 DEF Next, vars, RunReturns, CallRun, CallFire, CallInject, CallTick, Calls
  <2>3. \E e : tape' = Append(tape, e) /\ e.error # "NotEnabled"
    <3>1. Selectable # <<>>
      BY <2>2 DEF RunFires
    <3>2. "none" # "NotEnabled"
      OBVIOUS
    <3>3. QED
      BY <2>1, <2>2, <3>1, <3>2, StepLeavesRecord DEF RunFires
  <2>4. QED
    BY <1>1, <2>3, GrowingSequence DEF Counting
<1>2. QED
  BY <1>1, SpecCounting, PTL DEF Spec, ProbeAgreesWithFire

(* run does not stop early: before max_steps only when each transition     *)
(* that has a binding has failed exactly as often as it may, by the tape,  *)
(* since the marking last changed.                                         *)
THEOREM RunStopsWithReason == Spec => RunStopsForAReason
<1> DEFINE Reason == phase = "running" /\ phase' = "idle" =>
              \/ steps = MaxSteps
              \/ \A t \in Transition : SelectBinding(t, marking, steps) # {} =>
                   Budget # 0 /\ FailuresSince(t) = Budget
<1>1. ASSUME Counting, [Next]_vars PROVE Reason
  <2>1. SUFFICES ASSUME phase = "running", phase' = "idle", steps # MaxSteps,
                        NEW t \in Transition, SelectBinding(t, marking, steps) # {}
                 PROVE  Budget # 0 /\ FailuresSince(t) = Budget
    OBVIOUS
  <2>2. RunReturns
    BY <1>1, <2>1 DEF Next, vars, RunFires, CallRun, CallFire, CallInject, CallTick, Calls,
                      StartsRun
  <2>3. Selectable = <<>>
    BY <2>1, <2>2 DEF RunReturns
  <2>4. t \in Elements(EnabledTransitions(marking, steps))
    BY <2>1, EnabledAre, BindingIsCandidate
  <2>5. t \notin Elements(Selectable)
    BY <2>3, EmptyIsDistinct
  <2>6. ~(Budget = 0 \/ failures[t] < Budget)
    BY <2>4, <2>5, SelectableAre
  <2>7. /\ failures[t] \in Nat /\ failures[t] = FailuresSince(t)
        /\ Budget = 0 \/ failures[t] <= Budget
    BY <1>1, <2>1 DEF Counting
  <2>8. Budget \in Nat
    BY EngineAssumption
  <2>9. QED
    BY <2>6, <2>7, <2>8
<1>2. QED
  BY <1>1, SpecCounting, PTL DEF Spec, RunStopsForAReason

-----------------------------------------------------------------------------
(* Removing and depositing.                                                *)

(* How often v stands among the first k of a sequence.                     *)
CountTo(s, v, k) == Cardinality({i \in 1..k : s[i] = v})

LEMMA CountToSteps ==
  ASSUME NEW S, NEW s \in Seq(S), NEW v
  PROVE  /\ CountTo(s, v, 0) = 0 /\ CountTo(s, v, Len(s)) = CountOf(s, v)
         /\ \A k \in 1..Len(s) :
              /\ CountTo(s, v, k - 1) \in Nat /\ CountTo(s, v, k) <= CountOf(s, v)
              /\ CountTo(s, v, k) = IF s[k] = v THEN CountTo(s, v, k - 1) + 1
                                    ELSE CountTo(s, v, k - 1)
<1> DEFINE A(k) == {i \in 1..k : s[i] = v}
<1>1. DOMAIN s = 1..Len(s) /\ Len(s) \in Nat
  OBVIOUS
<1>2. A(0) = {} /\ A(Len(s)) = {i \in DOMAIN s : s[i] = v}
  BY <1>1
<1>3. \A k \in Nat : /\ k + 1 \notin A(k)
                     /\ A(k + 1) = IF s[k + 1] = v THEN A(k) \cup {k + 1} ELSE A(k)
  <2>1. SUFFICES ASSUME NEW k \in Nat
                 PROVE  /\ k + 1 \notin A(k)
                        /\ A(k + 1) = IF s[k + 1] = v THEN A(k) \cup {k + 1} ELSE A(k)
    OBVIOUS
  <2>2. \A i : i \in 1..(k + 1) <=> i \in 1..k \/ i = k + 1
    OBVIOUS
  <2>3. \A i : i \in A(k + 1) <=> i \in A(k) \/ (i = k + 1 /\ s[k + 1] = v)
    BY <2>2
  <2>4. k + 1 \notin A(k)
    OBVIOUS
  <2> HIDE DEF A
  <2>5. CASE s[k + 1] = v
    BY <2>3, <2>4, <2>5
  <2>6. CASE s[k + 1] # v
    BY <2>3, <2>4, <2>6
  <2>7. QED
    BY <2>5, <2>6
<1>4. \A k \in 0..Len(s) : /\ IsFiniteSet(A(k)) /\ Cardinality(A(k)) \in Nat
                           /\ Cardinality(A(k)) <= Cardinality(A(Len(s)))
  <2>1. SUFFICES ASSUME NEW k \in 0..Len(s)
                 PROVE  /\ IsFiniteSet(A(k)) /\ Cardinality(A(k)) \in Nat
                        /\ Cardinality(A(k)) <= Cardinality(A(Len(s)))
    OBVIOUS
  <2>2. A(k) \in SUBSET A(Len(s))
    BY <1>1
  <2>3. IsFiniteSet(A(Len(s)))
    BY <1>2, CountType
  <2> HIDE DEF A
  <2>4. QED
    BY <2>2, <2>3, FS_Subset, FS_CardinalityType
<1>5. \A k : CountTo(s, v, k) = Cardinality(A(k))
  BY DEF CountTo
<1> HIDE DEF A
<1>6. Cardinality(A(0)) = 0 /\ Cardinality(A(Len(s))) = CountOf(s, v)
  BY <1>2, FS_EmptySet DEF CountOf
<1>7. ASSUME NEW k \in 1..Len(s)
      PROVE  /\ Cardinality(A(k - 1)) \in Nat /\ Cardinality(A(k)) <= CountOf(s, v)
             /\ Cardinality(A(k)) = IF s[k] = v THEN Cardinality(A(k - 1)) + 1
                                    ELSE Cardinality(A(k - 1))
  <2>1. k - 1 \in Nat /\ k - 1 \in 0..Len(s) /\ k \in 0..Len(s) /\ (k - 1) + 1 = k
    BY <1>1
  <2>2. k \notin A(k - 1) /\ A(k) = IF s[k] = v THEN A(k - 1) \cup {k} ELSE A(k - 1)
    BY <1>3, <2>1
  <2>3. Cardinality(A(k - 1) \cup {k}) = Cardinality(A(k - 1)) + 1
    BY <1>4, <2>1, <2>2, FS_AddElement
  <2>4. QED
    BY <1>4, <1>6, <2>1, <2>2, <2>3
<1>8. QED
  BY <1>5, <1>6, <1>7

(* Each token to be removed is removed once, where the place holds enough  *)
(* of its equals; nothing is added.                                        *)
LEMMA RemoveEachCounts ==
  ASSUME NEW S, NEW s \in Seq(S), NEW taken \in Seq(S)
  PROVE  /\ RemoveEach(s, taken) \in Seq(S)
         /\ Elements(RemoveEach(s, taken)) \subseteq Elements(s)
         /\ \A v : CountOf(taken, v) <= CountOf(s, v) =>
              CountOf(RemoveEach(s, taken), v) = CountOf(s, v) - CountOf(taken, v)
<1> DEFINE n == Len(taken)
           X == Seq(S)
           step == [k \in 1..n |-> [x \in X |-> Seqs!RemoveFirst(x, taken[k])]]
<1>1. n \in Nat
  OBVIOUS
<1>2. RemoveEach(s, taken) =
        (CHOOSE f : f = [k \in 0..n |-> IF k = 0 THEN s
                                         ELSE Seqs!RemoveFirst(f[k - 1], taken[k])])[n]
  BY DEF RemoveEach
<1>3. \A x \in X : \A w : Seqs!RemoveFirst(x, w) \in X
  BY RemoveFirstCounts
<1>4. step \in [1..n -> [X -> X]]
  BY <1>3
<1>5. \A k \in 1..n, x \in X : step[k][x] = Seqs!RemoveFirst(x, taken[k])
  OBVIOUS
<1>14. s \in X
  OBVIOUS
<1> HIDE DEF step, n, X
<1>6. PICK g : Loops(g, X, s, n, step)
  BY <1>1, <1>4, <1>14, LoopExists
<1>7. g = [k \in 0..n |-> IF k = 0 THEN s ELSE Seqs!RemoveFirst(g[k - 1], taken[k])]
  <2>1. \A k \in 1..n : k - 1 \in 0..n /\ g[k - 1] \in X
    BY <1>1, <1>6 DEF Loops
  <2>2. \A k \in 0..n : g[k] = IF k = 0 THEN s ELSE Seqs!RemoveFirst(g[k - 1], taken[k])
    <3>1. \A k \in 1..n : g[k] = step[k][g[k - 1]]
      BY <1>6 DEF Loops
    <3>2. \A k \in 1..n : g[k] = Seqs!RemoveFirst(g[k - 1], taken[k])
      BY <1>5, <2>1, <3>1
    <3>3. g[0] = s /\ \A k \in 0..n : k = 0 \/ k \in 1..n
      BY <1>1, <1>6 DEF Loops
    <3>4. QED
      BY <3>2, <3>3
  <2>3. g = [k \in 0..n |-> g[k]]
    BY <1>6 DEF Loops
  <2>4. QED
    BY <2>2, <2>3
<1> DEFINE f == CHOOSE f : f = [k \in 0..n |-> IF k = 0 THEN s
                                               ELSE Seqs!RemoveFirst(f[k - 1], taken[k])]
<1>8. f = [k \in 0..n |-> IF k = 0 THEN s ELSE Seqs!RemoveFirst(f[k - 1], taken[k])]
  BY <1>7
<1>15. RemoveEach(s, taken) = f[n]
  BY <1>2
<1> HIDE DEF f
<1>9. f[0] = s /\ \A k \in 1..n : f[k] = Seqs!RemoveFirst(f[k - 1], taken[k])
  BY <1>1, <1>8
<1> DEFINE Good(k) == /\ f[k] \in Seq(S) /\ Elements(f[k]) \subseteq Elements(s)
                      /\ \A v : CountOf(taken, v) <= CountOf(s, v) =>
                           CountOf(f[k], v) = CountOf(s, v) - CountTo(taken, v, k)
           bad == {k \in 0..n : ~Good(k)}
<1>10. bad = {}
  <2>1. SUFFICES ASSUME bad # {} PROVE FALSE
    OBVIOUS
  <2>2. PICK k \in bad : \A l \in bad : k <= l
    <3>1. bad \in SUBSET Nat
      BY <1>1
    <3> HIDE DEF bad
    <3>2. QED
      BY <2>1, <3>1, LeastNatural
  <2>3. k \in 0..n /\ ~Good(k)
    OBVIOUS
  <2>4. k # 0
    <3>1. \A v : CountTo(taken, v, 0) = 0 /\ CountOf(s, v) \in Nat
      BY CountToSteps, CountType
    <3>2. Good(0)
      BY <1>9, <3>1
    <3>3. QED
      BY <2>3, <3>2
  <2>5. k \in 1..n /\ k - 1 \in 0..n /\ Good(k - 1)
    BY <1>1, <2>2, <2>3, <2>4
  <2> HIDE DEF bad
  <2>6. f[k - 1] \in Seq(S) /\ f[k] = Seqs!RemoveFirst(f[k - 1], taken[k])
    BY <1>9, <2>5
  <2>7. /\ f[k] \in Seq(S) /\ Elements(f[k]) \subseteq Elements(f[k - 1])
        /\ \A v : CountOf(f[k], v) = IF v = taken[k] /\ CountOf(f[k - 1], v) > 0
                                     THEN CountOf(f[k - 1], v) - 1 ELSE CountOf(f[k - 1], v)
    BY <2>6, RemoveFirstCounts
  <2>8. ASSUME NEW v, CountOf(taken, v) <= CountOf(s, v)
        PROVE  CountOf(f[k], v) = CountOf(s, v) - CountTo(taken, v, k)
    <3>1. CountOf(f[k - 1], v) = CountOf(s, v) - CountTo(taken, v, k - 1)
      BY <2>5, <2>8
    <3>2. CountOf(s, v) \in Nat /\ CountOf(taken, v) \in Nat
      BY CountType
    <3>3. /\ CountTo(taken, v, k - 1) \in Nat /\ CountTo(taken, v, k) <= CountOf(taken, v)
          /\ CountTo(taken, v, k) = IF taken[k] = v THEN CountTo(taken, v, k - 1) + 1
                                    ELSE CountTo(taken, v, k - 1)
      BY <2>5, CountToSteps DEF n
    <3>4. CountOf(f[k], v) = IF v = taken[k] /\ CountOf(f[k - 1], v) > 0
                             THEN CountOf(f[k - 1], v) - 1 ELSE CountOf(f[k - 1], v)
      BY <2>7
    <3>5. CASE taken[k] = v
      BY <2>8, <3>1, <3>2, <3>3, <3>4, <3>5
    <3>6. CASE taken[k] # v
      BY <3>1, <3>3, <3>4, <3>6
    <3>7. QED
      BY <3>5, <3>6
  <2>9. QED
    BY <2>3, <2>5, <2>7, <2>8
<1>11. Good(n)
  <2>1. n \in 0..n /\ n \notin bad
    BY <1>1, <1>10
  <2>2. \A k \in 0..n : k \notin bad => Good(k)
    OBVIOUS
  <2> HIDE DEF bad, Good
  <2>3. QED
    BY <2>1, <2>2
<1>12. \A v : CountTo(taken, v, n) = CountOf(taken, v)
  BY CountToSteps DEF n
<1>13. QED
  BY <1>11, <1>12, <1>15

-----------------------------------------------------------------------------
(* What is put into a marking.                                             *)

(* The token a cel template computes is built with the template's type     *)
(* (_deposit); else the evaluation counts as failed.                       *)
ComputedHasItsType ==
  \A t \in Transition : \A k \in DOMAIN Templates[t] : \A bound \in OrderedMarking :
    Templates[t][k].fallback = "cel" =>
      Computed(Templates[t][k], bound) \in Templates[t][k].type \cup {CelError}

(* A marking whose places hold tokens that they accept.                    *)
Accepting(m) ==
  /\ m \in OrderedMarking
  /\ \A p \in Place : Elements(m[p]) \subseteq Accepts[p]

LEMMA UnsuppliedAre ==
  ASSUME NEW t \in Transition, NEW out
  PROVE  /\ Unsupplied(t, out) \in Seq(Template)
         /\ \A i \in DOMAIN Unsupplied(t, out) :
              \E k \in DOMAIN Templates[t] :
                Unsupplied(t, out)[i] = Templates[t][k] /\ Templates[t][k].fallback # "none"
<1> DEFINE T == Templates[t]
           Supplied(a) == \E i \in DOMAIN out[a.place] : out[a.place][i] \in a.type
           c == {k \in DOMAIN T : T[k].fallback # "none" /\ ~Supplied(T[k])}
<1>1. Unsupplied(t, out) = Subsequence(T, c)
  BY DEF Unsupplied
<1>2. c \in SUBSET DOMAIN T /\ \A k \in c : T[k].fallback # "none"
  OBVIOUS
<1>3. T \in Seq(Template)
  BY EngineAssumption
<1> HIDE DEF c, T
<1>4. /\ Cardinality(c) \in Nat /\ Subsequence(T, c) \in Seq(Template)
      /\ Len(Subsequence(T, c)) = Cardinality(c)
      /\ \A n \in 1..Cardinality(c) :
           \E i \in c : Rank(c, i) = n /\ Subsequence(T, c)[n] = T[i]
  BY <1>2, <1>3, SubsequenceAt
<1>5. DOMAIN Subsequence(T, c) = 1..Cardinality(c)
  BY <1>4
<1>6. QED
  BY <1>1, <1>2, <1>4, <1>5 DEF T

(* A deposit that does not break the contract is acceptable.               *)
LEMMA DepositIsAccepted ==
  ASSUME ComputedHasItsType,
         NEW t \in Transition, NEW out \in Outputs[t], NEW bound \in OrderedMarking,
         ~BreaksContract(t, out, bound)
  PROVE  Accepting(Deposited(t, out, bound))
<1> DEFINE lacking == Unsupplied(t, out)
           c(p) == {k \in DOMAIN lacking : lacking[k].place = p}
           At(p) == Subsequence(lacking, c(p))
           filled(p) == [k \in DOMAIN At(p) |-> FallbackToken(At(p)[k], bound)]
<1>1. out \in OrderedMarking /\ \A p \in Place : Accepts[p] \subseteq Token
  BY EngineAssumption
<1>2. /\ lacking \in Seq(Template)
      /\ \A i \in DOMAIN lacking : \E k \in DOMAIN Templates[t] :
           lacking[i] = Templates[t][k] /\ Templates[t][k].fallback # "none"
  BY UnsuppliedAre
<1>3. \A i \in DOMAIN lacking : FallbackToken(lacking[i], bound) # CelError
  BY DEF BreaksContract, CelFails, Seqs!ToSet
<1>4. Deposited(t, out, bound) = [p \in Place |-> out[p] \o filled(p)]
  BY DEF Deposited
<1>5. \A p : c(p) \in SUBSET DOMAIN lacking /\ \A k \in c(p) : lacking[k].place = p
  OBVIOUS
<1> HIDE DEF lacking, c
<1>6. ASSUME NEW k \in DOMAIN Templates[t], Templates[t][k].fallback # "none",
             FallbackToken(Templates[t][k], bound) # CelError
      PROVE  FallbackToken(Templates[t][k], bound) \in Accepts[Templates[t][k].place]
  <2>1. Templates[t] \in Seq(Template) /\ Templates[t][k] \in Template
    BY EngineAssumption, <1>6
  <2>2. Templates[t][k].fallback \in {"data", "cel"}
    BY <1>6, <2>1 DEF Template
  <2>3. /\ Templates[t][k].type \subseteq Accepts[Templates[t][k].place]
        /\ Templates[t][k].fallback = "data" => Templates[t][k].data \in Templates[t][k].type
    BY EngineAssumption, <1>6
  <2>4. CASE Templates[t][k].fallback = "data"
    BY <2>3, <2>4 DEF FallbackToken
  <2>5. CASE Templates[t][k].fallback = "cel"
    <3>1. FallbackToken(Templates[t][k], bound) = Computed(Templates[t][k], bound)
      BY <2>5 DEF FallbackToken
    <3>2. Computed(Templates[t][k], bound) \in Templates[t][k].type \cup {CelError}
      BY <1>6, <2>5 DEF ComputedHasItsType
    <3>3. QED
      BY <1>6, <2>3, <3>1, <3>2
  <2>6. QED
    BY <2>2, <2>4, <2>5
<1>7. \A i \in DOMAIN lacking : FallbackToken(lacking[i], bound) \in Accepts[lacking[i].place]
  BY <1>2, <1>3, <1>6
<1>8. ASSUME NEW p \in Place
      PROVE  /\ out[p] \o filled(p) \in Seq(Token)
             /\ Elements(out[p] \o filled(p)) \subseteq Accepts[p]
  <2>1. /\ Cardinality(c(p)) \in Nat /\ At(p) \in Seq(Template)
        /\ Len(At(p)) = Cardinality(c(p))
        /\ \A n \in 1..Cardinality(c(p)) : \E i \in c(p) : At(p)[n] = lacking[i]
    BY <1>2, <1>5, SubsequenceAt
  <2> HIDE DEF At
  <2>2. DOMAIN At(p) = 1..Len(At(p)) /\ Len(At(p)) \in Nat
    BY <2>1
  <2>3. \A n \in DOMAIN At(p) : FallbackToken(At(p)[n], bound) \in Accepts[p]
    BY <1>5, <1>7, <2>1, <2>2
  <2>4. filled(p) \in [1..Len(At(p)) -> Accepts[p]]
    BY <2>2, <2>3
  <2> HIDE DEF filled
  <2>5. filled(p) \in Seq(Accepts[p])
    BY <2>2, <2>4
  <2>6. Elements(filled(p)) \subseteq Accepts[p]
    BY <2>5 DEF Elements
  <2>7. filled(p) \in Seq(Token) /\ out[p] \in Seq(Token)
    BY <1>1, <2>5 DEF OrderedMarking
  <2>8. Elements(out[p]) \subseteq Accepts[p]
    <3>1. SUFFICES ASSUME NEW i \in DOMAIN out[p] PROVE out[p][i] \in Accepts[p]
      BY DEF Elements
    <3>2. PICK k \in DOMAIN Templates[t] :
            Templates[t][k].place = p /\ out[p][i] \in Templates[t][k].type
      BY DEF BreaksContract, DetectViolation
    <3>3. QED
      BY <3>2, EngineAssumption
  <2>9. QED
    BY <2>6, <2>7, <2>8, ConcatDistinct
<1>9. QED
  BY <1>4, <1>8 DEF Accepting, OrderedMarking

LEMMA FiringIsAccepted ==
  ASSUME ComputedHasItsType, Accepting(marking),
         NEW t \in Transition, NEW attempt, Completes(t, attempt)
  PROVE  Accepting(marking')
<1>1. marking \in OrderedMarking
  BY DEF Accepting
<1>2. PICK b \in SelectBinding(t, marking, attempt), out \in Outputs[t] :
        /\ ~BreaksContract(t, out, b.tokens)
        /\ marking' = ApplyDeposit(ConsumeTokens(marking, b.consumed),
                                   Deposited(t, out, b.tokens))
  BY DEF Completes
<1>3. b.tokens \in OrderedMarking /\ b.consumed \in OrderedMarking
  BY <1>1, SelectedIsViable
<1> DEFINE d == Deposited(t, out, b.tokens)
           left(p) == RemoveEach(marking[p], b.consumed[p])
<1>4. Accepting(d)
  BY <1>2, <1>3, DepositIsAccepted
<1> HIDE DEF d
<1>5. marking' = [p \in Place |-> left(p) \o d[p]]
  BY <1>2 DEF ApplyDeposit, ConsumeTokens, d
<1>6. ASSUME NEW p \in Place
      PROVE  left(p) \o d[p] \in Seq(Token) /\ Elements(left(p) \o d[p]) \subseteq Accepts[p]
  <2>1. marking[p] \in Seq(Token) /\ b.consumed[p] \in Seq(Token) /\ d[p] \in Seq(Token)
    BY <1>1, <1>3, <1>4 DEF OrderedMarking, Accepting
  <2>2. Elements(marking[p]) \subseteq Accepts[p] /\ Elements(d[p]) \subseteq Accepts[p]
    BY <1>4 DEF Accepting
  <2>3. left(p) \in Seq(Token) /\ Elements(left(p)) \subseteq Elements(marking[p])
    BY <2>1, RemoveEachCounts
  <2> HIDE DEF left
  <2>4. Elements(left(p) \o d[p]) = Elements(left(p)) \cup Elements(d[p])
    BY <2>1, <2>3, ConcatDistinct
  <2>5. QED
    BY <2>1, <2>2, <2>3, <2>4
<1> HIDE DEF left
<1>7. QED
  BY <1>5, <1>6 DEF Accepting, OrderedMarking

(* The tokens an arrival puts into a place, as placed.                     *)
LEMMA ArrivingTokens ==
  ASSUME NEW a \in Arrivals, NEW p \in Place
  PROVE  LET c == {k \in DOMAIN a.placements : a.placements[k].place = p}
             new == Subsequence(a.placements, c)
             tokens == [k \in DOMAIN new |-> new[k].token]
         IN  /\ new \in Seq(Placement) /\ tokens \in Seq(Token)
             /\ new = <<>> <=> c = {}
             /\ Valid(a) => Elements(tokens) \subseteq Accepts[p]
<1> DEFINE c == {k \in DOMAIN a.placements : a.placements[k].place = p}
           new == Subsequence(a.placements, c)
           tokens == [k \in DOMAIN new |-> new[k].token]
<1>1. a.placements \in Seq(Placement)
  BY EngineAssumption
<1>2. c \in SUBSET DOMAIN a.placements /\ \A k \in c : a.placements[k].place = p
  OBVIOUS
<1> HIDE DEF c
<1>3. /\ IsFiniteSet(c) /\ Cardinality(c) \in Nat /\ new \in Seq(Placement)
      /\ Len(new) = Cardinality(c)
      /\ \A n \in 1..Cardinality(c) : \E i \in c : new[n] = a.placements[i]
  BY <1>1, <1>2, SubsequenceAt
<1> HIDE DEF new
<1>4. DOMAIN new = 1..Len(new) /\ Len(new) \in Nat
  BY <1>3
<1>5. \A n \in DOMAIN new : new[n].token \in Token
  <2>1. \A x \in Placement : x.token \in Token
    BY DEF Placement
  <2>2. \A n \in DOMAIN new : new[n] \in Placement
    BY <1>3
  <2>3. QED
    BY <2>1, <2>2
<1>6. tokens \in [1..Len(new) -> Token] /\ \A n \in DOMAIN new : tokens[n] = new[n].token
  BY <1>4, <1>5
<1>7. \A x \in Elements(tokens) : \E n \in DOMAIN new : x = new[n].token
  BY <1>4, <1>6 DEF Elements
<1> HIDE DEF tokens
<1>8. tokens \in Seq(Token)
  BY <1>4, <1>6
<1>9. new = <<>> <=> c = {}
  BY <1>3, <1>4, FS_EmptySet
<1>10. Valid(a) => Elements(tokens) \subseteq Accepts[p]
  <2>1. SUFFICES ASSUME Valid(a), NEW x \in Elements(tokens) PROVE x \in Accepts[p]
    OBVIOUS
  <2>2. PICK n \in DOMAIN new : x = new[n].token
    BY <1>7
  <2>3. PICK i \in c : new[n] = a.placements[i]
    BY <1>3, <1>4
  <2>4. QED
    BY <1>2, <2>1, <2>2, <2>3 DEF Valid
<1>11. QED
  BY <1>3, <1>8, <1>9, <1>10 DEF c, new, tokens

LEMMA InjectionIsAccepted ==
  ASSUME NEW m, NEW a \in Arrivals, Accepting(m), Valid(a)
  PROVE  Accepting(Injected(m, a))
<1> DEFINE tokens(p) ==
             LET new == Subsequence(a.placements,
                                    {k \in DOMAIN a.placements : a.placements[k].place = p})
             IN  [k \in DOMAIN new |-> new[k].token]
<1>1. \A p \in Place : tokens(p) \in Seq(Token) /\ Elements(tokens(p)) \subseteq Accepts[p]
  BY ArrivingTokens
<1>2. \A p \in Place : Injected(m, a)[p] = tokens(p) \/ Injected(m, a)[p] = m[p] \o tokens(p)
  BY DEF Injected
<1>3. Injected(m, a) = [p \in Place |-> Injected(m, a)[p]]
  BY DEF Injected
<1> HIDE DEF tokens
<1>4. ASSUME NEW p \in Place
      PROVE  Injected(m, a)[p] \in Seq(Token) /\ Elements(Injected(m, a)[p]) \subseteq Accepts[p]
  <2>1. m[p] \in Seq(Token) /\ Elements(m[p]) \subseteq Accepts[p]
    BY DEF Accepting, OrderedMarking
  <2>2. m[p] \o tokens(p) \in Seq(Token)
        /\ Elements(m[p] \o tokens(p)) = Elements(m[p]) \cup Elements(tokens(p))
    BY <1>1, <2>1, ConcatDistinct
  <2>3. QED
    BY <1>1, <1>2, <2>1, <2>2
<1>5. QED
  BY <1>3, <1>4 DEF Accepting, OrderedMarking

LEMMA NextAccepting ==
  ASSUME ComputedHasItsType
  PROVE  Accepting(marking) /\ [Next]_vars => Accepting(marking)'
<1> SUFFICES ASSUME Accepting(marking), [Next]_vars PROVE Accepting(marking')
  BY DEF Accepting
<1>1. CASE UNCHANGED marking
  BY <1>1
<1>2. CASE RunFires
  <2>1. Choice(Selectable) \in Transition
    BY <1>2, ChosenHasBinding DEF RunFires
  <2>2. \/ Completes(Choice(Selectable), steps)
        \/ UNCHANGED marking
    BY <1>2 DEF RunFires, Fails, Drops, Raises
  <2>3. QED
    BY <1>1, <2>1, <2>2, FiringIsAccepted
<1>3. ASSUME NEW t \in Transition \cup Misnamed, CallFire(t)
      PROVE  Accepting(marking')
  <2>1. (t \in Transition /\ Completes(t, 0)) \/ UNCHANGED marking
    BY <1>3 DEF CallFire, RequireTransition, Fails, Drops, Raises
  <2>2. QED
    BY <1>1, <2>1, FiringIsAccepted
<1>4. ASSUME NEW a \in Arrivals, CallInject(a) \/ CallTick(a)
      PROVE  Accepting(marking')
  <2>1. (Valid(a) /\ marking' = Injected(marking, a)) \/ UNCHANGED marking
    BY <1>4 DEF CallInject, CallTick, Injects
  <2>2. QED
    BY <1>1, <2>1, InjectionIsAccepted
<1>5. QED
  BY <1>1, <1>2, <1>3, <1>4 DEF Next, vars, RunReturns, CallRun

(* Tokens get into places by firings, by literal and computed fallbacks    *)
(* and by injections, each with its own check, the refused and the failing *)
(* ones included: no place ever holds a token of a type it does not        *)
(* accept, whatever the handlers return.                                   *)
THEOREM OnlyAcceptedEnter ==
  ASSUME ComputedHasItsType
  PROVE  Spec => []OnlyAcceptedTokens
<1>1. Init => Accepting(marking)
  BY EngineAssumption DEF Init, Accepting, Elements
<1>2. Accepting(marking) => OnlyAcceptedTokens
  BY DEF Accepting, OnlyAcceptedTokens, Elements
<1>3. Accepting(marking) /\ [Next]_vars => Accepting(marking)'
  BY NextAccepting
<1>4. QED
  BY <1>1, <1>2, <1>3, PTL DEF Spec

-----------------------------------------------------------------------------
(* The engine and the net of whole firings.                                *)

(* Bindings lists what the search may find, and Deposits what a deposit    *)
(* that keeps the contract may be.                                         *)
NetListsItsFirings ==
  \A t \in Transition :
    /\ \A m \in OrderedMarking : \A c \in Product(t, m) :
         \E g \in Bindings[t] : g.take = BagOf(Consumed(t, c, m))
    /\ \A out \in Outputs[t] : \A bound \in OrderedMarking :
         ~BreaksContract(t, out, bound) => BagOf(Deposited(t, out, bound)) \in Deposits[t]

LEMMA FiringIsAtomic ==
  ASSUME ComputedHasItsType, NetListsItsFirings, Accepting(marking),
         NEW t \in Transition, NEW attempt, Completes(t, attempt)
  PROVE  Atomic!Fire(t)
<1>1. marking \in OrderedMarking
  BY DEF Accepting
<1>2. PICK b \in SelectBinding(t, marking, attempt), out \in Outputs[t] :
        /\ ~BreaksContract(t, out, b.tokens)
        /\ marking' = ApplyDeposit(ConsumeTokens(marking, b.consumed),
                                   Deposited(t, out, b.tokens))
  BY DEF Completes
<1>3. /\ b.tokens \in OrderedMarking /\ b.consumed \in OrderedMarking
      /\ IsSubmultiset(b.tokens, marking)
  BY <1>1, SelectedIsViable
<1>4. PICK c \in Viable(t, marking) : /\ b.tokens = Bound(t, c, marking)
                                      /\ b.consumed = Consumed(t, c, marking)
  BY <1>1, SelectedIsViable
<1>5. c \in Product(t, marking)
  BY DEF Viable
<1>6. PICK g \in Bindings[t] : g.take = BagOf(b.consumed)
  BY <1>1, <1>4, <1>5 DEF NetListsItsFirings
<1> DEFINE d == Deposited(t, out, b.tokens)
           left(p) == RemoveEach(marking[p], b.consumed[p])
<1>7. Accepting(d) /\ BagOf(d) \in Deposits[t]
  BY <1>2, <1>3, DepositIsAccepted DEF NetListsItsFirings
<1> HIDE DEF d
<1>8. marking' = [p \in Place |-> left(p) \o d[p]]
  BY <1>2 DEF ApplyDeposit, ConsumeTokens, d
<1>9. ASSUME NEW p \in Place, NEW v \in Token
      PROVE  /\ CountOf(b.consumed[p], v) <= CountOf(marking[p], v)
             /\ CountOf(left(p) \o d[p], v) =
                  (CountOf(marking[p], v) - CountOf(b.consumed[p], v)) + CountOf(d[p], v)
  <2>1. marking[p] \in Seq(Token) /\ b.consumed[p] \in Seq(Token)
        /\ b.tokens[p] \in Seq(Token) /\ d[p] \in Seq(Token)
    BY <1>1, <1>3, <1>7 DEF OrderedMarking, Accepting
  <2>2. CountOf(b.consumed[p], v) <= CountOf(b.tokens[p], v)
    BY <1>1, <1>4, <1>5, ConsumedIsBound
  <2>3. CountOf(b.tokens[p], v) <= CountOf(marking[p], v)
    BY <1>3 DEF IsSubmultiset
  <2>4. CountOf(b.consumed[p], v) \in Nat /\ CountOf(b.tokens[p], v) \in Nat
        /\ CountOf(marking[p], v) \in Nat
    BY <2>1, CountType
  <2>5. CountOf(b.consumed[p], v) <= CountOf(marking[p], v)
    BY <2>2, <2>3, <2>4
  <2>6. /\ left(p) \in Seq(Token)
        /\ CountOf(left(p), v) = CountOf(marking[p], v) - CountOf(b.consumed[p], v)
    BY <2>1, <2>5, RemoveEachCounts
  <2> HIDE DEF left
  <2>7. CountOf(left(p) \o d[p], v) = CountOf(left(p), v) + CountOf(d[p], v)
    BY <2>1, <2>6, CountConcat
  <2>8. QED
    BY <2>5, <2>6, <2>7
<1> HIDE DEF left
<1>10. \A p \in Place, v \in Token : g.take[p][v] <= BagOf(marking)[p][v]
  BY <1>6, <1>9 DEF BagOf
<1>11. BagOf(marking') = Add(Remove(BagOf(marking), g.take), BagOf(d))
  <2>1. \A p \in Place, v \in Token :
          BagOf(marking')[p][v] = Add(Remove(BagOf(marking), g.take), BagOf(d))[p][v]
    BY <1>6, <1>8, <1>9 DEF BagOf, Add, Remove
  <2>2. BagOf(marking') = [p \in Place |-> [v \in Token |-> BagOf(marking')[p][v]]]
    BY DEF BagOf
  <2>3. Add(Remove(BagOf(marking), g.take), BagOf(d)) =
          [p \in Place |-> [v \in Token |->
             Add(Remove(BagOf(marking), g.take), BagOf(d))[p][v]]]
    BY DEF Add
  <2>4. QED
    BY <2>1, <2>2, <2>3
<1>12. QED
  BY <1>6, <1>7, <1>10, <1>11 DEF Atomic!Fire, Atomic!Add, Atomic!Remove, Add, Remove

LEMMA ArrivalIsAtomic ==
  ASSUME NEW a \in Arrivals, marking \in OrderedMarking, marking' = Injected(marking, a)
  PROVE  Atomic!Arrive(BagArrival(a))
<1> DEFINE c(p) == {k \in DOMAIN a.placements : a.placements[k].place = p}
           new(p) == Subsequence(a.placements, c(p))
           tokens(p) == [k \in DOMAIN new(p) |-> new(p)[k].token]
           places == {a.placements[k].place : k \in DOMAIN a.placements}
<1>1. \A p \in Place : tokens(p) \in Seq(Token) /\ (new(p) = <<>> <=> c(p) = {})
  BY ArrivingTokens
<1>2. \A m : Injected(m, a) =
        [p \in Place |-> IF a.replace /\ new(p) # <<>> THEN tokens(p) ELSE m[p] \o tokens(p)]
  BY DEF Injected
<1>3. \A p \in Place : new(p) = <<>> => tokens(p) = <<>>
  <2>1. SUFFICES ASSUME NEW p \in Place, new(p) = <<>> PROVE tokens(p) = <<>>
    OBVIOUS
  <2>2. tokens(p) \in Seq(Token) /\ DOMAIN tokens(p) = DOMAIN new(p)
    BY <1>1
  <2> HIDE DEF new, tokens
  <2>3. DOMAIN tokens(p) = {}
    BY <2>1, <2>2
  <2>4. QED
    BY <2>2, <2>3
<1>4. \A p \in Place : p \in places <=> c(p) # {}
  OBVIOUS
<1>5. BagArrival(a) = [places |-> places, add |-> BagOf(Injected(NoBound, a)),
                       replace |-> a.replace]
  BY DEF BagArrival
<1>6. a.replace \in BOOLEAN
  BY EngineAssumption
<1> HIDE DEF c, new, tokens, places
<1>7. \A p \in Place : \A v \in Token :
        CountOf(Injected(marking, a)[p], v) =
          IF p \notin places THEN CountOf(marking[p], v)
          ELSE CountOf(Injected(NoBound, a)[p], v)
                 + IF a.replace THEN 0 ELSE CountOf(marking[p], v)
  <2> SUFFICES ASSUME NEW p \in Place, NEW v \in Token
               PROVE  CountOf(Injected(marking, a)[p], v) =
                        IF p \notin places THEN CountOf(marking[p], v)
                        ELSE CountOf(Injected(NoBound, a)[p], v)
                               + IF a.replace THEN 0 ELSE CountOf(marking[p], v)
    BY Zenon
  <2>2. marking[p] \in Seq(Token) /\ tokens(p) \in Seq(Token) /\ NoBound[p] = <<>>
    BY <1>1 DEF OrderedMarking, NoBound
  <2>3. <<>> \o tokens(p) = tokens(p) /\ marking[p] \o <<>> = marking[p]
    BY <2>2, ConcatEmptySeq
  <2>4. Injected(NoBound, a)[p] = tokens(p)
    BY <1>2, <2>2, <2>3
  <2>5. CountOf(marking[p], v) \in Nat /\ CountOf(tokens(p), v) \in Nat
    BY <2>2, CountType
  <2>6. CASE p \notin places
    <3>1. new(p) = <<>> /\ tokens(p) = <<>>
      BY <1>1, <1>3, <1>4, <2>6
    <3>2. Injected(marking, a)[p] = marking[p]
      BY <1>2, <2>3, <3>1
    <3>3. QED
      BY <2>6, <3>2
  <2>7. CASE p \in places
    <3>1. new(p) # <<>>
      BY <1>1, <1>4, <2>7
    <3>2. CASE a.replace
      BY <1>2, <2>4, <2>5, <2>7, <3>1, <3>2
    <3>3. CASE ~a.replace
      <4>1. Injected(marking, a)[p] = marking[p] \o tokens(p)
        BY <1>2, <3>3
      <4>2. CountOf(marking[p] \o tokens(p), v) = CountOf(marking[p], v) + CountOf(tokens(p), v)
        BY <2>2, CountConcat
      <4>3. QED
        BY <2>4, <2>5, <2>7, <3>3, <4>1, <4>2
    <3>4. QED
      BY <3>2, <3>3
  <2>8. QED
    BY <2>6, <2>7
<1>8. BagOf(marking') = Atomic!Inject(BagOf(marking), BagArrival(a))
  <2> DEFINE r == Atomic!Inject(BagOf(marking), BagArrival(a))
  <2>1. \A p \in Place : r[p] = [v \in Token |-> CountOf(Injected(marking, a)[p], v)]
    <3>1. SUFFICES ASSUME NEW p \in Place
                   PROVE  r[p] = [v \in Token |-> CountOf(Injected(marking, a)[p], v)]
      OBVIOUS
    <3>2. CASE p \notin places
      <4>1. r[p] = BagOf(marking)[p]
        BY <1>5, <3>2 DEF Atomic!Inject
      <4>2. BagOf(marking)[p] = [v \in Token |-> CountOf(marking[p], v)]
        BY DEF BagOf
      <4>3. \A v \in Token : CountOf(Injected(marking, a)[p], v) = CountOf(marking[p], v)
        BY <1>7, <3>2
      <4>4. QED
        BY <4>1, <4>2, <4>3
    <3>3. CASE p \in places
      <4>1. r[p] = [v \in Token |-> BagOf(Injected(NoBound, a))[p][v]
                                      + IF a.replace THEN 0 ELSE BagOf(marking)[p][v]]
        BY <1>5, <3>3 DEF Atomic!Inject
      <4>2. \A v \in Token :
              /\ BagOf(Injected(NoBound, a))[p][v] = CountOf(Injected(NoBound, a)[p], v)
              /\ BagOf(marking)[p][v] = CountOf(marking[p], v)
        BY DEF BagOf
      <4>3. QED
        BY <1>7, <3>3, <4>1, <4>2
    <3>4. QED
      BY <3>2, <3>3
  <2>2. r = [p \in Place |-> r[p]]
    BY DEF Atomic!Inject
  <2> HIDE DEF r
  <2>3. BagOf(marking') = [p \in Place |-> [v \in Token |-> CountOf(Injected(marking, a)[p], v)]]
    BY DEF BagOf
  <2>4. BagOf(marking') = r
    BY <2>1, <2>2, <2>3
  <2>5. QED
    BY <2>4 DEF r
<1>9. QED
  BY <1>8 DEF Atomic!Arrive

LEMMA StepIsAtomic ==
  ASSUME ComputedHasItsType, NetListsItsFirings
  PROVE  Accepting(marking) /\ [Next]_vars => [Atomic!Next]_(BagOf(marking))
<1> SUFFICES ASSUME Accepting(marking), [Next]_vars PROVE [Atomic!Next]_(BagOf(marking))
  OBVIOUS
<1>1. CASE UNCHANGED marking
  BY <1>1
<1>2. CASE RunFires
  <2>1. Choice(Selectable) \in Transition
    BY <1>2, ChosenHasBinding DEF RunFires
  <2>2. Completes(Choice(Selectable), steps) \/ UNCHANGED marking
    BY <1>2 DEF RunFires, Fails, Drops, Raises
  <2>3. QED
    BY <1>1, <2>1, <2>2, FiringIsAtomic DEF Atomic!Next
<1>3. ASSUME NEW t \in Transition \cup Misnamed, CallFire(t)
      PROVE  [Atomic!Next]_(BagOf(marking))
  <2>1. (t \in Transition /\ Completes(t, 0)) \/ UNCHANGED marking
    BY <1>3 DEF CallFire, RequireTransition, Fails, Drops, Raises
  <2>2. QED
    BY <1>1, <2>1, FiringIsAtomic DEF Atomic!Next
<1>4. ASSUME NEW a \in Arrivals, CallInject(a) \/ CallTick(a)
      PROVE  [Atomic!Next]_(BagOf(marking))
  <2>1. (Valid(a) /\ marking' = Injected(marking, a)) \/ UNCHANGED marking
    BY <1>4 DEF CallInject, CallTick, Injects
  <2>2. CASE Valid(a) /\ marking' = Injected(marking, a)
    <3>1. Atomic!Arrive(BagArrival(a))
      BY <2>2, ArrivalIsAtomic DEF Accepting
    <3>2. BagArrival(a) \in {BagArrival(x) : x \in {y \in Arrivals : Valid(y)}}
      BY <2>2
    <3>3. QED
      BY <3>1, <3>2 DEF Atomic!Next
  <2>3. QED
    BY <1>1, <2>1, <2>2
<1>5. QED
  BY <1>1, <1>2, <1>3, <1>4 DEF Next, vars, RunReturns, CallRun

(* In whatever order the search walks and the removal goes, a call of the  *)
(* engine changes the marking by whole firings, of bindings the arcs       *)
(* admit and the marking holds, and by whole arrivals: the engine          *)
(* implements the net that Runtime and its log implement.                  *)
THEOREM EngineIsAtomic ==
  ASSUME ComputedHasItsType, NetListsItsFirings
  PROVE  Spec => ImplementsAtomicNet
<1>1. Init => Accepting(marking) /\ Atomic!Init
  BY EngineAssumption DEF Init, Accepting, Elements, Atomic!Init
<1>2. Accepting(marking) /\ [Next]_vars => Accepting(marking)'
  BY NextAccepting
<1>3. Accepting(marking) /\ [Next]_vars => [Atomic!Next]_(BagOf(marking))
  BY StepIsAtomic
<1>4. QED
  BY <1>1, <1>2, <1>3, PTL DEF Spec, Atomic!Spec, ImplementsAtomicNet

-----------------------------------------------------------------------------
(* Choices that use a position twice.                                      *)

LEMMA SubsequenceCounts ==
  ASSUME NEW S, NEW s \in Seq(S), NEW c \in SUBSET DOMAIN s, NEW v
  PROVE  CountOf(Subsequence(s, c), v) = Cardinality({i \in c : s[i] = v})
<1> DEFINE u == Subsequence(s, c)
           A == {i \in c : s[i] = v}
           B == {n \in DOMAIN u : u[n] = v}
           f == [i \in A |-> Rank(c, i)]
<1>1. /\ c \in SUBSET Nat /\ IsFiniteSet(c) /\ Cardinality(c) \in Nat
      /\ u \in Seq(S) /\ Len(u) = Cardinality(c)
      /\ \A i \in c : Rank(c, i) \in 1..Cardinality(c) /\ u[Rank(c, i)] = s[i]
      /\ \A n \in 1..Cardinality(c) : \E i \in c : Rank(c, i) = n /\ u[n] = s[i]
  BY SubsequenceAt
<1> HIDE DEF u
<1>2. DOMAIN u = 1..Cardinality(c)
  BY <1>1
<1>3. \A i \in A, j \in A : f[i] = f[j] => i = j
  BY <1>1, RankIsOnto
<1>4. \A i \in A : Rank(c, i) \in B
  BY <1>1, <1>2
<1>5. \A n \in B : \E i \in A : Rank(c, i) = n
  BY <1>1, <1>2
<1>6. IsFiniteSet(A)
  BY <1>1, FS_Subset
<1> HIDE DEF A, B
<1>7. f \in [A -> B] /\ \A n \in B : \E i \in A : f[i] = n
  BY <1>4, <1>5
<1> HIDE DEF f
<1>8. f \in Bijection(A, B)
  BY <1>3, <1>7 DEF Bijection, Injection, Surjection, IsInjective
<1>9. Cardinality(A) = Cardinality(B)
  BY <1>6, <1>8, FS_Bijection DEF ExistsBijection
<1>10. QED
  BY <1>9 DEF CountOf, A, B, u

LEMMA TakenIs ==
  ASSUME NEW t \in Transition, NEW m \in OrderedMarking, NEW c \in Product(t, m),
         NEW k \in DOMAIN BindingArcs[t]
  PROVE  LET p == BindingArcs[t][k].place
         IN  /\ p \in Place /\ m[p] \in Seq(Token)
             /\ c[k] \in SUBSET DOMAIN m[p] /\ c[k] \in SUBSET Nat
             /\ Cardinality(c[k]) = BindingArcs[t][k].weight
             /\ Subsequence(m[p], c[k]) \in Seq(Token)
<1> DEFINE p == BindingArcs[t][k].place
<1>1. p \in Place /\ m[p] \in Seq(Token)
  BY ArcsAre DEF OrderedMarking
<1>2. c[k] \in ArcCandidates(BindingArcs[t][k], m)
  BY DEF Product
<1>3. /\ c[k] \in SUBSET DOMAIN m[p] /\ c[k] \in SUBSET Nat
      /\ Cardinality(c[k]) = BindingArcs[t][k].weight
  BY <1>1, <1>2, CandidatesAre
<1>4. Subsequence(m[p], c[k]) \in Seq(Token)
  BY <1>1, <1>3, SubsequenceAt
<1>5. QED
  BY <1>1, <1>3, <1>4

(* What a choice binds, arc by arc.                                        *)
LEMMA BoundIsCollected ==
  ASSUME NEW t \in Transition, NEW m \in OrderedMarking, NEW c \in Product(t, m)
  PROVE  \E f \in [0..Len(BindingArcs[t]) -> OrderedMarking] :
           /\ Bound(t, c, m) = f[Len(BindingArcs[t])]
           /\ f[0] = NoBound
           /\ \A k \in 1..Len(BindingArcs[t]) : \A p \in Place :
                f[k][p] = IF p = BindingArcs[t][k].place
                          THEN f[k - 1][p] \o Subsequence(m[p], c[k])
                          ELSE f[k - 1][p]
<1> DEFINE arcs == BindingArcs[t]
           n == Len(arcs)
           taken(k, p) == Subsequence(m[p], c[k])
<1>1. PICK f \in [0..n -> OrderedMarking] :
        /\ TokensOf(t, c, m, {"consume", "read"}) = f[n]
        /\ f[0] = NoBound
        /\ \A k \in 1..n : \A p \in Place :
             f[k][p] = IF arcs[k].mode \in {"consume", "read"} /\ p = arcs[k].place
                       THEN f[k - 1][p] \o taken(k, p) ELSE f[k - 1][p]
  BY TokensAreCollected
<1>2. \A k \in 1..n : arcs[k].mode \in {"consume", "read"}
  BY ArcsAre
<1> HIDE DEF n, arcs, taken
<1>3. \A k \in 1..n : \A p \in Place :
        f[k][p] = IF p = arcs[k].place THEN f[k - 1][p] \o taken(k, p) ELSE f[k - 1][p]
  BY <1>1, <1>2
<1>4. QED
  BY <1>1, <1>3 DEF Bound, n, arcs, taken

(* A binding is made of tokens, not of positions.                          *)
LEMMA BoundFollowsTokens ==
  ASSUME NEW t \in Transition, NEW m \in OrderedMarking,
         NEW c \in Product(t, m), NEW d \in Product(t, m),
         \A k \in DOMAIN BindingArcs[t] :
           Subsequence(m[BindingArcs[t][k].place], c[k])
             = Subsequence(m[BindingArcs[t][k].place], d[k])
  PROVE  Bound(t, c, m) = Bound(t, d, m)
<1> DEFINE arcs == BindingArcs[t]
           n == Len(arcs)
           taken(k, p) == Subsequence(m[p], c[k])
           other(k, p) == Subsequence(m[p], d[k])
<1>1. n \in Nat /\ DOMAIN arcs = 1..n
  BY ArcsAre
<1>2. PICK f \in [0..n -> OrderedMarking] :
        /\ Bound(t, c, m) = f[n]
        /\ f[0] = NoBound
        /\ \A k \in 1..n : \A p \in Place :
             f[k][p] = IF p = arcs[k].place THEN f[k - 1][p] \o taken(k, p) ELSE f[k - 1][p]
  BY BoundIsCollected
<1>3. PICK g \in [0..n -> OrderedMarking] :
        /\ Bound(t, d, m) = g[n]
        /\ g[0] = NoBound
        /\ \A k \in 1..n : \A p \in Place :
             g[k][p] = IF p = arcs[k].place THEN g[k - 1][p] \o other(k, p) ELSE g[k - 1][p]
  BY BoundIsCollected
<1>4. \A k \in 1..n : taken(k, arcs[k].place) = other(k, arcs[k].place)
  BY <1>1
<1> HIDE DEF n, arcs, taken, other
<1> DEFINE bad == {k \in 0..n : f[k] # g[k]}
<1>5. bad = {}
  <2>1. SUFFICES ASSUME bad # {} PROVE FALSE
    OBVIOUS
  <2>2. PICK k \in bad : \A l \in bad : k <= l
    <3>1. bad \in SUBSET Nat
      BY <1>1
    <3> HIDE DEF bad
    <3>2. QED
      BY <2>1, <3>1, LeastNatural
  <2>3. k \in 0..n /\ f[k] # g[k]
    OBVIOUS
  <2>4. k \in 1..n /\ k - 1 \in 0..n /\ f[k - 1] = g[k - 1]
    BY <1>1, <1>2, <1>3, <2>2, <2>3
  <2> HIDE DEF bad
  <2>5. \A p \in Place : f[k][p] = g[k][p]
    BY <1>2, <1>3, <1>4, <2>4
  <2>6. f[k] \in OrderedMarking /\ g[k] \in OrderedMarking
    BY <2>3
  <2>7. f[k] = [p \in Place |-> f[k][p]] /\ g[k] = [p \in Place |-> g[k][p]]
    BY <2>6 DEF OrderedMarking
  <2>8. QED
    BY <2>3, <2>5, <2>7
<1>6. f[n] = g[n]
  BY <1>1, <1>5
<1>7. QED
  BY <1>2, <1>3, <1>6

(* Arcs of one place take different positions.                             *)
IsSpread(t, c) ==
  \A j, k \in DOMAIN BindingArcs[t] :
    j # k /\ BindingArcs[t][j].place = BindingArcs[t][k].place => c[j] \cap c[k] = {}

(* The positions of a place with token v that the first k arcs take.       *)
UsedTo(t, c, m, p, v, k) ==
  {i \in DOMAIN m[p] :
     m[p][i] = v /\ \E j \in 1..k : BindingArcs[t][j].place = p /\ i \in c[j]}

LEMMA SpreadIsSubmultiset ==
  ASSUME NEW t \in Transition, NEW m \in OrderedMarking, NEW c \in Product(t, m),
         IsSpread(t, c)
  PROVE  IsSubmultiset(Bound(t, c, m), m)
<1> DEFINE arcs == BindingArcs[t]
           n == Len(arcs)
           taken(k, p) == Subsequence(m[p], c[k])
<1>1. n \in Nat /\ DOMAIN arcs = 1..n
  BY ArcsAre
<1>2. PICK f \in [0..n -> OrderedMarking] :
        /\ Bound(t, c, m) = f[n]
        /\ f[0] = NoBound
        /\ \A k \in 1..n : \A p \in Place :
             f[k][p] = IF p = arcs[k].place THEN f[k - 1][p] \o taken(k, p) ELSE f[k - 1][p]
  BY BoundIsCollected
<1>3. SUFFICES ASSUME NEW p \in Place, NEW v \in Token
               PROVE  CountOf(Bound(t, c, m)[p], v) <= CountOf(m[p], v)
  BY DEF IsSubmultiset
<1> DEFINE used(k) == UsedTo(t, c, m, p, v, k)
           all == {i \in DOMAIN m[p] : m[p][i] = v}
<1>4. m[p] \in Seq(Token) /\ IsFiniteSet(all) /\ CountOf(m[p], v) = Cardinality(all)
  <2>1. m[p] \in Seq(Token)
    BY DEF OrderedMarking
  <2>2. QED
    BY <2>1, CountType DEF CountOf
<1>5. \A k \in 0..n : /\ used(k) \in SUBSET all /\ IsFiniteSet(used(k))
                      /\ Cardinality(used(k)) \in Nat /\ Cardinality(used(k)) <= Cardinality(all)
  <2>1. \A k \in 0..n : used(k) \in SUBSET all
    BY DEF UsedTo
  <2> HIDE DEF used, all
  <2>2. QED
    BY <1>4, <2>1, FS_Subset, FS_CardinalityType
<1>6. \A k \in 1..n : p # arcs[k].place => used(k) = used(k - 1)
  BY <1>1 DEF UsedTo
<1>7. ASSUME NEW k \in 1..n, p = arcs[k].place
      PROVE  /\ taken(k, p) \in Seq(Token)
             /\ Cardinality(used(k)) = Cardinality(used(k - 1)) + CountOf(taken(k, p), v)
  <2> DEFINE new == {i \in c[k] : m[p][i] = v}
  <2>1. /\ taken(k, p) \in Seq(Token) /\ c[k] \in SUBSET DOMAIN m[p]
    BY <1>1, <1>7, TakenIs
  <2>2. CountOf(taken(k, p), v) = Cardinality(new) /\ CountOf(taken(k, p), v) \in Nat
    <3>1. CountOf(Subsequence(m[p], c[k]), v) = Cardinality({i \in c[k] : m[p][i] = v})
      BY <1>4, <2>1, SubsequenceCounts
    <3>2. CountOf(taken(k, p), v) \in Nat
      BY <2>1, CountType
    <3>3. QED
      BY <3>1, <3>2
  <2>3. used(k) = used(k - 1) \cup new
    <3>1. \A i \in used(k) : i \in used(k - 1) \/ i \in new
      BY <1>1 DEF UsedTo
    <3>2. \A i \in used(k - 1) : i \in used(k)
      BY <1>1 DEF UsedTo
    <3>3. \A i \in new : i \in used(k)
      BY <1>1, <1>7, <2>1 DEF UsedTo
    <3>4. QED
      BY <3>1, <3>2, <3>3
  <2>4. used(k - 1) \cap new = {}
    <3>1. \A i \in used(k - 1) : \E j \in 1..(k - 1) : arcs[j].place = p /\ i \in c[j]
      BY DEF UsedTo
    <3>2. \A j \in 1..(k - 1) : j \in DOMAIN arcs /\ k \in DOMAIN arcs /\ j # k
      BY <1>1
    <3>3. \A j \in 1..(k - 1) : arcs[j].place = p => c[j] \cap c[k] = {}
      BY <1>7, <3>2 DEF IsSpread
    <3>4. QED
      BY <3>1, <3>3
  <2>5. IsFiniteSet(new)
    <3>1. new \in SUBSET all
      BY <2>1
    <3>2. QED
      BY <1>4, <3>1, FS_Subset
  <2>6. k - 1 \in 0..n
    BY <1>1
  <2>7. IsFiniteSet(used(k - 1)) /\ Cardinality(used(k - 1)) \in Nat
    BY <1>5, <2>6
  <2> HIDE DEF used, new, taken
  <2>8. Cardinality(used(k)) = Cardinality(used(k - 1)) + Cardinality(new)
    <3>1. Cardinality(used(k - 1) \cup new)
            = Cardinality(used(k - 1)) + Cardinality(new) - Cardinality(used(k - 1) \cap new)
      BY <2>5, <2>7, FS_Union
    <3>2. Cardinality(used(k - 1) \cap new) = 0
      BY <2>4, FS_EmptySet
    <3>3. Cardinality(new) \in Nat
      BY <2>5, FS_CardinalityType
    <3>4. QED
      BY <2>3, <2>7, <3>1, <3>2, <3>3
  <2>9. QED
    BY <2>1, <2>2, <2>8
<1>8. Cardinality(used(0)) = 0
  <2>1. used(0) = {}
    BY DEF UsedTo
  <2>2. QED
    BY <2>1, FS_EmptySet
<1> HIDE DEF n, arcs, taken, used, all
<1> DEFINE bad == {k \in 0..n : CountOf(f[k][p], v) # Cardinality(used(k))}
<1>9. bad = {}
  <2>1. SUFFICES ASSUME bad # {} PROVE FALSE
    OBVIOUS
  <2>2. PICK k \in bad : \A l \in bad : k <= l
    <3>1. bad \in SUBSET Nat
      BY <1>1
    <3> HIDE DEF bad
    <3>2. QED
      BY <2>1, <3>1, LeastNatural
  <2>3. k \in 0..n /\ CountOf(f[k][p], v) # Cardinality(used(k))
    OBVIOUS
  <2>4. k # 0
    <3>1. f[0][p] = <<>> /\ <<>> \in Seq(Token) /\ Elements(<<>>) = {}
      BY <1>2 DEF NoBound, Elements
    <3>2. CountOf(f[0][p], v) = 0
      BY <3>1, CountType
    <3>3. QED
      BY <1>8, <2>3, <3>2
  <2>5. k \in 1..n /\ k - 1 \in 0..n /\ CountOf(f[k - 1][p], v) = Cardinality(used(k - 1))
    BY <1>1, <2>2, <2>3, <2>4
  <2> HIDE DEF bad
  <2>6. CASE p = arcs[k].place
    <3>1. f[k][p] = f[k - 1][p] \o taken(k, p) /\ f[k - 1][p] \in Seq(Token)
      BY <1>2, <2>5, <2>6 DEF OrderedMarking
    <3>2. CountOf(f[k][p], v) = CountOf(f[k - 1][p], v) + CountOf(taken(k, p), v)
      BY <1>7, <2>5, <2>6, <3>1, CountConcat
    <3>3. QED
      BY <1>7, <2>3, <2>5, <2>6, <3>2
  <2>7. CASE p # arcs[k].place
    BY <1>2, <1>6, <2>3, <2>5, <2>7
  <2>8. QED
    BY <2>6, <2>7
<1>10. n \in 0..n /\ CountOf(f[n][p], v) = Cardinality(used(n))
  BY <1>1, <1>9
<1>11. QED
  BY <1>2, <1>4, <1>5, <1>10

LEMMA SubsequenceOne ==
  ASSUME NEW S, NEW s \in Seq(S), NEW c \in SUBSET DOMAIN s, Cardinality(c) = 1
  PROVE  \E x \in c : c = {x} /\ Subsequence(s, c) = <<s[x]>>
<1> DEFINE u == Subsequence(s, c)
           N == Cardinality(c)
<1>1. /\ c \in SUBSET Nat /\ IsFiniteSet(c) /\ N \in Nat /\ u \in Seq(S) /\ Len(u) = N
      /\ \A i \in c : Rank(c, i) \in 1..N /\ u[Rank(c, i)] = s[i]
      /\ \A n \in 1..N : \E i \in c : Rank(c, i) = n /\ u[n] = s[i]
  BY SubsequenceAt
<1> HIDE DEF u
<1>2. PICK x \in c : Rank(c, x) = 1 /\ u[1] = s[x]
  BY <1>1
<1>3. \A i \in c : i = x
  <2>1. \A i \in c : Rank(c, i) = 1
    BY <1>1
  <2>2. QED
    BY <1>1, <1>2, <2>1, RankIsOnto
<1>4. u = <<s[x]>>
  BY <1>1, <1>2
<1>5. QED
  BY <1>3, <1>4 DEF u

(* The positions an arc takes may be exchanged for others that hold the    *)
(* same tokens: where several arcs take one token each from a place, they  *)
(* can be given different positions, the n-th that asks for a token the    *)
(* n-th that holds it.                                                     *)
SharedArcsTakeOne ==
  \A t \in Transition : \A j, k \in DOMAIN BindingArcs[t] :
    j # k /\ BindingArcs[t][j].place = BindingArcs[t][k].place
      => BindingArcs[t][j].weight = 1

LEMMA SpreadExists ==
  ASSUME SharedArcsTakeOne,
         NEW t \in Transition, NEW m \in OrderedMarking, NEW c \in Product(t, m),
         IsSubmultiset(Bound(t, c, m), m)
  PROVE  \E d \in Product(t, m) : IsSpread(t, d) /\ Bound(t, d, m) = Bound(t, c, m)
<1> DEFINE arcs == BindingArcs[t]
           n == Len(arcs)
           taken(k, p) == Subsequence(m[p], c[k])
           place(k) == arcs[k].place
           token(k) == taken(k, place(k))[1]
           shared(k) == \E j \in 1..n : j # k /\ place(j) = place(k)
           same(k) == {i \in DOMAIN m[place(k)] : m[place(k)][i] = token(k)}
<1>1. /\ n \in Nat /\ DOMAIN arcs = 1..n
      /\ \A k \in 1..n : place(k) \in Place /\ m[place(k)] \in Seq(Token)
  BY ArcsAre DEF OrderedMarking
<1>2. PICK f \in [0..n -> OrderedMarking] :
        /\ Bound(t, c, m) = f[n]
        /\ f[0] = NoBound
        /\ \A k \in 1..n : \A p \in Place :
             f[k][p] = IF p = place(k) THEN f[k - 1][p] \o taken(k, p) ELSE f[k - 1][p]
  BY BoundIsCollected
<1>3. \A k \in 1..n : /\ taken(k, place(k)) \in Seq(Token)
                      /\ c[k] \in ArcCandidates(arcs[k], m)
                      /\ c[k] \in SUBSET DOMAIN m[place(k)] /\ Cardinality(c[k]) = arcs[k].weight
  BY <1>1, TakenIs DEF Product
<1> HIDE DEF n, arcs, taken, place, token, same
<1>4. \A k \in 1..n : shared(k) =>
        /\ arcs[k].weight = 1 /\ token(k) \in Token /\ taken(k, place(k)) = <<token(k)>>
        /\ TokenMatches(arcs[k], token(k))
  <2>1. SUFFICES ASSUME NEW k \in 1..n, shared(k)
                 PROVE  /\ arcs[k].weight = 1 /\ token(k) \in Token
                        /\ taken(k, place(k)) = <<token(k)>> /\ TokenMatches(arcs[k], token(k))
    OBVIOUS
  <2>2. arcs[k].weight = 1
    BY <1>1, <2>1 DEF SharedArcsTakeOne, arcs, place
  <2>3. PICK x \in c[k] : taken(k, place(k)) = <<m[place(k)][x]>>
    BY <1>1, <1>3, <2>2, SubsequenceOne DEF taken
  <2>4. token(k) = m[place(k)][x]
    BY <2>3 DEF token
  <2>5. TokenMatches(arcs[k], m[place(k)][x])
    BY <1>3 DEF ArcCandidates, place
  <2>6. x \in DOMAIN m[place(k)] /\ m[place(k)][x] \in Token
    BY <1>1, <1>3
  <2>7. QED
    BY <2>2, <2>3, <2>4, <2>5, <2>6
<1>5. \A k \in 1..n : /\ same(k) \in SUBSET Nat /\ IsFiniteSet(same(k))
                      /\ Cardinality(same(k)) = CountOf(m[place(k)], token(k))
  <2>1. SUFFICES ASSUME NEW k \in 1..n
                 PROVE  /\ same(k) \in SUBSET Nat /\ IsFiniteSet(same(k))
                        /\ Cardinality(same(k)) = CountOf(m[place(k)], token(k))
    OBVIOUS
  <2>2. m[place(k)] \in Seq(Token)
    BY <1>1
  <2>3. \A i \in same(k) : i \in Nat
    BY <2>2 DEF same
  <2>4. IsFiniteSet({i \in DOMAIN m[place(k)] : m[place(k)][i] = token(k)})
    BY <2>2, CountType
  <2>5. QED
    BY <2>3, <2>4 DEF CountOf, same
<1> DEFINE Asked(k, p, v) == CountOf(f[k][p], v)
           rank(k) == Asked(k, place(k), token(k))
<1>6. \A k \in 0..n, p \in Place : \A v : f[k][p] \in Seq(Token) /\ Asked(k, p, v) \in Nat
  <2>1. \A k \in 0..n, p \in Place : f[k][p] \in Seq(Token)
    BY <1>2 DEF OrderedMarking
  <2>2. QED
    BY <2>1, CountType
<1> HIDE DEF Asked
<1>7. \A k \in 1..n, p \in Place : \A v : Asked(k - 1, p, v) <= Asked(k, p, v)
  <2>1. SUFFICES ASSUME NEW k \in 1..n, NEW p \in Place, NEW v
                 PROVE  Asked(k - 1, p, v) <= Asked(k, p, v)
    OBVIOUS
  <2>2. /\ k \in 0..n /\ k - 1 \in 0..n
        /\ f[k - 1][p] \in Seq(Token) /\ Asked(k - 1, p, v) \in Nat
    BY <1>1, <1>6
  <2>3. CASE p = place(k)
    <3>1. f[k][p] = f[k - 1][p] \o taken(k, p) /\ taken(k, p) \in Seq(Token)
      BY <1>2, <1>3, <2>2, <2>3
    <3>2. Asked(k, p, v) = Asked(k - 1, p, v) + CountOf(taken(k, p), v)
      BY <2>2, <3>1, CountConcat DEF Asked
    <3>3. CountOf(taken(k, p), v) \in Nat
      BY <3>1, CountType
    <3>4. QED
      BY <2>2, <3>2, <3>3
  <2>4. CASE p # place(k)
    <3>1. f[k][p] = f[k - 1][p]
      BY <1>2, <2>2, <2>4
    <3>2. Asked(k, p, v) = Asked(k - 1, p, v)
      BY <3>1 DEF Asked
    <3>3. QED
      BY <2>2, <3>2
  <2>5. QED
    BY <2>3, <2>4
<1>8. ASSUME NEW k \in 1..n, shared(k)
      PROVE  rank(k) = Asked(k - 1, place(k), token(k)) + 1
  <2>1. place(k) \in Place /\ k - 1 \in 0..n
    BY <1>1
  <2>2. /\ f[k][place(k)] = f[k - 1][place(k)] \o <<token(k)>>
        /\ <<token(k)>> \in Seq(Token)
    <3>1. token(k) \in Token /\ taken(k, place(k)) = <<token(k)>>
      BY <1>4, <1>8
    <3>2. f[k][place(k)] = f[k - 1][place(k)] \o taken(k, place(k))
      BY <1>2, <2>1
    <3>3. QED
      BY <3>1, <3>2
  <2>3. CountOf(f[k - 1][place(k)] \o <<token(k)>>, token(k))
          = CountOf(f[k - 1][place(k)], token(k)) + CountOf(<<token(k)>>, token(k))
    BY <1>6, <2>1, <2>2, CountConcat
  <2>4. CountOf(<<token(k)>>, token(k)) = 1
    BY CountOne
  <2>5. QED
    BY <2>2, <2>3, <2>4 DEF Asked
<1>9. \A l \in 0..n : \A k \in 0..l, p \in Place : \A v : Asked(k, p, v) <= Asked(l, p, v)
  <2> DEFINE Less(k, l) == \A p \in Place : \A v : Asked(k, p, v) <= Asked(l, p, v)
             bad == {l \in 0..n : \E k \in 0..l : ~Less(k, l)}
  <2>1. SUFFICES bad = {}
    OBVIOUS
  <2>2. SUFFICES ASSUME bad # {} PROVE FALSE
    OBVIOUS
  <2>3. PICK l \in bad : \A k \in bad : l <= k
    <3>1. bad \in SUBSET Nat
      BY <1>1
    <3> HIDE DEF bad
    <3>2. QED
      BY <2>2, <3>1, LeastNatural
  <2>4. PICK k \in 0..l : ~Less(k, l)
    OBVIOUS
  <2>5. k # l
    BY <1>6, <2>3, <2>4
  <2>6. l \in 0..n /\ l \in 1..n /\ l - 1 \in 0..n /\ k \in 0..(l - 1) /\ k \in 0..n
    BY <1>1, <2>3, <2>4, <2>5
  <2>7. l - 1 \notin bad
    BY <2>3, <2>6
  <2>8. Less(k, l - 1)
    BY <2>6, <2>7
  <2>9. \A p \in Place : \A v : Asked(k, p, v) <= Asked(l, p, v)
    <3>1. SUFFICES ASSUME NEW p \in Place, NEW v PROVE Asked(k, p, v) <= Asked(l, p, v)
      OBVIOUS
    <3>2. Asked(k, p, v) <= Asked(l - 1, p, v) /\ Asked(l - 1, p, v) <= Asked(l, p, v)
      BY <1>7, <2>6, <2>8
    <3>3. Asked(k, p, v) \in Nat /\ Asked(l - 1, p, v) \in Nat /\ Asked(l, p, v) \in Nat
      BY <1>6, <2>6
    <3>4. QED
      BY <3>2, <3>3
  <2>10. QED
    BY <2>4, <2>9
<1>10. \A k \in 1..n : shared(k) => rank(k) \in 1..Cardinality(same(k))
  <2>1. SUFFICES ASSUME NEW k \in 1..n, shared(k) PROVE rank(k) \in 1..Cardinality(same(k))
    OBVIOUS
  <2>2. k \in 0..n /\ k - 1 \in 0..n /\ n \in 0..n /\ k \in 0..n /\ place(k) \in Place
    BY <1>1
  <2>3. rank(k) <= Asked(n, place(k), token(k))
    BY <1>9, <2>2
  <2>4. Asked(n, place(k), token(k)) <= Cardinality(same(k))
    <3>1. token(k) \in Token
      BY <1>4, <2>1
    <3>2. CountOf(Bound(t, c, m)[place(k)], token(k)) <= CountOf(m[place(k)], token(k))
      BY <2>2, <3>1 DEF IsSubmultiset
    <3>3. QED
      BY <1>2, <1>5, <3>2 DEF Asked
  <2>5. Asked(k - 1, place(k), token(k)) \in Nat /\ Asked(n, place(k), token(k)) \in Nat
    BY <1>6, <2>2
  <2>6. Cardinality(same(k)) \in Nat
    BY <1>5, FS_CardinalityType
  <2>7. QED
    BY <1>8, <2>1, <2>3, <2>4, <2>5, <2>6
<1> DEFINE position(k) == CHOOSE i \in same(k) : Rank(same(k), i) = rank(k)
<1>11. \A k \in 1..n : shared(k) => position(k) \in same(k) /\ Rank(same(k), position(k)) = rank(k)
  BY <1>5, <1>10, RankIsOnto
<1> HIDE DEF position
<1>12. \A k \in 1..n : shared(k) =>
         /\ position(k) \in DOMAIN m[place(k)]
         /\ m[place(k)][position(k)] = token(k)
  BY <1>11 DEF same
<1> DEFINE d == [k \in 1..n |-> IF shared(k) THEN {position(k)} ELSE c[k]]
<1>13. \A k \in 1..n : /\ shared(k) => d[k] = {position(k)}
                       /\ ~shared(k) => d[k] = c[k]
  OBVIOUS
<1>14. \A k \in 1..n : d[k] \in ArcCandidates(arcs[k], m)
  <2>1. SUFFICES ASSUME NEW k \in 1..n, shared(k) PROVE {position(k)} \in ArcCandidates(arcs[k], m)
    BY <1>3
  <2>2. {position(k)} \in SUBSET DOMAIN m[arcs[k].place]
    BY <1>12, <2>1 DEF place
  <2>3. Cardinality({position(k)}) = arcs[k].weight
    BY <1>4, <2>1, FS_Singleton
  <2>4. TokenMatches(arcs[k], m[arcs[k].place][position(k)])
    BY <1>4, <1>12, <2>1 DEF place
  <2>5. QED
    BY <2>2, <2>3, <2>4 DEF ArcCandidates, kSubset
<1>15. \A k \in 1..n : Subsequence(m[place(k)], c[k]) = Subsequence(m[place(k)], d[k])
  <2>1. SUFFICES ASSUME NEW k \in 1..n, shared(k)
                 PROVE  Subsequence(m[place(k)], c[k]) = Subsequence(m[place(k)], {position(k)})
    BY <1>13
  <2>2. {position(k)} \in SUBSET DOMAIN m[place(k)] /\ Cardinality({position(k)}) = 1
    BY <1>12, <2>1, FS_Singleton
  <2>3. m[place(k)] \in Seq(Token)
    BY <1>1
  <2>4. Subsequence(m[place(k)], {position(k)}) = <<m[place(k)][position(k)]>>
    BY <2>2, <2>3, SubsequenceOne
  <2>5. Subsequence(m[place(k)], c[k]) = <<token(k)>>
    BY <1>4, <2>1 DEF taken
  <2>6. QED
    BY <1>12, <2>1, <2>4, <2>5
<1>16. \A j, k \in 1..n : j < k /\ place(j) = place(k) => position(j) # position(k)
  <2>1. SUFFICES ASSUME NEW j \in 1..n, NEW k \in 1..n, j < k, place(j) = place(k),
                        position(j) = position(k)
                 PROVE  FALSE
    OBVIOUS
  <2>2. shared(j) /\ shared(k)
    BY <2>1
  <2>3. token(j) = token(k)
    BY <1>12, <2>1, <2>2
  <2>4. same(j) = same(k)
    BY <2>1, <2>3 DEF same
  <2>5. rank(j) = rank(k)
    BY <1>11, <2>1, <2>2, <2>4
  <2>6. /\ j \in 0..(k - 1) /\ k - 1 \in 0..n /\ j \in 0..n /\ place(k) \in Place
    BY <1>1, <2>1
  <2>7. rank(j) <= Asked(k - 1, place(k), token(k))
    BY <1>9, <2>1, <2>3, <2>6
  <2>8. Asked(k - 1, place(k), token(k)) \in Nat /\ rank(k) = Asked(k - 1, place(k), token(k)) + 1
    BY <1>6, <1>8, <2>2, <2>6
  <2>9. QED
    BY <2>5, <2>7, <2>8
<1>17. \A j, k \in 1..n : j # k /\ place(j) = place(k) => d[j] \cap d[k] = {}
  <2>1. SUFFICES ASSUME NEW j \in 1..n, NEW k \in 1..n, j # k, place(j) = place(k)
                 PROVE  d[j] \cap d[k] = {}
    OBVIOUS
  <2>2. d[j] = {position(j)} /\ d[k] = {position(k)}
    BY <1>13, <2>1
  <2>3. j < k \/ k < j
    BY <1>1, <2>1
  <2>4. position(j) # position(k)
    BY <1>16, <2>1, <2>3
  <2> HIDE DEF d
  <2>5. QED
    BY <2>2, <2>4
<1>18. d \in Product(t, m)
  <2>1. d \in [1..n -> UNION {ArcCandidates(arcs[k], m) : k \in 1..n}]
    BY <1>14
  <2> HIDE DEF d
  <2>2. QED
    BY <1>1, <1>14, <2>1 DEF Product, arcs
<1> HIDE DEF d, shared
<1>19. IsSpread(t, d)
  BY <1>1, <1>17 DEF IsSpread, arcs, place
<1>20. Bound(t, d, m) = Bound(t, c, m)
  BY <1>1, <1>15, <1>18, BoundFollowsTokens DEF arcs, place
<1>21. QED
  BY <1>18, <1>19, <1>20

(* The declared match of a binding arc is what its type and filter let     *)
(* pass of the tokens its place accepts.                                   *)
MatchesAsDeclared ==
  \A t \in Transition : \A k \in DOMAIN BindingArcs[t] :
    \A v \in Accepts[BindingArcs[t][k].place] :
      v \in BindingArcs[t][k].match <=> TokenMatches(BindingArcs[t][k], v)

(* A guard answers, and does not raise for one binding of an attempt and   *)
(* accept another.                                                         *)
GuardsRaiseAlike ==
  \A t \in Transition, attempt \in Nat : \A b \in OrderedMarking :
    /\ GuardVerdict(t, b, attempt) \in Verdict
    /\ GuardVerdict(t, b, attempt) = "raises" =>
         \A d \in OrderedMarking : GuardVerdict(t, d, attempt) # "true"

LEMMA BindingIsFound ==
  ASSUME MatchesAsDeclared, GuardsRaiseAlike,
         NEW t \in Transition, NEW m, Accepting(m), NEW attempt \in Nat,
         ExistsBinding(t, m, attempt)
  PROVE  SelectBinding(t, m, attempt) # {}
<1> DEFINE arcs == BindingArcs[t]
           Ask(c) == GuardVerdict(t, Bound(t, c, m), attempt)
           open == {c \in Viable(t, m) : Ask(c) # "false"}
<1>1. PICK c : /\ c = [k \in DOMAIN arcs |-> c[k]]
               /\ \A k \in DOMAIN arcs :
                    /\ c[k] \in SUBSET DOMAIN m[arcs[k].place]
                    /\ \A i \in c[k] : m[arcs[k].place][i] \in arcs[k].match
                    /\ Cardinality(c[k]) = arcs[k].weight
               /\ IsSpread(t, c)
               /\ InhibitSatisfied(t, Bound(t, c, m), m)
               /\ TimerSatisfied(t, Bound(t, c, m), m)
               /\ Ask(c) = "true"
  BY DEF ExistsBinding, IsSpread
<1>2. m \in OrderedMarking
  BY DEF Accepting
<1>3. \A k \in DOMAIN arcs : c[k] \in ArcCandidates(arcs[k], m)
  <2>1. SUFFICES ASSUME NEW k \in DOMAIN arcs PROVE c[k] \in ArcCandidates(arcs[k], m)
    OBVIOUS
  <2>2. arcs[k].place \in Place
    BY ArcsAre
  <2>3. \A i \in c[k] : m[arcs[k].place][i] \in Accepts[arcs[k].place]
    BY <1>1, <2>2 DEF Accepting, Elements
  <2>4. \A i \in c[k] : TokenMatches(arcs[k], m[arcs[k].place][i])
    BY <1>1, <2>3 DEF MatchesAsDeclared
  <2>5. QED
    BY <1>1, <2>4 DEF ArcCandidates, kSubset
<1>4. c \in Product(t, m)
  <2>1. c \in [DOMAIN arcs -> UNION {ArcCandidates(arcs[k], m) : k \in DOMAIN arcs}]
    BY <1>1, <1>3
  <2>2. QED
    BY <1>3, <2>1 DEF Product
<1>5. c \in open
  <2>1. IsSubmultiset(Bound(t, c, m), m)
    BY <1>1, <1>2, <1>4, SpreadIsSubmultiset
  <2>2. QED
    BY <1>1, <1>4, <2>1 DEF Viable
<1>6. open \in SUBSET Product(t, m)
  BY DEF Viable
<1>7. \A d \in Product(t, m) : Bound(t, d, m) \in OrderedMarking
  BY <1>2, TokensAreCollected DEF Bound
<1>8. Ask(First(open)) # "raises"
  <2>1. First(open) \in Product(t, m)
    <3> HIDE DEF open
    <3>1. QED
      BY <1>2, <1>5, <1>6, FirstIsFirst
  <2>2. Bound(t, First(open), m) \in OrderedMarking /\ Bound(t, c, m) \in OrderedMarking
    BY <1>4, <1>7, <2>1
  <2> HIDE DEF open
  <2>3. QED
    BY <1>1, <2>2 DEF GuardsRaiseAlike
<1>9. QED
  BY <1>5, <1>8 DEF SelectBinding

LEMMA FoundIsBinding ==
  ASSUME SharedArcsTakeOne, MatchesAsDeclared, GuardsRaiseAlike,
         NEW t \in Transition, NEW m, Accepting(m), NEW attempt \in Nat,
         SelectBinding(t, m, attempt) # {}
  PROVE  ExistsBinding(t, m, attempt)
<1> DEFINE arcs == BindingArcs[t]
           Ask(c) == GuardVerdict(t, Bound(t, c, m), attempt)
           open == {c \in Viable(t, m) : Ask(c) # "false"}
<1>1. m \in OrderedMarking
  BY DEF Accepting
<1>2. open # {} /\ Ask(First(open)) # "raises"
  BY DEF SelectBinding
<1>3. open \in SUBSET Product(t, m)
  BY DEF Viable
<1>4. First(open) \in open
  <2> HIDE DEF open
  <2>1. QED
    BY <1>1, <1>2, <1>3, FirstIsFirst
<1>5. PICK c \in Product(t, m) :
        /\ IsSubmultiset(Bound(t, c, m), m)
        /\ InhibitSatisfied(t, Bound(t, c, m), m)
        /\ TimerSatisfied(t, Bound(t, c, m), m)
        /\ Ask(c) # "false" /\ Ask(c) # "raises"
  BY <1>2, <1>4 DEF Viable
<1>6. Ask(c) = "true"
  <2>1. Bound(t, c, m) \in OrderedMarking
    BY <1>1, TokensAreCollected DEF Bound
  <2>2. QED
    BY <1>5, <2>1 DEF GuardsRaiseAlike, Verdict
<1>7. PICK d \in Product(t, m) : IsSpread(t, d) /\ Bound(t, d, m) = Bound(t, c, m)
  BY <1>1, <1>5, SpreadExists
<1> DEFINE positions == [k \in DOMAIN arcs |->
                           {i \in DOMAIN m[arcs[k].place] : m[arcs[k].place][i] \in arcs[k].match}]
<1>8. \A k \in DOMAIN arcs : d[k] \subseteq positions[k] /\ Cardinality(d[k]) = arcs[k].weight
  <2>1. SUFFICES ASSUME NEW k \in DOMAIN arcs
                 PROVE  d[k] \subseteq positions[k] /\ Cardinality(d[k]) = arcs[k].weight
    OBVIOUS
  <2>2. d[k] \in ArcCandidates(arcs[k], m) /\ arcs[k].place \in Place
    BY ArcsAre DEF Product
  <2>3. /\ d[k] \in SUBSET DOMAIN m[arcs[k].place] /\ Cardinality(d[k]) = arcs[k].weight
        /\ \A i \in d[k] : TokenMatches(arcs[k], m[arcs[k].place][i])
    BY <2>2 DEF ArcCandidates, kSubset
  <2>4. \A i \in d[k] : m[arcs[k].place][i] \in Accepts[arcs[k].place]
    BY <2>2, <2>3 DEF Accepting, Elements
  <2>5. \A i \in d[k] : m[arcs[k].place][i] \in arcs[k].match
    BY <2>3, <2>4 DEF MatchesAsDeclared
  <2>6. QED
    BY <2>3, <2>5
<1>9. d \in [DOMAIN arcs -> UNION {SUBSET positions[k] : k \in DOMAIN arcs}]
  <2>1. d = [k \in DOMAIN arcs |-> d[k]]
    BY DEF Product
  <2> HIDE DEF positions, arcs
  <2>2. \A k \in DOMAIN arcs : d[k] \in UNION {SUBSET positions[l] : l \in DOMAIN arcs}
    BY <1>8
  <2>3. QED
    BY <2>1, <2>2
<1>10. /\ InhibitSatisfied(t, Bound(t, d, m), m) /\ TimerSatisfied(t, Bound(t, d, m), m)
       /\ GuardVerdict(t, Bound(t, d, m), attempt) = "true"
  BY <1>5, <1>6, <1>7
<1>11. \A j, k \in DOMAIN arcs :
         j # k /\ arcs[j].place = arcs[k].place => d[j] \cap d[k] = {}
  BY <1>7 DEF IsSpread
<1>12. QED
  BY <1>8, <1>9, <1>10, <1>11 DEF ExistsBinding

(* enabled_transitions names exactly the transitions that have a binding   *)
(* in which no token is used twice, although _select_binding admits        *)
(* choices that use a position twice and only probes the transitions that  *)
(* one place speaks for: whatever such a choice binds, another one binds   *)
(* with a position of its own for each token.  So it is where arcs that    *)
(* share a place take one token each, and no guard that raises hides a     *)
(* later binding; of arcs that take more, the order of tokens can tell.    *)
THEOREM EnabledHaveBindings ==
  ASSUME ComputedHasItsType, SharedArcsTakeOne, MatchesAsDeclared, GuardsRaiseAlike
  PROVE  Spec => []EnablementIsExact
<1>1. Init => Accepting(marking)
  BY EngineAssumption DEF Init, Accepting, Elements
<1>2. Accepting(marking) /\ [Next]_vars => Accepting(marking)'
  BY NextAccepting
<1>3. Accepting(marking) /\ Counting => EnablementIsExact
  <2>1. SUFFICES ASSUME Accepting(marking), Counting, NEW t \in Transition
                 PROVE  t \in Elements(EnabledTransitions(marking, steps))
                          <=> ExistsBinding(t, marking, steps)
    BY DEF EnablementIsExact, Seqs!ToSet, Elements
  <2>2. steps \in Nat
    BY <2>1 DEF Counting
  <2>3. t \in Elements(EnabledTransitions(marking, steps))
          <=> IsCandidate(t, marking) /\ SelectBinding(t, marking, steps) # {}
    BY EnabledAre
  <2>4. SelectBinding(t, marking, steps) # {} => IsCandidate(t, marking)
    BY BindingIsCandidate
  <2>5. SelectBinding(t, marking, steps) # {} <=> ExistsBinding(t, marking, steps)
    BY <2>1, <2>2, BindingIsFound, FoundIsBinding
  <2>6. QED
    BY <2>3, <2>4, <2>5
<1>4. QED
  BY <1>1, <1>2, <1>3, SpecCounting, PTL DEF Spec


-----------------------------------------------------------------------------
(* What each arc took, from the record.                                    *)

(* How many tokens of each place the arcs own, arc by arc.                 *)
LEMMA OffsetsAre ==
  ASSUME NEW t \in Transition
  PROVE  /\ Offsets(t) \in [0..Len(BindingArcs[t]) -> [Place -> Nat]]
         /\ \A p \in Place : Offsets(t)[0][p] = 0
         /\ \A k \in 1..Len(BindingArcs[t]) : \A p \in Place :
              Offsets(t)[k][p] = IF p = BindingArcs[t][k].place
                                 THEN Offsets(t)[k - 1][p] + BindingArcs[t][k].weight
                                 ELSE Offsets(t)[k - 1][p]
<1> DEFINE arcs == BindingArcs[t]
           n == Len(arcs)
           X == [Place -> Nat]
           x == [p \in Place |-> 0]
           Passed(k, y) == [y EXCEPT ![arcs[k].place] = @ + arcs[k].weight]
           step == [k \in 1..n |-> [y \in X |-> Passed(k, y)]]
           Is(f) == f = [k \in 0..n |-> IF k = 0 THEN x ELSE Passed(k, f[k - 1])]
<1>1. /\ n \in Nat /\ DOMAIN arcs = 1..n
      /\ \A k \in 1..n : arcs[k].place \in Place /\ arcs[k].weight \in Nat
  BY ArcsAre
<1>2. x \in X
  OBVIOUS
<1>3. \A k \in 1..n, y \in X : Passed(k, y) \in X
  BY <1>1
<1>4. \A k \in 1..n, y \in X, p \in Place :
        Passed(k, y)[p] = IF p = arcs[k].place THEN y[p] + arcs[k].weight ELSE y[p]
  BY <1>1
<1>5. Offsets(t) = CHOOSE f : Is(f)
  BY DEF Offsets
<1>6. \A f : Is(f) <=> f = [k \in 0..n |-> IF k = 0 THEN x ELSE Passed(k, f[k - 1])]
  OBVIOUS
<1> HIDE DEF Passed, n, arcs, Is
<1>7. step \in [1..n -> [X -> X]]
  BY <1>3
<1>8. \A k \in 1..n, y \in X : step[k][y] = Passed(k, y)
  OBVIOUS
<1>9. \A p \in Place : x[p] = 0
  OBVIOUS
<1> HIDE DEF step, x, X
<1>10. PICK g : Loops(g, X, x, n, step)
  BY <1>1, <1>2, <1>7, LoopExists
<1>11. Is(g)
  <2>1. \A k \in 1..n : k - 1 \in 0..n /\ g[k - 1] \in X
    BY <1>1, <1>10 DEF Loops
  <2>2. \A k \in 0..n : g[k] = IF k = 0 THEN x ELSE Passed(k, g[k - 1])
    <3>1. \A k \in 1..n : g[k] = step[k][g[k - 1]]
      BY <1>10 DEF Loops
    <3>2. g[0] = x /\ \A k \in 0..n : k = 0 \/ k \in 1..n
      BY <1>1, <1>10 DEF Loops
    <3>3. QED
      BY <1>8, <2>1, <3>1, <3>2
  <2>3. g = [k \in 0..n |-> g[k]]
    BY <1>10 DEF Loops
  <2>4. QED
    BY <1>6, <2>2, <2>3
<1> DEFINE f == Offsets(t)
<1>12. f = [k \in 0..n |-> IF k = 0 THEN x ELSE Passed(k, f[k - 1])]
  BY <1>5, <1>6, <1>11
<1> HIDE DEF f
<1>13. /\ f = [k \in 0..n |-> f[k]] /\ f[0] = x
       /\ \A k \in 1..n : f[k] = Passed(k, f[k - 1])
  BY <1>1, <1>12
<1>14. Loops(f, X, x, n, step)
  BY <1>1, <1>2, <1>7, <1>8, <1>13, LoopUnfolds
<1>15. f \in [0..n -> X]
  BY <1>14 DEF Loops
<1>16. \A k \in 1..n, p \in Place :
         f[k][p] = IF p = arcs[k].place THEN f[k - 1][p] + arcs[k].weight ELSE f[k - 1][p]
  <2>1. SUFFICES ASSUME NEW k \in 1..n, NEW p \in Place
                 PROVE  f[k][p] = IF p = arcs[k].place THEN f[k - 1][p] + arcs[k].weight
                                  ELSE f[k - 1][p]
    OBVIOUS
  <2>2. k - 1 \in 0..n /\ f[k - 1] \in X /\ f[k] = Passed(k, f[k - 1])
    <3>1. k - 1 \in 0..n
      BY <1>1
    <3>2. f[k] = Passed(k, f[k - 1])
      BY <1>13
    <3>3. QED
      BY <1>15, <3>1, <3>2
  <2>3. Passed(k, f[k - 1])[p] = IF p = arcs[k].place THEN f[k - 1][p] + arcs[k].weight
                                 ELSE f[k - 1][p]
    BY <1>4, <2>2
  <2>4. QED
    BY <2>2, <2>3
<1>17. QED
  BY <1>9, <1>13, <1>15, <1>16 DEF f, n, arcs, X

(* The slices of the consuming arcs, collected arc by arc.                 *)
CollectsSlices(f, t, input) ==
  /\ f \in [0..Len(BindingArcs[t]) -> OrderedMarking]
  /\ ConsumedSlices(t, input) = f[Len(BindingArcs[t])]
  /\ f[0] = NoBound
  /\ \A k \in 1..Len(BindingArcs[t]) : \A p \in Place :
       f[k][p] = IF BindingArcs[t][k].mode = "consume" /\ p = BindingArcs[t][k].place
                 THEN f[k - 1][p] \o ArcSlice(t, k, input)
                 ELSE f[k - 1][p]

LEMMA SlicesAreCollected ==
  ASSUME NEW t \in Transition, NEW input,
         \A k \in 1..Len(BindingArcs[t]) : ArcSlice(t, k, input) \in Seq(Token)
  PROVE  \E f : CollectsSlices(f, t, input)
<1> DEFINE arcs == BindingArcs[t]
           n == Len(arcs)
           X == OrderedMarking
           x == NoBound
           slice(k) == ArcSlice(t, k, input)
           Took(k, y) == IF arcs[k].mode # "consume" THEN y
                         ELSE [y EXCEPT ![arcs[k].place] = @ \o slice(k)]
           step == [k \in 1..n |-> [y \in X |-> Took(k, y)]]
           Is(f) == f = [k \in 0..n |-> IF k = 0 THEN x ELSE Took(k, f[k - 1])]
           F == CHOOSE f : Is(f)
<1>1. n \in Nat /\ DOMAIN arcs = 1..n /\ \A k \in 1..n : arcs[k].place \in Place
  BY ArcsAre
<1>2. x \in X
  <2>1. <<>> \in Seq(Token)
    OBVIOUS
  <2>2. QED
    BY <2>1 DEF NoBound, OrderedMarking
<1>3. \A k \in 1..n : slice(k) \in Seq(Token)
  OBVIOUS
<1>4. ConsumedSlices(t, input) = F[n]
  BY DEF ConsumedSlices
<1> HIDE DEF slice
<1>5. \A k \in 1..n, y \in X : Took(k, y) \in X
  BY <1>1, <1>3 DEF OrderedMarking
<1>6. \A k \in 1..n, y \in X, p \in Place :
        Took(k, y)[p] = IF arcs[k].mode = "consume" /\ p = arcs[k].place
                        THEN y[p] \o slice(k) ELSE y[p]
  BY <1>1 DEF OrderedMarking
<1>7. \A f : Is(f) <=> f = [k \in 0..n |-> IF k = 0 THEN x ELSE Took(k, f[k - 1])]
  OBVIOUS
<1> HIDE DEF Took, n, arcs, Is
<1>8. step \in [1..n -> [X -> X]]
  BY <1>5
<1>9. \A k \in 1..n, y \in X : step[k][y] = Took(k, y)
  OBVIOUS
<1> HIDE DEF step, x, X
<1>10. PICK g : Loops(g, X, x, n, step)
  BY <1>1, <1>2, <1>8, LoopExists
<1>11. Is(g)
  <2>1. \A k \in 1..n : k - 1 \in 0..n /\ g[k - 1] \in X
    BY <1>1, <1>10 DEF Loops
  <2>2. \A k \in 0..n : g[k] = IF k = 0 THEN x ELSE Took(k, g[k - 1])
    <3>1. \A k \in 1..n : g[k] = step[k][g[k - 1]]
      BY <1>10 DEF Loops
    <3>2. g[0] = x /\ \A k \in 0..n : k = 0 \/ k \in 1..n
      BY <1>1, <1>10 DEF Loops
    <3>3. QED
      BY <1>9, <2>1, <3>1, <3>2
  <2>3. g = [k \in 0..n |-> g[k]]
    BY <1>10 DEF Loops
  <2>4. QED
    BY <1>7, <2>2, <2>3
<1>12. F = [k \in 0..n |-> IF k = 0 THEN x ELSE Took(k, F[k - 1])]
  <2>1. Is(F)
    BY <1>11
  <2> HIDE DEF F
  <2>2. QED
    BY <1>7, <2>1
<1> HIDE DEF F
<1>13. F = [k \in 0..n |-> F[k]]
  BY <1>12
<1>14. F[0] = x /\ \A k \in 1..n : F[k] = Took(k, F[k - 1])
  BY <1>1, <1>12
<1>15. Loops(F, X, x, n, step)
  BY <1>1, <1>2, <1>8, <1>9, <1>13, <1>14, LoopUnfolds
<1>16. F \in [0..n -> X]
  BY <1>15 DEF Loops
<1>17. \A k \in 1..n, p \in Place :
         F[k][p] = IF arcs[k].mode = "consume" /\ p = arcs[k].place
                   THEN F[k - 1][p] \o slice(k) ELSE F[k - 1][p]
  <2>1. SUFFICES ASSUME NEW k \in 1..n, NEW p \in Place
                 PROVE  F[k][p] = IF arcs[k].mode = "consume" /\ p = arcs[k].place
                                  THEN F[k - 1][p] \o slice(k) ELSE F[k - 1][p]
    OBVIOUS
  <2>2. k - 1 \in 0..n
    BY <1>1
  <2>3. F[k - 1] \in X
    BY <1>16, <2>2
  <2>4. Took(k, F[k - 1])[p] = IF arcs[k].mode = "consume" /\ p = arcs[k].place
                               THEN F[k - 1][p] \o slice(k) ELSE F[k - 1][p]
    BY <1>6, <2>3
  <2>5. QED
    BY <1>14, <2>4
<1>18. CollectsSlices(F, t, input)
  BY <1>4, <1>14, <1>16, <1>17 DEF CollectsSlices, n, arcs, X, x, slice
<1>19. QED
  BY <1>18

(* The tokens recorded for a binding are split into what each arc took:    *)
(* the walker removes what the firing consumed, in the same order.         *)
LEMMA BindingIsSplit ==
  ASSUME NEW t \in Transition, NEW m \in OrderedMarking, NEW c \in Product(t, m)
  PROVE  /\ \A p \in Place :
              Len(Bound(t, c, m)[p]) = Offsets(t)[Len(BindingArcs[t])][p]
         /\ ConsumedSlices(t, Bound(t, c, m)) = Consumed(t, c, m)
<1> DEFINE arcs == BindingArcs[t]
           n == Len(arcs)
           o == Offsets(t)
           input == Bound(t, c, m)
           taken(k, p) == Subsequence(m[p], c[k])
           slice(k) == ArcSlice(t, k, input)
<1>1. n \in Nat /\ DOMAIN arcs = 1..n
  BY ArcsAre
<1>2. \A k \in 1..n : /\ arcs[k].place \in Place /\ arcs[k].mode \in {"consume", "read"}
                      /\ arcs[k].weight \in Nat
  BY ArcsAre
<1>3. \A k \in 1..n : /\ taken(k, arcs[k].place) \in Seq(Token)
                      /\ Len(taken(k, arcs[k].place)) = arcs[k].weight
  <2>1. SUFFICES ASSUME NEW k \in 1..n
                 PROVE  /\ taken(k, arcs[k].place) \in Seq(Token)
                        /\ Len(taken(k, arcs[k].place)) = arcs[k].weight
    OBVIOUS
  <2>2. c[k] \in ArcCandidates(arcs[k], m)
    BY <1>1 DEF Product
  <2>3. /\ c[k] \in SUBSET DOMAIN m[arcs[k].place] /\ m[arcs[k].place] \in Seq(Token)
        /\ Cardinality(c[k]) = arcs[k].weight
    BY <1>2, <2>2, CandidatesAre DEF OrderedMarking
  <2>4. QED
    BY <2>3, SubsequenceAt
<1> DEFINE Collects(f, modes) ==
             /\ TokensOf(t, c, m, modes) = f[n]
             /\ f[0] = NoBound
             /\ \A k \in 1..n : \A p \in Place :
                  f[k][p] = IF arcs[k].mode \in modes /\ p = arcs[k].place
                            THEN f[k - 1][p] \o taken(k, p) ELSE f[k - 1][p]
<1>4. \A modes : \E f \in [0..n -> OrderedMarking] : Collects(f, modes)
  <2>1. SUFFICES ASSUME NEW modes PROVE \E f \in [0..n -> OrderedMarking] : Collects(f, modes)
    OBVIOUS
  <2>2. QED
    BY TokensAreCollected
<1> HIDE DEF Collects
<1>5. PICK f \in [0..n -> OrderedMarking] : Collects(f, {"consume"})
  BY <1>4
<1>6. PICK g \in [0..n -> OrderedMarking] : Collects(g, {"consume", "read"})
  BY <1>4
<1> USE DEF Collects
<1>7. /\ o \in [0..n -> [Place -> Nat]]
      /\ \A p \in Place : o[0][p] = 0
      /\ \A k \in 1..n : \A p \in Place :
           o[k][p] = IF p = arcs[k].place THEN o[k - 1][p] + arcs[k].weight ELSE o[k - 1][p]
  BY OffsetsAre
<1>8. input = g[n] /\ Consumed(t, c, m) = f[n]
  BY <1>5, <1>6 DEF Bound, Consumed
<1>9. \A k \in 1..n :
        slice(k) = SubSeq(input[arcs[k].place], o[k - 1][arcs[k].place] + 1,
                          o[k - 1][arcs[k].place] + arcs[k].weight)
  BY DEF ArcSlice
<1>10. \A p \in Place : NoBound[p] = <<>>
  BY DEF NoBound
<1> HIDE DEF n, arcs, o, taken, input
<1>11. \A k \in 1..n : /\ k \in 0..n /\ k - 1 \in 0..n
                       /\ g[k - 1] \in OrderedMarking /\ g[k] \in OrderedMarking
  BY <1>1, <1>6
<1>12. \A k \in 1..n, p \in Place :
         /\ g[k - 1][p] \in Seq(Token) /\ g[k][p] \in Seq(Token)
         /\ g[k][p] = IF p = arcs[k].place THEN g[k - 1][p] \o taken(k, p) ELSE g[k - 1][p]
  <2>1. SUFFICES ASSUME NEW k \in 1..n, NEW p \in Place
                 PROVE  /\ g[k - 1][p] \in Seq(Token) /\ g[k][p] \in Seq(Token)
                        /\ g[k][p] = IF p = arcs[k].place THEN g[k - 1][p] \o taken(k, p)
                                     ELSE g[k - 1][p]
    OBVIOUS
  <2>2. g[k - 1][p] \in Seq(Token) /\ g[k][p] \in Seq(Token)
    BY <1>11 DEF OrderedMarking
  <2>3. arcs[k].mode \in {"consume", "read"}
    BY <1>2
  <2>4. QED
    BY <1>6, <2>2, <2>3
(* Bound to the first k arcs are as many tokens as they own.               *)
<1>13. \A k \in 0..n : \A p \in Place : Len(g[k][p]) = o[k][p]
  <2> DEFINE bad == {k \in 0..n : \E p \in Place : Len(g[k][p]) # o[k][p]}
  <2>1. SUFFICES ASSUME bad # {} PROVE FALSE
    OBVIOUS
  <2>2. PICK k \in bad : \A l \in bad : k <= l
    <3>1. bad \in SUBSET Nat
      BY <1>1
    <3> HIDE DEF bad
    <3>2. QED
      BY <2>1, <3>1, LeastNatural
  <2>3. k # 0
    BY <1>6, <1>7, <1>10
  <2>4. k \in 1..n /\ k - 1 \in 0..n /\ k - 1 \notin bad
    BY <1>1, <2>2, <2>3
  <2>5. PICK p \in Place : Len(g[k][p]) # o[k][p]
    OBVIOUS
  <2>6. Len(g[k - 1][p]) = o[k - 1][p]
    BY <2>4
  <2> HIDE DEF bad
  <2>7. g[k - 1][p] \in Seq(Token)
    BY <1>12, <2>4
  <2>8. CASE p = arcs[k].place
    <3>1. taken(k, p) \in Seq(Token) /\ Len(taken(k, p)) = arcs[k].weight
      BY <1>3, <2>4, <2>8
    <3>2. g[k][p] = g[k - 1][p] \o taken(k, p)
      BY <1>12, <2>4, <2>8
    <3>3. Len(g[k][p]) = Len(g[k - 1][p]) + arcs[k].weight
      <4>1. \A u \in Seq(Token), v \in Seq(Token) : Len(u \o v) = Len(u) + Len(v)
        OBVIOUS
      <4>2. QED
        BY <2>7, <3>1, <3>2, <4>1
    <3>4. QED
      BY <1>7, <2>4, <2>5, <2>6, <2>8, <3>3
  <2>9. CASE p # arcs[k].place
    BY <1>7, <1>12, <2>4, <2>5, <2>6, <2>9
  <2>10. QED
    BY <2>8, <2>9
(* What an arc took stands where it was put, whatever later arcs add.      *)
<1> DEFINE Extends(u, v) == /\ Len(v) <= Len(u) /\ \A i \in 1..Len(v) : u[i] = v[i]
<1>14. \A u, v, w \in Seq(Token) : Extends(u, v) /\ Extends(v, w) => Extends(u, w)
  <2>1. SUFFICES ASSUME NEW u \in Seq(Token), NEW v \in Seq(Token), NEW w \in Seq(Token),
                        Extends(u, v), Extends(v, w)
                 PROVE  Extends(u, w)
    OBVIOUS
  <2>2. Len(u) \in Nat /\ Len(v) \in Nat /\ Len(w) \in Nat
    OBVIOUS
  <2>3. \A i \in 1..Len(w) : i \in 1..Len(v)
    BY <2>1, <2>2
  <2>4. QED
    BY <2>1, <2>2, <2>3
<1>15. \A u \in Seq(Token), v \in Seq(Token) : Extends(u, u) /\ Extends(u \o v, u)
  OBVIOUS
<1>16. \A k \in 1..n, p \in Place : Extends(g[k][p], g[k - 1][p])
  <2>1. SUFFICES ASSUME NEW k \in 1..n, NEW p \in Place PROVE Extends(g[k][p], g[k - 1][p])
    OBVIOUS
  <2>2. g[k - 1][p] \in Seq(Token)
    BY <1>12
  <2> HIDE DEF Extends
  <2>3. CASE p = arcs[k].place
    <3>1. taken(k, p) \in Seq(Token)
      BY <1>3, <2>3
    <3>2. QED
      BY <1>12, <1>15, <2>2, <2>3, <3>1
  <2>4. CASE p # arcs[k].place
    BY <1>12, <1>15, <2>2, <2>4
  <2>5. QED
    BY <2>3, <2>4
<1> HIDE DEF Extends
<1>17. \A l \in 0..n : \A k \in 0..l : \A p \in Place : Extends(g[l][p], g[k][p])
  <2> DEFINE bad == {l \in 0..n : \E k \in 0..l : \E p \in Place : ~Extends(g[l][p], g[k][p])}
  <2>1. SUFFICES ASSUME bad # {} PROVE FALSE
    OBVIOUS
  <2>2. PICK l \in bad : \A j \in bad : l <= j
    <3>1. bad \in SUBSET Nat
      BY <1>1
    <3> HIDE DEF bad
    <3>2. QED
      BY <2>1, <3>1, LeastNatural
  <2>3. PICK k \in 0..l : \E p \in Place : ~Extends(g[l][p], g[k][p])
    OBVIOUS
  <2>4. PICK p \in Place : ~Extends(g[l][p], g[k][p])
    BY <2>3
  <2>5. l \in 0..n /\ k \in 0..n
    BY <1>1, <2>2, <2>3
  <2>6. \A j \in 0..n : g[j][p] \in Seq(Token)
    BY <1>6 DEF OrderedMarking
  <2>7. k # l
    BY <1>15, <2>4, <2>5, <2>6
  <2>8. l \in 1..n /\ l - 1 \in 0..n /\ k \in 0..(l - 1) /\ l - 1 \notin bad
    BY <1>1, <2>2, <2>3, <2>7
  <2>9. Extends(g[l - 1][p], g[k][p])
    BY <2>8
  <2> HIDE DEF bad
  <2>10. Extends(g[l][p], g[l - 1][p])
    BY <1>16, <2>8
  <2>11. QED
    BY <1>14, <2>4, <2>5, <2>6, <2>8, <2>9, <2>10
<1>18. \A k \in 1..n : slice(k) = taken(k, arcs[k].place)
  <2>1. SUFFICES ASSUME NEW k \in 1..n PROVE slice(k) = taken(k, arcs[k].place)
    OBVIOUS
  <2> DEFINE p == arcs[k].place
             w == arcs[k].weight
             u == input[p]
             s == o[k - 1][p]
             v == taken(k, p)
  <2>2. p \in Place /\ w \in Nat /\ s \in Nat
    BY <1>2, <1>7, <1>11
  <2>3. v \in Seq(Token) /\ Len(v) = w
    BY <1>3
  <2>4. /\ u \in Seq(Token) /\ g[k][p] = g[k - 1][p] \o v
        /\ g[k - 1][p] \in Seq(Token) /\ Len(g[k - 1][p]) = s
    <3>1. n \in 0..n /\ g[n] \in OrderedMarking
      BY <1>1, <1>6
    <3>2. QED
      BY <1>8, <1>11, <1>12, <1>13, <2>2, <3>1 DEF OrderedMarking
  <2>5. Extends(u, g[k][p])
    <3>1. n \in 0..n /\ k \in 0..n
      BY <1>1
    <3>2. QED
      BY <1>8, <1>17, <2>2, <3>1
  <2>6. slice(k) = SubSeq(u, s + 1, s + w)
    BY <1>9
  <2> HIDE DEF p, w, u, s, v, slice
  <2>7. Len(g[k][p]) = s + w /\ \A i \in 1..w : g[k][p][s + i] = v[i]
    <3>1. \A x \in Seq(Token), y \in Seq(Token) :
            /\ Len(x \o y) = Len(x) + Len(y)
            /\ \A i \in 1..Len(y) : (x \o y)[Len(x) + i] = y[i]
      OBVIOUS
    <3>2. QED
      BY <2>2, <2>3, <2>4, <3>1
  <2>8. s + w <= Len(u) /\ \A i \in 1..(s + w) : u[i] = g[k][p][i]
    BY <2>2, <2>5, <2>7 DEF Extends
  <2>9. \A i \in 1..w : s + i \in 1..(s + w) /\ u[s + i] = v[i]
    BY <2>2, <2>7, <2>8
  <2>10. /\ Len(u) \in Nat /\ \A i \in 1..Len(u) : u[i] \in Token
    BY <2>4
  <2>11. \A i \in (s + 1)..(s + w) : u[i] \in Token
    BY <2>2, <2>8, <2>10
  <2>12. /\ SubSeq(u, s + 1, s + w) \in Seq(Token)
         /\ Len(SubSeq(u, s + 1, s + w)) = IF s + 1 <= s + w THEN (s + w) - (s + 1) + 1 ELSE 0
         /\ \A i \in 1..((s + w) - (s + 1) + 1) : SubSeq(u, s + 1, s + w)[i] = u[(s + 1) + i - 1]
    <3>1. s + 1 \in Int /\ s + w \in Int
      BY <2>2
    <3>2. QED
      BY <2>11, <3>1, SubSeqProperties
  <2> DEFINE z == SubSeq(u, s + 1, s + w)
  <2>13. z \in Seq(Token) /\ Len(z) = w /\ \A i \in 1..w : z[i] = u[s + i]
    <3>1. /\ (IF s + 1 <= s + w THEN (s + w) - (s + 1) + 1 ELSE 0) = w
          /\ (s + w) - (s + 1) + 1 = w /\ \A i \in 1..w : (s + 1) + i - 1 = s + i
      BY <2>2
    <3>2. QED
      BY <2>12, <3>1
  <2> HIDE DEF z
  <2>14. z = v
    BY <2>2, <2>3, <2>9, <2>13, SeqEqual
  <2>15. QED
    BY <2>6, <2>14 DEF z, v, p
<1>19. PICK h : CollectsSlices(h, t, input)
  <2>1. \A k \in 1..Len(BindingArcs[t]) : ArcSlice(t, k, input) \in Seq(Token)
    BY <1>3, <1>18 DEF n, arcs
  <2>2. QED
    BY <2>1, SlicesAreCollected
<1>23. /\ h \in [0..n -> OrderedMarking]
       /\ ConsumedSlices(t, input) = h[n]
       /\ h[0] = NoBound
       /\ \A k \in 1..n : \A p \in Place :
            h[k][p] = IF arcs[k].mode = "consume" /\ p = arcs[k].place
                      THEN h[k - 1][p] \o slice(k) ELSE h[k - 1][p]
  BY <1>19 DEF CollectsSlices, n, arcs
<1> HIDE DEF slice
<1>20. \A k \in 0..n : h[k] = f[k]
  <2> DEFINE bad == {k \in 0..n : h[k] # f[k]}
  <2>1. SUFFICES ASSUME bad # {} PROVE FALSE
    OBVIOUS
  <2>2. PICK k \in bad : \A l \in bad : k <= l
    <3>1. bad \in SUBSET Nat
      BY <1>1
    <3> HIDE DEF bad
    <3>2. QED
      BY <2>1, <3>1, LeastNatural
  <2>3. k # 0
    BY <1>5, <1>23
  <2>4. k \in 1..n /\ k - 1 \in 0..n /\ k - 1 \notin bad
    BY <1>1, <2>2, <2>3
  <2>5. h[k - 1] = f[k - 1] /\ h[k] # f[k]
    BY <2>4
  <2> HIDE DEF bad
  <2>6. \A p \in Place : h[k][p] = f[k][p]
    BY <1>5, <1>18, <1>23, <2>4, <2>5
  <2>7. h[k] \in OrderedMarking /\ f[k] \in OrderedMarking
    BY <1>5, <1>11, <1>23, <2>4
  <2>8. h[k] = f[k]
    BY <2>6, <2>7 DEF OrderedMarking
  <2>9. QED
    BY <2>5, <2>8
<1>21. n \in 0..n
  BY <1>1
<1>22. QED
  BY <1>5, <1>8, <1>13, <1>23, <1>20, <1>21 DEF input, n, arcs, o

-----------------------------------------------------------------------------
(* The walk along a tape.                                                  *)

WalksTo(f, s, l) ==
  /\ f = [k \in 0..l |-> f[k]]
  /\ f[0] = InitialMarking
  /\ \A k \in 1..l : f[k] = Applied(f[k - 1], s[k])

IsWalk(f, s) ==
  f = [k \in 0..Len(s) |-> IF k = 0 THEN InitialMarking ELSE Applied(f[k - 1], s[k])]

LEMMA WalkExists ==
  ASSUME NEW s, NEW n \in Nat
  PROVE  \E f : WalksTo(f, s, n)
<1> DEFINE bad == {l \in 0..n : ~\E f : WalksTo(f, s, l)}
<1>1. SUFFICES bad = {}
  <2>1. n \in 0..n
    OBVIOUS
  <2>2. QED
    BY <2>1
<1>2. SUFFICES ASSUME bad # {} PROVE FALSE
  OBVIOUS
<1>3. PICK l \in bad : \A k \in bad : l <= k
  <2>1. bad \in SUBSET Nat
    OBVIOUS
  <2> HIDE DEF bad
  <2>2. QED
    BY <1>2, <2>1, LeastNatural
<1>4. l # 0
  <2> DEFINE g == [k \in 0..0 |-> InitialMarking]
  <2>1. g[0] = InitialMarking /\ g = [k \in 0..0 |-> g[k]]
    OBVIOUS
  <2> HIDE DEF g
  <2>2. WalksTo(g, s, 0)
    BY <2>1 DEF WalksTo
  <2>3. QED
    BY <1>3, <2>2
<1>5. l \in 1..n /\ l - 1 \in 0..n /\ l - 1 \notin bad
  BY <1>3, <1>4
<1>6. PICK f : WalksTo(f, s, l - 1)
  BY <1>5
<1> DEFINE g == [k \in 0..l |-> IF k = l THEN Applied(f[l - 1], s[l]) ELSE f[k]]
<1>7. /\ g = [k \in 0..l |-> g[k]]
      /\ g[l] = Applied(f[l - 1], s[l])
      /\ \A k \in 0..(l - 1) : g[k] = f[k]
  <2>1. l \in 0..l /\ \A k \in 0..(l - 1) : k \in 0..l /\ k # l
    BY <1>5
  <2>2. QED
    BY <2>1
<1> HIDE DEF g
<1>8. WalksTo(g, s, l)
  <2>1. g[0] = InitialMarking
    <3>1. 0 \in 0..(l - 1)
      BY <1>5
    <3>2. QED
      BY <1>6, <1>7, <3>1 DEF WalksTo
  <2>2. \A k \in 1..l : g[k] = Applied(g[k - 1], s[k])
    <3>1. SUFFICES ASSUME NEW k \in 1..l PROVE g[k] = Applied(g[k - 1], s[k])
      OBVIOUS
    <3>2. k - 1 \in 0..(l - 1) /\ (k = l \/ (k \in 0..(l - 1) /\ k \in 1..(l - 1)))
      BY <1>5
    <3>3. g[k - 1] = f[k - 1]
      BY <1>7, <3>2
    <3>4. CASE k = l
      BY <1>7, <3>3, <3>4
    <3>5. CASE k \in 0..(l - 1) /\ k \in 1..(l - 1)
      BY <1>6, <1>7, <3>3, <3>5 DEF WalksTo
    <3>6. QED
      BY <3>2, <3>4, <3>5
  <2>3. QED
    BY <1>7, <2>1, <2>2 DEF WalksTo
<1>9. QED
  BY <1>3, <1>8

LEMMA WalkedSteps ==
  ASSUME NEW s, Len(s) \in Nat
  PROVE  /\ Walked(s)[0] = InitialMarking
         /\ \A k \in 1..Len(s) : Walked(s)[k] = Applied(Walked(s)[k - 1], s[k])
<1>1. Walked(s) = CHOOSE f : IsWalk(f, s)
  BY DEF Walked, IsWalk
<1>2. PICK g : WalksTo(g, s, Len(s))
  BY WalkExists
<1>3. IsWalk(g, s)
  <2>1. \A k \in 0..Len(s) : g[k] = IF k = 0 THEN InitialMarking ELSE Applied(g[k - 1], s[k])
    <3>1. \A k \in 0..Len(s) : k = 0 \/ k \in 1..Len(s)
      OBVIOUS
    <3>2. QED
      BY <1>2, <3>1 DEF WalksTo
  <2>2. g = [k \in 0..Len(s) |-> g[k]]
    BY <1>2 DEF WalksTo
  <2>3. QED
    BY <2>1, <2>2 DEF IsWalk
<1> DEFINE f == Walked(s)
<1>4. IsWalk(f, s)
  BY <1>1, <1>3
<1> HIDE DEF f
<1>5. f = [k \in 0..Len(s) |-> IF k = 0 THEN InitialMarking ELSE Applied(f[k - 1], s[k])]
  BY <1>4 DEF IsWalk
<1>6. f[0] = InitialMarking
  <2>1. 0 \in 0..Len(s)
    OBVIOUS
  <2>2. QED
    BY <1>5, <2>1
<1>7. \A k \in 1..Len(s) : f[k] = Applied(f[k - 1], s[k])
  <2>1. \A k \in 1..Len(s) : k \in 0..Len(s) /\ k # 0
    OBVIOUS
  <2>2. QED
    BY <1>5, <2>1
<1>8. QED
  BY <1>6, <1>7 DEF f

(* Records that follow change nothing of the walk so far.                  *)
LEMMA WalkedGrows ==
  ASSUME NEW S, NEW s \in Seq(S), NEW u \in Seq(S)
  PROVE  \A k \in 0..Len(s) : Walked(s \o u)[k] = Walked(s)[k]
<1> DEFINE w == s \o u
           bad == {k \in 0..Len(s) : Walked(w)[k] # Walked(s)[k]}
<1>1. /\ Len(s) \in Nat /\ Len(u) \in Nat /\ Len(w) = Len(s) + Len(u)
      /\ \A k \in 1..Len(s) : w[k] = s[k]
  OBVIOUS
<1> HIDE DEF w
<1>2. Len(w) \in Nat /\ 1..Len(s) \subseteq 1..Len(w)
  BY <1>1
<1>3. /\ Walked(s)[0] = InitialMarking /\ Walked(w)[0] = InitialMarking
      /\ \A k \in 1..Len(s) : Walked(s)[k] = Applied(Walked(s)[k - 1], s[k])
      /\ \A k \in 1..Len(w) : Walked(w)[k] = Applied(Walked(w)[k - 1], w[k])
  BY <1>1, <1>2, WalkedSteps
<1>4. bad = {}
  <2>1. SUFFICES ASSUME bad # {} PROVE FALSE
    OBVIOUS
  <2>2. PICK k \in bad : \A l \in bad : k <= l
    <3>1. bad \in SUBSET Nat
      BY <1>1
    <3> HIDE DEF bad
    <3>2. QED
      BY <2>1, <3>1, LeastNatural
  <2>3. k # 0
    BY <1>3
  <2>4. k \in 1..Len(s) /\ k - 1 \in 0..Len(s) /\ k - 1 \notin bad
    BY <1>1, <2>2, <2>3
  <2>5. Walked(w)[k - 1] = Walked(s)[k - 1]
    BY <2>4
  <2>6. Walked(w)[k] = Walked(s)[k]
    BY <1>1, <1>2, <1>3, <2>4, <2>5
  <2>7. QED
    BY <2>2, <2>6
<1>5. QED
  BY <1>4 DEF w

-----------------------------------------------------------------------------
(* The records of a step, and the marking the step leaves.                 *)

LEMMA RecordsAreWalked ==
  ASSUME NEW S, tape \in Seq(S), NEW u \in Seq(S), tape' = tape \o u, TapeIsTheRun,
         \A k \in 1..Len(u) : FitsTheNet(Walked(tape \o u)[Len(tape) + k - 1], u[k]),
         Walked(tape \o u)[Len(tape) + Len(u)] = marking'
  PROVE  TapeIsTheRun'
<1> DEFINE w == tape \o u
<1>1. /\ Len(tape) \in Nat /\ Len(u) \in Nat /\ Len(w) = Len(tape) + Len(u)
      /\ DOMAIN tape = 1..Len(tape) /\ DOMAIN w = 1..(Len(tape) + Len(u))
      /\ \A k \in 1..(Len(tape) + Len(u)) :
           w[k] = IF k <= Len(tape) THEN tape[k] ELSE u[k - Len(tape)]
  OBVIOUS
<1>2. \A k \in 0..Len(tape) : Walked(w)[k] = Walked(tape)[k]
  BY WalkedGrows
<1>3. /\ \A k \in 1..Len(u) : FitsTheNet(Walked(w)[Len(tape) + k - 1], u[k])
      /\ Walked(w)[Len(tape) + Len(u)] = marking'
  OBVIOUS
<1>4. \A k \in 1..Len(tape) : FitsTheNet(Walked(tape)[k - 1], tape[k])
  BY <1>1 DEF TapeIsTheRun
<1> HIDE DEF w
<1>5. ASSUME NEW k \in DOMAIN w PROVE FitsTheNet(Walked(w)[k - 1], w[k])
  <2>1. CASE k <= Len(tape)
    <3>1. k \in 1..Len(tape) /\ k - 1 \in 0..Len(tape) /\ w[k] = tape[k]
      BY <1>1, <2>1
    <3>2. QED
      BY <1>2, <1>4, <3>1
  <2>2. CASE ~(k <= Len(tape))
    <3>1. /\ k - Len(tape) \in 1..Len(u) /\ w[k] = u[k - Len(tape)]
          /\ Len(tape) + (k - Len(tape)) - 1 = k - 1
      BY <1>1, <2>2
    <3>2. FitsTheNet(Walked(w)[Len(tape) + (k - Len(tape)) - 1], u[k - Len(tape)])
      BY <1>3, <3>1
    <3>3. QED
      BY <3>1, <3>2
  <2>3. QED
    BY <2>1, <2>2
<1>6. tape' = w
  BY DEF w
<1>7. Walked(w)[Len(w)] = marking'
  BY <1>1, <1>3
<1>8. QED
  BY <1>5, <1>6, <1>7 DEF TapeIsTheRun

(* One record that fits, and whose effect is the step's.                   *)
LEMMA RecordIsWalked ==
  ASSUME tape \in Seq(Elements(tape)), TapeIsTheRun,
         NEW e, tape' = Append(tape, e), FitsTheNet(marking, e), Applied(marking, e) = marking'
  PROVE  TapeIsTheRun'
<1> DEFINE S == Elements(tape) \cup {e}
           u == <<e>>
           w == tape \o u
<1>1. tape \in Seq(S) /\ u \in Seq(S)
  <2>1. Elements(tape) \subseteq S /\ e \in S
    OBVIOUS
  <2> HIDE DEF S
  <2>2. QED
    BY <2>1
<1>2. Len(u) = 1 /\ u[1] = e
  OBVIOUS
<1> HIDE DEF S, u
<1>3. /\ tape' = w /\ Len(tape) \in Nat /\ Len(w) = Len(tape) + 1
      /\ w[Len(tape) + 1] = e
  <2>1. w = Append(tape, e)
    BY <1>1 DEF u
  <2>2. /\ Len(tape) \in Nat /\ Len(Append(tape, e)) = Len(tape) + 1
        /\ Append(tape, e)[Len(tape) + 1] = e
    BY GrowingSequence
  <2>3. QED
    BY <2>1, <2>2
<1>4. Walked(w)[Len(tape)] = marking
  <2>1. Walked(tape)[Len(tape)] = marking
    BY DEF TapeIsTheRun
  <2>2. Len(tape) \in 0..Len(tape)
    BY <1>3
  <2>3. QED
    BY <1>1, <2>1, <2>2, WalkedGrows
<1> HIDE DEF w
<1>5. Walked(w)[Len(tape) + 1] = marking'
  <2>1. /\ Len(w) \in Nat /\ Len(tape) + 1 \in 1..Len(w)
        /\ (Len(tape) + 1) - 1 = Len(tape)
    BY <1>3
  <2>2. Walked(w)[Len(tape) + 1] = Applied(Walked(w)[(Len(tape) + 1) - 1], w[Len(tape) + 1])
    BY <2>1, WalkedSteps
  <2>3. QED
    BY <1>3, <1>4, <2>1, <2>2
<1>6. \A k \in 1..Len(u) : FitsTheNet(Walked(w)[Len(tape) + k - 1], u[k])
  <2>1. \A k \in 1..Len(u) : k = 1 /\ Len(tape) + k - 1 = Len(tape)
    BY <1>2, <1>3
  <2>2. QED
    BY <1>2, <1>4, <2>1
<1>7. QED
  BY <1>1, <1>2, <1>3, <1>5, <1>6, RecordsAreWalked DEF w

(* A record that is no completion fits every marking and changes none.     *)
LEMMA FailureIsWalked ==
  ASSUME NEW m, NEW e, e.kind # "injection", ~IsCompleted(e)
  PROVE  FitsTheNet(m, e) /\ Applied(m, e) = m
BY DEF FitsTheNet, Applied

LEMMA CompletionIsWalked ==
  ASSUME ComputedHasItsType, Accepting(marking), TapeIsTheRun, tape \in Seq(Elements(tape)),
         NEW t \in Transition, NEW attempt, Completes(t, attempt)
  PROVE  TapeIsTheRun'
<1>1. marking \in OrderedMarking
  BY DEF Accepting
<1>2. PICK b \in SelectBinding(t, marking, attempt), out \in Outputs[t] :
        /\ ~BreaksContract(t, out, b.tokens)
        /\ marking' = ApplyDeposit(ConsumeTokens(marking, b.consumed),
                                   Deposited(t, out, b.tokens))
        /\ Record(FiringRecord(t, attempt, "none", b.tokens,
                               Deposited(t, out, b.tokens)))
  BY DEF Completes
<1>3. /\ b.tokens \in OrderedMarking /\ b.consumed \in OrderedMarking
      /\ IsSubmultiset(b.tokens, marking)
  BY <1>1, SelectedIsViable
<1>4. PICK c \in Viable(t, marking) : /\ b.tokens = Bound(t, c, marking)
                                      /\ b.consumed = Consumed(t, c, marking)
  BY <1>1, SelectedIsViable
<1>5. c \in Product(t, marking)
  BY DEF Viable
<1>6. /\ \A p \in Place : Len(b.tokens[p]) = Offsets(t)[Len(BindingArcs[t])][p]
      /\ ConsumedSlices(t, b.tokens) = b.consumed
  BY <1>1, <1>4, <1>5, BindingIsSplit
<1>7. IsSubmultiset(b.consumed, marking)
  <2>1. SUFFICES ASSUME NEW p \in Place, NEW v \in Token
                 PROVE  CountOf(b.consumed[p], v) <= CountOf(marking[p], v)
    BY DEF IsSubmultiset
  <2>2. marking[p] \in Seq(Token) /\ b.consumed[p] \in Seq(Token) /\ b.tokens[p] \in Seq(Token)
    BY <1>1, <1>3 DEF OrderedMarking
  <2>3. CountOf(b.consumed[p], v) <= CountOf(b.tokens[p], v)
    BY <1>1, <1>4, <1>5, ConsumedIsBound
  <2>4. CountOf(b.tokens[p], v) <= CountOf(marking[p], v)
    BY <1>3 DEF IsSubmultiset
  <2>5. CountOf(b.consumed[p], v) \in Nat /\ CountOf(b.tokens[p], v) \in Nat
        /\ CountOf(marking[p], v) \in Nat
    BY <2>2, CountType
  <2>6. QED
    BY <2>3, <2>4, <2>5
<1> DEFINE d == Deposited(t, out, b.tokens)
           e == FiringRecord(t, attempt, "none", b.tokens, d)
<1>8. /\ e.kind = "firing" /\ e.error = "none" /\ e.t = t
      /\ e.input = b.tokens /\ e.output = d
  BY DEF FiringRecord
<1>9. tape' = Append(tape, e)
  BY <1>2 DEF Record
<1>10. marking' = ApplyDeposit(ConsumeTokens(marking, b.consumed), d)
  BY <1>2
<1> HIDE DEF e, d
<1>11. IsCompleted(e)
  BY <1>8 DEF IsCompleted
<1>12. FitsTheNet(marking, e)
  BY <1>6, <1>7, <1>8 DEF FitsTheNet
<1>13. Applied(marking, e) = marking'
  BY <1>6, <1>8, <1>10, <1>11 DEF Applied
<1>14. QED
  BY <1>9, <1>12, <1>13, RecordIsWalked

(* What a step may be to the records: nothing, a completed firing, a       *)
(* record of a firing that did not complete, or a batch of injections.     *)
LEMMA StepsAre ==
  ASSUME [Next]_vars
  PROVE  \/ UNCHANGED <<marking, tape>>
         \/ \E t \in Transition, attempt \in {0, steps} : Completes(t, attempt)
         \/ \E e : /\ e.kind # "injection" /\ ~IsCompleted(e)
                  /\ tape' = Append(tape, e) /\ UNCHANGED marking
         \/ \E a \in Arrivals : Injects(a)
<1> DEFINE Same == UNCHANGED <<marking, tape>>
           Completed == \E t \in Transition, attempt \in {0, steps} : Completes(t, attempt)
           Noted(e) == /\ e.kind # "injection" /\ ~IsCompleted(e)
                       /\ tape' = Append(tape, e) /\ UNCHANGED marking
<1>1. ASSUME NEW t, NEW attempt, Fails(t, attempt)
      PROVE  \E e : Noted(e)
  <2>1. PICK x \in Errors(t, attempt) : Record(FiringRecord(t, attempt, x, NoBound, NoBound))
    BY <1>1 DEF Fails
  <2> DEFINE e == FiringRecord(t, attempt, x, NoBound, NoBound)
  <2>2. x # "none"
    BY DEF Errors
  <2>3. e.kind # "injection" /\ ~IsCompleted(e)
    BY <2>2 DEF FiringRecord, IsCompleted
  <2>4. tape' = Append(tape, e) /\ marking' = marking
    BY <1>1, <2>1 DEF Fails, Record
  <2> HIDE DEF e
  <2>5. QED
    BY <2>3, <2>4
<1>2. ASSUME NEW t, NEW attempt, tape' = Append(tape, ViolationRecord(t, attempt)),
             marking' = marking
      PROVE  \E e : Noted(e)
  <2> DEFINE e == ViolationRecord(t, attempt)
  <2>1. e.kind # "injection" /\ ~IsCompleted(e)
    BY DEF ViolationRecord, IsCompleted
  <2> HIDE DEF e
  <2>2. QED
    BY <1>2, <2>1 DEF e
<1>3. ASSUME NEW t, NEW attempt, Drops(t, attempt) \/ Raises(t, attempt)
      PROVE  Same \/ \E e : Noted(e)
  <2>1. /\ marking' = marking
        /\ UNCHANGED tape \/ tape' = Append(tape, ViolationRecord(t, attempt))
    BY <1>3 DEF Drops, Raises, Record
  <2> HIDE DEF Noted
  <2>2. QED
    BY <1>2, <2>1
<1> HIDE DEF Noted
<1>4. ASSUME NEW t \in Transition, NEW attempt \in {0, steps},
             \/ Completes(t, attempt) \/ Fails(t, attempt)
             \/ Drops(t, attempt) \/ Raises(t, attempt)
      PROVE  Same \/ Completed \/ \E e : Noted(e)
  BY <1>1, <1>3, <1>4
<1> HIDE DEF Completed
<1>5. CASE RunFires
  <2> DEFINE t == Choice(Selectable)
  <2>1. t \in Transition
    BY <1>5, ChosenHasBinding DEF RunFires
  <2>2. \/ Completes(t, steps) \/ Fails(t, steps) \/ Drops(t, steps) \/ Raises(t, steps)
    BY <1>5 DEF RunFires
  <2> HIDE DEF t, Same
  <2>3. QED
    BY <1>4, <2>1, <2>2 DEF Completed, Noted, Same
<1>6. ASSUME NEW t \in Transition \cup Misnamed, CallFire(t)
      PROVE  Same \/ Completed \/ \E e : Noted(e)
  <2>1. CASE t \in Transition
    <3>1. Completes(t, 0) \/ Fails(t, 0) \/ Drops(t, 0) \/ Raises(t, 0)
      BY <1>6, <2>1 DEF CallFire, RequireTransition
    <3> HIDE DEF Same
    <3>2. QED
      BY <1>4, <2>1, <3>1
  <2>2. CASE t \notin Transition
    BY <1>6, <2>2 DEF CallFire, RequireTransition
  <2>3. QED
    BY <2>1, <2>2
<1>7. ASSUME NEW a \in Arrivals, CallInject(a) \/ CallTick(a)
      PROVE  Injects(a) \/ Same
  BY <1>7 DEF CallInject, CallTick
<1>8. CASE UNCHANGED vars \/ RunReturns \/ CallRun
  BY <1>8 DEF vars, RunReturns, CallRun
<1>9. QED
  BY <1>5, <1>6, <1>7, <1>8 DEF Next, Same, Completed, Noted

-----------------------------------------------------------------------------
(* An arrival's records.                                                   *)

(* The tokens that the first j placements of an arrival put into p.        *)
PlacedUpTo(a, p, j) ==
  LET new == Subsequence(a.placements, {k \in 1..j : a.placements[k].place = p})
  IN  [k \in DOMAIN new |-> new[k].token]

LEMMA PlacementsAre ==
  ASSUME NEW a \in Arrivals
  PROVE  /\ a.placements \in Seq(Placement) /\ Len(a.placements) \in Nat
         /\ DOMAIN a.placements = 1..Len(a.placements)
         /\ \A k \in 1..Len(a.placements) :
              a.placements[k].place \in Place /\ a.placements[k].token \in Token
         /\ a.replace \in BOOLEAN /\ (a.replace => Len(a.placements) = 1)
<1>1. /\ a.placements \in Seq(Placement)
      /\ a.replace \in BOOLEAN /\ (a.replace => Len(a.placements) = 1)
  BY EngineAssumption
<1>2. \A k \in 1..Len(a.placements) : a.placements[k] \in Placement
  BY <1>1
<1>3. \A x \in Placement : x.place \in Place /\ x.token \in Token
  BY DEF Placement
<1>4. QED
  BY <1>1, <1>2, <1>3

LEMMA PlacedGrows ==
  ASSUME NEW a \in Arrivals, NEW p \in Place
  PROVE  /\ PlacedUpTo(a, p, 0) = <<>>
         /\ \A j \in 0..Len(a.placements) : PlacedUpTo(a, p, j) \in Seq(Token)
         /\ \A j \in 1..Len(a.placements) :
              PlacedUpTo(a, p, j) =
                IF a.placements[j].place = p
                THEN Append(PlacedUpTo(a, p, j - 1), a.placements[j].token)
                ELSE PlacedUpTo(a, p, j - 1)
<1> DEFINE s == a.placements
           at(j) == {k \in 1..j : s[k].place = p}
           new(j) == Subsequence(s, at(j))
<1>1. /\ s \in Seq(Placement) /\ Len(s) \in Nat /\ DOMAIN s = 1..Len(s)
      /\ \A k \in 1..Len(s) : s[k].place \in Place /\ s[k].token \in Token
  BY PlacementsAre
<1>2. \A j : PlacedUpTo(a, p, j) = [k \in DOMAIN new(j) |-> new(j)[k].token]
  BY DEF PlacedUpTo
<1>3. at(0) = {} /\ \A j : at(j) \in SUBSET (1..j)
  OBVIOUS
<1>4. \A j \in 1..Len(s) : at(j) = IF s[j].place = p THEN at(j - 1) \cup {j} ELSE at(j - 1)
  <2>1. SUFFICES ASSUME NEW j \in 1..Len(s)
                 PROVE  \A k : k \in at(j) <=> k \in at(j - 1) \/ (k = j /\ s[j].place = p)
    <3> HIDE DEF at
    <3>1. QED
      OBVIOUS
  <2>2. \A k : k \in 1..j <=> k \in 1..(j - 1) \/ k = j
    BY <1>1
  <2>3. QED
    BY <2>2
<1> HIDE DEF at, s
<1>5. \A j \in 0..Len(s) : at(j) \in SUBSET DOMAIN s
  <2>1. \A j \in 0..Len(s) : 1..j \subseteq 1..Len(s)
    BY <1>1
  <2>2. QED
    BY <1>1, <1>3, <2>1
<1>6. \A j \in 0..Len(s) : new(j) \in Seq(Placement)
  BY <1>1, <1>5, SubsequenceAt
<1>7. new(0) = <<>>
  <2>1. 0 \in 0..Len(s)
    BY <1>1
  <2>2. new(0) \in Seq(Placement) /\ Len(new(0)) = Cardinality(at(0))
    BY <1>1, <1>5, <2>1, SubsequenceAt
  <2>3. Len(new(0)) = 0
    BY <1>3, <2>2, FS_EmptySet
  <2> HIDE DEF new
  <2>4. QED
    BY <2>2, <2>3
<1>8. \A j \in 1..Len(s) : new(j) = IF s[j].place = p THEN Append(new(j - 1), s[j]) ELSE new(j - 1)
  <2>1. SUFFICES ASSUME NEW j \in 1..Len(s)
                 PROVE  new(j) = IF s[j].place = p THEN Append(new(j - 1), s[j]) ELSE new(j - 1)
    OBVIOUS
  <2>2. Subsequence(s, at(j - 1) \cup {j}) = Append(Subsequence(s, at(j - 1)), s[j])
    BY <1>1, <1>3, SubsequenceGrows
  <2>3. QED
    BY <1>4, <2>2
<1> HIDE DEF new
<1>9. \A x \in Seq(Placement) :
        /\ [k \in DOMAIN x |-> x[k].token] \in Seq(Token)
        /\ \A y \in Placement :
             [k \in DOMAIN Append(x, y) |-> Append(x, y)[k].token] =
               Append([k \in DOMAIN x |-> x[k].token], y.token)
  <2>1. SUFFICES ASSUME NEW x \in Seq(Placement)
                 PROVE  /\ [k \in DOMAIN x |-> x[k].token] \in Seq(Token)
                        /\ \A y \in Placement :
                             [k \in DOMAIN Append(x, y) |-> Append(x, y)[k].token] =
                               Append([k \in DOMAIN x |-> x[k].token], y.token)
    OBVIOUS
  <2>2. \A y \in Placement : y.token \in Token
    BY DEF Placement
  <2>3. DOMAIN x = 1..Len(x) /\ Len(x) \in Nat /\ \A k \in 1..Len(x) : x[k] \in Placement
    OBVIOUS
  <2> DEFINE u == [k \in DOMAIN x |-> x[k].token]
  <2>4. u \in Seq(Token) /\ Len(u) = Len(x) /\ \A k \in 1..Len(x) : u[k] = x[k].token
    BY <2>2, <2>3
  <2> HIDE DEF u
  <2>5. ASSUME NEW y \in Placement
        PROVE  [k \in DOMAIN Append(x, y) |-> Append(x, y)[k].token] = Append(u, y.token)
    <3> DEFINE z == [k \in DOMAIN Append(x, y) |-> Append(x, y)[k].token]
    <3>1. /\ DOMAIN Append(x, y) = 1..(Len(x) + 1) /\ Append(x, y)[Len(x) + 1] = y
          /\ \A k \in 1..Len(x) : Append(x, y)[k] = x[k]
      BY <2>3
    <3>2. \A k \in 1..(Len(x) + 1) : Append(x, y)[k] \in Placement
      OBVIOUS
    <3>3. z \in [1..(Len(x) + 1) -> Token]
      BY <2>2, <3>1, <3>2
    <3>4. z \in Seq(Token) /\ Len(z) = Len(x) + 1
      BY <2>3, <3>3
    <3>5. \A k \in 1..(Len(x) + 1) : z[k] = Append(x, y)[k].token
      BY <3>1
    <3> HIDE DEF z
    <3>6. /\ Append(u, y.token) \in Seq(Token) /\ Len(Append(u, y.token)) = Len(x) + 1
          /\ Append(u, y.token)[Len(x) + 1] = y.token
          /\ \A k \in 1..Len(x) : Append(u, y.token)[k] = u[k]
      BY <2>2, <2>4
    <3>7. \A k \in 1..(Len(x) + 1) : z[k] = Append(u, y.token)[k]
      <4>1. \A k \in 1..(Len(x) + 1) : k \in 1..Len(x) \/ k = Len(x) + 1
        BY <2>3
      <4>2. QED
        BY <2>4, <3>1, <3>5, <3>6, <4>1
    <3>8. z = Append(u, y.token)
      BY <3>4, <3>6, <3>7, SeqEqual
    <3>9. QED
      BY <3>8 DEF z
  <2>6. QED
    BY <2>4, <2>5 DEF u
<1>10. \A j \in 0..Len(s) : PlacedUpTo(a, p, j) \in Seq(Token)
  BY <1>2, <1>6, <1>9
<1>11. PlacedUpTo(a, p, 0) = <<>>
  <2>1. PlacedUpTo(a, p, 0) = [k \in {} |-> new(0)[k].token]
    <3>1. DOMAIN new(0) = {}
      BY <1>7
    <3>2. QED
      BY <1>2, <3>1
  <2>2. DOMAIN PlacedUpTo(a, p, 0) = {} /\ PlacedUpTo(a, p, 0) \in Seq(Token)
    BY <1>1, <1>10, <2>1
  <2>3. QED
    BY <2>2
<1>12. \A j \in 1..Len(s) :
         PlacedUpTo(a, p, j) = IF s[j].place = p THEN Append(PlacedUpTo(a, p, j - 1), s[j].token)
                               ELSE PlacedUpTo(a, p, j - 1)
  <2>1. SUFFICES ASSUME NEW j \in 1..Len(s)
                 PROVE  PlacedUpTo(a, p, j) =
                          IF s[j].place = p THEN Append(PlacedUpTo(a, p, j - 1), s[j].token)
                          ELSE PlacedUpTo(a, p, j - 1)
    OBVIOUS
  <2>2. j - 1 \in 0..Len(s) /\ s[j] \in Placement
    BY <1>1
  <2>3. new(j - 1) \in Seq(Placement)
    BY <1>6, <2>2
  <2>4. CASE s[j].place = p
    <3>1. new(j) = Append(new(j - 1), s[j])
      BY <1>8, <2>4
    <3>2. [k \in DOMAIN Append(new(j - 1), s[j]) |-> Append(new(j - 1), s[j])[k].token] =
            Append([k \in DOMAIN new(j - 1) |-> new(j - 1)[k].token], s[j].token)
      BY <1>9, <2>2, <2>3
    <3>3. PlacedUpTo(a, p, j) = [k \in DOMAIN new(j) |-> new(j)[k].token]
      BY <1>2
    <3>4. PlacedUpTo(a, p, j - 1) = [k \in DOMAIN new(j - 1) |-> new(j - 1)[k].token]
      BY <1>2
    <3>5. PlacedUpTo(a, p, j) = Append(PlacedUpTo(a, p, j - 1), s[j].token)
      BY <3>1, <3>2, <3>3, <3>4, Zenon
    <3>6. QED
      BY <2>4, <3>5
  <2>5. CASE s[j].place # p
    BY <1>2, <1>8, <2>5
  <2>6. QED
    BY <2>4, <2>5
<1>13. QED
  BY <1>10, <1>11, <1>12 DEF s

(* The marking an arrival leaves, place by place.                          *)
LEMMA InjectedIs ==
  ASSUME NEW a \in Arrivals, NEW m \in OrderedMarking
  PROVE  /\ Injected(m, a) \in OrderedMarking
         /\ ~a.replace => \A p \in Place :
              Injected(m, a)[p] = m[p] \o PlacedUpTo(a, p, Len(a.placements))
         /\ a.replace => \A p \in Place :
              Injected(m, a)[p] = IF p = a.placements[1].place
                                  THEN <<a.placements[1].token>> ELSE m[p]
<1> DEFINE n == Len(a.placements)
           new(p) == Subsequence(a.placements, {k \in DOMAIN a.placements : a.placements[k].place = p})
           tokens(p) == [k \in DOMAIN new(p) |-> new(p)[k].token]
<1>1. DOMAIN a.placements = 1..n /\ n \in Nat /\ (a.replace => n = 1)
  BY PlacementsAre
<1>2. \A p : tokens(p) = PlacedUpTo(a, p, n)
  BY <1>1 DEF PlacedUpTo
<1>3. Injected(m, a) = [p \in Place |-> IF a.replace /\ new(p) # <<>> THEN tokens(p)
                                        ELSE m[p] \o tokens(p)]
  BY DEF Injected
<1>4. \A p : DOMAIN tokens(p) = DOMAIN new(p)
  OBVIOUS
<1>5. \A p \in Place : new(p) \in Seq(Placement)
  BY ArrivingTokens
<1>6. \A p \in Place : /\ PlacedUpTo(a, p, 0) = <<>> /\ PlacedUpTo(a, p, n) \in Seq(Token)
                       /\ m[p] \in Seq(Token)
  <2>1. n \in 0..n
    BY <1>1
  <2>2. QED
    BY <2>1, PlacedGrows DEF OrderedMarking
<1>7. \A p \in Place : new(p) = <<>> <=> PlacedUpTo(a, p, n) = <<>>
  <2>1. SUFFICES ASSUME NEW p \in Place PROVE new(p) = <<>> <=> tokens(p) = <<>>
    BY <1>2
  <2>2. new(p) \in Seq(Placement) /\ tokens(p) \in Seq(Token) /\ DOMAIN tokens(p) = DOMAIN new(p)
    BY <1>2, <1>4, <1>5, <1>6
  <2> HIDE DEF new, tokens
  <2>3. QED
    BY <2>2
<1> HIDE DEF new, tokens, n
<1>8. \A p \in Place :
        Injected(m, a)[p] = IF a.replace /\ PlacedUpTo(a, p, n) # <<>> THEN PlacedUpTo(a, p, n)
                            ELSE m[p] \o PlacedUpTo(a, p, n)
  BY <1>2, <1>3, <1>7
<1>9. Injected(m, a) \in OrderedMarking
  <2>1. \A p \in Place : Injected(m, a)[p] \in Seq(Token)
    <3>1. SUFFICES ASSUME NEW p \in Place PROVE Injected(m, a)[p] \in Seq(Token)
      OBVIOUS
    <3>2. m[p] \o PlacedUpTo(a, p, n) \in Seq(Token)
      BY <1>6, ConcatProperties
    <3>3. QED
      BY <1>6, <1>8, <3>2
  <2>2. Injected(m, a) = [p \in Place |-> Injected(m, a)[p]]
    BY <1>3
  <2>3. QED
    BY <2>1, <2>2 DEF OrderedMarking
<1>10. ASSUME a.replace, NEW p \in Place
       PROVE  Injected(m, a)[p] = IF p = a.placements[1].place
                                  THEN <<a.placements[1].token>> ELSE m[p]
  <2>1. n = 1 /\ 1 \in 1..n
    BY <1>1, <1>10
  <2>2. /\ a.placements[1].token \in Token
        /\ PlacedUpTo(a, p, 1) = IF a.placements[1].place = p
                                 THEN Append(PlacedUpTo(a, p, 0), a.placements[1].token)
                                 ELSE PlacedUpTo(a, p, 0)
    <3>1. 1 \in 1..Len(a.placements) /\ 1 - 1 = 0
      BY <2>1 DEF n
    <3>2. PlacedUpTo(a, p, 1) = IF a.placements[1].place = p
                                THEN Append(PlacedUpTo(a, p, 1 - 1), a.placements[1].token)
                                ELSE PlacedUpTo(a, p, 1 - 1)
      BY <3>1, PlacedGrows
    <3>3. QED
      BY <3>1, <3>2, PlacementsAre
  <2>3. m[p] \o <<>> = m[p]
    BY <1>6, ConcatEmptySeq
  <2>4. CASE a.placements[1].place = p
    <3>1. PlacedUpTo(a, p, n) = <<a.placements[1].token>>
      <4>1. \A x \in Token : Append(<<>>, x) = <<x>>
        OBVIOUS
      <4>2. QED
        BY <1>6, <2>1, <2>2, <2>4, <4>1
    <3>2. QED
      BY <1>8, <1>10, <2>4, <3>1
  <2>5. CASE a.placements[1].place # p
    BY <1>6, <1>8, <2>1, <2>2, <2>3, <2>5
  <2>6. QED
    BY <2>4, <2>5
<1>11. ASSUME ~a.replace, NEW p \in Place
       PROVE  Injected(m, a)[p] = m[p] \o PlacedUpTo(a, p, n)
  BY <1>8, <1>11
<1>12. QED
  BY <1>9, <1>10, <1>11 DEF n

LEMMA AppendToConcat ==
  ASSUME NEW u \in Seq(Token), NEW v \in Seq(Token), NEW x \in Token
  PROVE  Append(u \o v, x) = u \o Append(v, x)
<1> DEFINE S == Token
           y == Append(u \o v, x)
           z == u \o Append(v, x)
<1>1. /\ Len(u) \in Nat /\ Len(v) \in Nat /\ u \o v \in Seq(S) /\ Append(v, x) \in Seq(S)
      /\ Len(u \o v) = Len(u) + Len(v) /\ Len(Append(v, x)) = Len(v) + 1
      /\ \A i \in 1..(Len(u) + Len(v)) : (u \o v)[i] = IF i <= Len(u) THEN u[i] ELSE v[i - Len(u)]
      /\ Append(v, x)[Len(v) + 1] = x /\ \A i \in 1..Len(v) : Append(v, x)[i] = v[i]
  OBVIOUS
<1>2. /\ y \in Seq(S) /\ Len(y) = Len(u) + Len(v) + 1 /\ y[Len(u) + Len(v) + 1] = x
      /\ \A i \in 1..(Len(u) + Len(v)) : y[i] = (u \o v)[i]
  BY <1>1
<1>3. /\ z \in Seq(S) /\ Len(z) = Len(u) + (Len(v) + 1)
      /\ \A i \in 1..(Len(u) + (Len(v) + 1)) :
           z[i] = IF i <= Len(u) THEN u[i] ELSE Append(v, x)[i - Len(u)]
  BY <1>1
<1> HIDE DEF y, z
<1>4. \A i \in 1..Len(y) : y[i] = z[i]
  <2>1. SUFFICES ASSUME NEW i \in 1..(Len(u) + Len(v) + 1) PROVE y[i] = z[i]
    BY <1>2
  <2>2. CASE i = Len(u) + Len(v) + 1
    BY <1>1, <1>2, <1>3, <2>2
  <2>3. CASE i # Len(u) + Len(v) + 1
    <3>1. i \in 1..(Len(u) + Len(v)) /\ i \in 1..(Len(u) + (Len(v) + 1))
      <4>1. Len(u) \in Nat /\ Len(v) \in Nat
        OBVIOUS
      <4>2. QED
        BY <2>3, <4>1
    <3>2. y[i] = (u \o v)[i] /\ z[i] = IF i <= Len(u) THEN u[i] ELSE Append(v, x)[i - Len(u)]
      BY <1>2, <1>3, <3>1
    <3>3. CASE i <= Len(u)
      BY <1>1, <3>1, <3>2, <3>3
    <3>4. CASE ~(i <= Len(u))
      <4>1. i - Len(u) \in 1..Len(v)
        BY <1>1, <3>1, <3>4
      <4>2. QED
        BY <1>1, <3>1, <3>2, <3>4, <4>1
    <3>5. QED
      BY <3>3, <3>4
  <2>4. QED
    BY <2>2, <2>3
<1>5. Len(y) = Len(z)
  BY <1>1, <1>2, <1>3
<1>6. y = z
  BY <1>2, <1>3, <1>4, <1>5, SeqEqual
<1>7. QED
  BY <1>6 DEF y, z

LEMMA InjectionIsApplied ==
  ASSUME NEW m, NEW e, e.kind = "injection"
  PROVE  Applied(m, e) = [m EXCEPT ![e.place] = IF e.replace THEN <<e.token>>
                                                ELSE Append(@, e.token)]
<1>1. e.kind # "firing"
  OBVIOUS
<1>2. ~IsCompleted(e)
  BY <1>1 DEF IsCompleted
<1>3. QED
  BY <1>2 DEF Applied

LEMMA ArrivalIsWalked ==
  ASSUME NEW a \in Arrivals, marking \in OrderedMarking, TapeIsTheRun,
         tape \in Seq(Elements(tape)), Injects(a)
  PROVE  TapeIsTheRun'
<1> DEFINE s == a.placements
           n == Len(s)
           r == InjectionRecords(a)
           S == Elements(tape) \cup Elements(r)
           w == tape \o r
           W == Walked(w)
           L == Len(tape)
<1>1. /\ n \in Nat /\ DOMAIN s = 1..n
      /\ \A k \in 1..n : s[k].place \in Place /\ s[k].token \in Token
      /\ a.replace \in BOOLEAN /\ (a.replace => n = 1)
  BY PlacementsAre
<1>2. /\ r \in [1..n -> Elements(r)]
      /\ \A k \in 1..n : /\ r[k].kind = "injection" /\ r[k].place = s[k].place
                         /\ r[k].token = s[k].token /\ r[k].replace = a.replace
  BY <1>1 DEF InjectionRecords, Elements
<1>3. marking' = Injected(marking, a) /\ tape' = tape \o r
  BY DEF Injects
<1> HIDE DEF r
<1>4. tape \in Seq(S) /\ r \in Seq(S) /\ Len(r) = n
  <2>1. Elements(tape) \subseteq S /\ Elements(r) \subseteq S
    OBVIOUS
  <2> HIDE DEF S
  <2>2. r \in [1..n -> S]
    BY <1>2, <2>1
  <2>3. QED
    BY <1>1, <2>1, <2>2
<1> HIDE DEF S, s
<1>5. /\ L \in Nat /\ Len(w) = L + n
      /\ \A k \in 1..n : w[L + k] = r[k]
  <2>1. /\ Len(tape \o r) = Len(tape) + Len(r)
        /\ \A k \in 1..Len(r) : (tape \o r)[Len(tape) + k] = r[k]
    BY <1>4
  <2>2. QED
    BY <1>4, <2>1
<1>6. W[L] = marking
  <2>1. Walked(tape)[L] = marking
    BY DEF TapeIsTheRun
  <2>2. L \in 0..L
    BY <1>5
  <2>3. QED
    BY <1>4, <2>1, <2>2, WalkedGrows
<1>7. \A k \in 1..n : W[L + k] = Applied(W[L + k - 1], r[k])
  <2>1. SUFFICES ASSUME NEW k \in 1..n PROVE W[L + k] = Applied(W[L + k - 1], r[k])
    OBVIOUS
  <2>2. Len(w) \in Nat /\ L + k \in 1..Len(w) /\ w[L + k] = r[k]
    BY <1>1, <1>5
  <2> HIDE DEF w, L
  <2>3. QED
    <3>1. \A i \in 1..Len(w) : Walked(w)[i] = Applied(Walked(w)[i - 1], w[i])
      BY <2>2, WalkedSteps
    <3>2. Walked(w)[L + k] = Applied(Walked(w)[(L + k) - 1], w[L + k])
      BY <2>2, <3>1
    <3>3. (L + k) - 1 = L + k - 1
      BY <1>1, <1>5
    <3>4. QED
      BY <2>2, <3>2, <3>3
<1> HIDE DEF w, W, L
<1>8. ASSUME NEW m, NEW k \in 1..n
      PROVE  /\ a.replace => Applied(m, r[k]) = [m EXCEPT ![s[k].place] = <<s[k].token>>]
             /\ ~a.replace =>
                  Applied(m, r[k]) = [m EXCEPT ![s[k].place] = Append(@, s[k].token)]
  <2>1. ASSUME NEW e, e.kind = "injection"
        PROVE  Applied(m, e) = [m EXCEPT ![e.place] = IF e.replace THEN <<e.token>>
                                                      ELSE Append(@, e.token)]
    BY <2>1, InjectionIsApplied
  <2>2. Applied(m, r[k]) = [m EXCEPT ![s[k].place] = IF a.replace THEN <<s[k].token>>
                                                     ELSE Append(@, s[k].token)]
    BY <1>2, <2>1
  <2>3. QED
    BY <2>2
<1>9. CASE a.replace
  <2>1. n = 1 /\ 1 \in 1..n /\ L + 1 - 1 = L
    BY <1>1, <1>5, <1>9
  <2>2. W[L + 1] = [marking EXCEPT ![s[1].place] = <<s[1].token>>]
    <3>1. W[L + 1] = Applied(marking, r[1])
      BY <1>6, <1>7, <2>1
    <3>2. QED
      BY <1>8, <1>9, <2>1, <3>1
  <2>3. \A p \in Place : Injected(marking, a)[p] = IF p = s[1].place THEN <<s[1].token>>
                                                   ELSE marking[p]
    BY <1>9, InjectedIs DEF s
  <2>4. \A p \in Place : W[L + 1][p] = Injected(marking, a)[p]
    BY <2>2, <2>3 DEF OrderedMarking
  <2>5. W[L + 1] \in OrderedMarking
    <3>1. s[1].place \in Place /\ <<s[1].token>> \in Seq(Token)
      BY <1>1, <2>1
    <3>2. QED
      BY <2>2, <3>1 DEF OrderedMarking
  <2>6. Injected(marking, a) \in OrderedMarking
    BY InjectedIs
  <2>7. W[L + n] = Injected(marking, a)
    BY <2>1, <2>4, <2>5, <2>6 DEF OrderedMarking
  <2>8. \A k \in 1..Len(r) : FitsTheNet(W[L + k - 1], r[k])
    BY <1>2, <1>4 DEF FitsTheNet, IsCompleted
  <2>9. QED
    BY <1>3, <1>4, <2>7, <2>8, RecordsAreWalked DEF w, W, L
<1>10. CASE ~a.replace
  <2> DEFINE Good(j) == /\ W[L + j] \in OrderedMarking
                        /\ \A p \in Place : W[L + j][p] = marking[p] \o PlacedUpTo(a, p, j)
             bad == {j \in 0..n : ~Good(j)}
  <2>1. \A p \in Place : /\ marking[p] \in Seq(Token)
                         /\ PlacedUpTo(a, p, 0) = <<>>
                         /\ \A j \in 0..n : PlacedUpTo(a, p, j) \in Seq(Token)
                         /\ \A j \in 1..n :
                              PlacedUpTo(a, p, j) =
                                IF s[j].place = p
                                THEN Append(PlacedUpTo(a, p, j - 1), s[j].token)
                                ELSE PlacedUpTo(a, p, j - 1)
    BY PlacedGrows DEF s, OrderedMarking
  <2>2. bad = {}
    <3>1. SUFFICES ASSUME bad # {} PROVE FALSE
      OBVIOUS
    <3>2. PICK j \in bad : \A l \in bad : j <= l
      <4>1. bad \in SUBSET Nat
        BY <1>1
      <4> HIDE DEF bad
      <4>2. QED
        BY <3>1, <4>1, LeastNatural
    <3>3. j \in 0..n /\ ~Good(j)
      OBVIOUS
    <3>4. j # 0
      <4>1. L + 0 = L
        BY <1>5
      <4>2. \A p \in Place : marking[p] \o <<>> = marking[p]
        BY <2>1, ConcatEmptySeq
      <4>3. Good(0)
        BY <1>6, <2>1, <4>1, <4>2
      <4>4. QED
        BY <3>3, <4>3
    <3>5. /\ j \in 1..n /\ j - 1 \in 0..n /\ j - 1 \notin bad
          /\ L + j - 1 = L + (j - 1)
      BY <1>1, <1>5, <3>2, <3>3, <3>4
    <3>6. Good(j - 1)
      BY <3>5
    <3> HIDE DEF bad
    <3> DEFINE m == W[L + (j - 1)]
    <3>7. /\ m \in OrderedMarking
          /\ \A p \in Place : m[p] = marking[p] \o PlacedUpTo(a, p, j - 1)
      BY <3>6
    <3>8. W[L + j] = [m EXCEPT ![s[j].place] = Append(@, s[j].token)]
      <4>1. W[L + j] = Applied(m, r[j])
        BY <1>7, <3>5
      <4> HIDE DEF m
      <4>2. QED
        BY <1>8, <1>10, <3>5, <4>1
    <3> HIDE DEF m, Good
    <3>9. s[j].place \in Place /\ s[j].token \in Token
      BY <1>1, <3>5
    <3>10. W[L + j] \in OrderedMarking
      BY <3>7, <3>8, <3>9 DEF OrderedMarking
    <3>11. ASSUME NEW p \in Place
           PROVE  W[L + j][p] = marking[p] \o PlacedUpTo(a, p, j)
      <4>1. /\ marking[p] \in Seq(Token) /\ PlacedUpTo(a, p, j - 1) \in Seq(Token)
        BY <2>1, <3>5
      <4>2. PlacedUpTo(a, p, j) = IF s[j].place = p
                                  THEN Append(PlacedUpTo(a, p, j - 1), s[j].token)
                                  ELSE PlacedUpTo(a, p, j - 1)
        BY <2>1, <3>5
      <4>3. W[L + j][p] = IF s[j].place = p THEN Append(m[p], s[j].token) ELSE m[p]
        BY <3>7, <3>8, <3>9 DEF OrderedMarking
      <4>4. Append(marking[p] \o PlacedUpTo(a, p, j - 1), s[j].token) =
              marking[p] \o Append(PlacedUpTo(a, p, j - 1), s[j].token)
        BY <3>9, <4>1, AppendToConcat
      <4>5. QED
        BY <3>7, <4>2, <4>3, <4>4
    <3>12. QED
      BY <3>3, <3>10, <3>11 DEF Good
  <2>3. Good(n)
    <3>1. n \in 0..n /\ n \notin bad
      BY <1>1, <2>2
    <3> HIDE DEF Good
    <3>2. QED
      BY <3>1
  <2>4. /\ Injected(marking, a) \in OrderedMarking
        /\ \A p \in Place : Injected(marking, a)[p] = marking[p] \o PlacedUpTo(a, p, n)
    BY <1>10, InjectedIs DEF s
  <2>5. W[L + n] = Injected(marking, a)
    <3>1. W[L + n] \in OrderedMarking
      BY <2>3
    <3>2. \A p \in Place : W[L + n][p] = Injected(marking, a)[p]
      BY <2>3, <2>4
    <3>3. QED
      BY <2>4, <3>1, <3>2 DEF OrderedMarking
  <2>6. \A k \in 1..Len(r) : FitsTheNet(W[L + k - 1], r[k])
    BY <1>2, <1>4 DEF FitsTheNet, IsCompleted
  <2>7. QED
    BY <1>3, <1>4, <2>5, <2>6, RecordsAreWalked DEF w, W, L
<1>11. QED
  BY <1>1, <1>9, <1>10

LEMMA NextIsWalked ==
  ASSUME ComputedHasItsType, Accepting(marking), Counting, TapeIsTheRun, [Next]_vars
  PROVE  TapeIsTheRun'
<1>1. tape \in Seq(Elements(tape)) /\ marking \in OrderedMarking
  BY DEF Counting, Accepting
<1>2. CASE UNCHANGED <<marking, tape>>
  BY <1>2 DEF TapeIsTheRun
<1>3. ASSUME NEW e, e.kind # "injection", ~IsCompleted(e),
             tape' = Append(tape, e), UNCHANGED marking
      PROVE  TapeIsTheRun'
  BY <1>1, <1>3, FailureIsWalked, RecordIsWalked
<1>4. QED
  BY <1>1, <1>2, <1>3, StepsAre, CompletionIsWalked, ArrivalIsWalked

(* The records and the net alone give every marking of every run back,     *)
(* token by token and in order, whatever the net, also where exceptions    *)
(* and refused injections lie between the records.                         *)
THEOREM TapeTellsTheRun ==
  ASSUME ComputedHasItsType
  PROVE  Spec => []TapeIsTheRun
<1>1. Init => TapeIsTheRun /\ Accepting(marking)
  <2> SUFFICES ASSUME Init PROVE TapeIsTheRun /\ Accepting(marking)
    OBVIOUS
  <2>1. tape = <<>> /\ marking = InitialMarking
    BY DEF Init
  <2>2. Len(<<>>) = 0 /\ DOMAIN <<>> = {}
    OBVIOUS
  <2>3. Walked(<<>>)[0] = InitialMarking
    BY <2>2, WalkedSteps
  <2>4. TapeIsTheRun
    BY <2>1, <2>2, <2>3 DEF TapeIsTheRun
  <2>5. QED
    BY <2>1, <2>4, EngineAssumption DEF Accepting, Elements
<1>2. Accepting(marking) /\ [Next]_vars => Accepting(marking)'
  BY NextAccepting
<1>3. Accepting(marking) /\ Counting /\ TapeIsTheRun /\ [Next]_vars => TapeIsTheRun'
  BY NextIsWalked
<1>4. QED
  BY <1>1, <1>2, <1>3, SpecCounting, PTL DEF Spec

-----------------------------------------------------------------------------
(* What has entered a place.                                               *)

(* The keys of a sequence's tokens depend on what it holds only.           *)
LEMMA KeysAre ==
  ASSUME NEW c, NEW s
  PROVE  KeysOf(c, s) = {c.key[v] : v \in Elements(s)}
BY DEF KeysOf, Elements

LEMMA PlacedElements ==
  ASSUME NEW a \in Arrivals, NEW p \in Place
  PROVE  \A v : v \in Elements(PlacedUpTo(a, p, Len(a.placements))) <=>
                  \E k \in 1..Len(a.placements) :
                    a.placements[k].place = p /\ a.placements[k].token = v
<1> DEFINE s == a.placements
           at == {k \in 1..Len(s) : s[k].place = p}
           new == Subsequence(s, at)
<1>1. s \in Seq(Placement) /\ Len(s) \in Nat /\ DOMAIN s = 1..Len(s)
  BY PlacementsAre
<1>2. at \in SUBSET DOMAIN s /\ \A k \in 1..Len(s) : k \in at <=> s[k].place = p
  BY <1>1
<1>3. PlacedUpTo(a, p, Len(s)) = [k \in DOMAIN new |-> new[k].token]
  BY DEF PlacedUpTo
<1> HIDE DEF at
<1>4. /\ new \in Seq(Placement) /\ Len(new) = Cardinality(at) /\ Cardinality(at) \in Nat
      /\ \A i \in at : Rank(at, i) \in 1..Cardinality(at) /\ new[Rank(at, i)] = s[i]
      /\ \A n \in 1..Cardinality(at) : \E i \in at : new[n] = s[i]
  BY <1>1, <1>2, SubsequenceAt
<1> HIDE DEF new
<1>5. DOMAIN new = 1..Cardinality(at)
  BY <1>4
<1>6. ASSUME NEW v
      PROVE  (\E n \in DOMAIN new : new[n].token = v) <=> \E k \in at : s[k].token = v
  BY <1>4, <1>5
<1>7. \A v : v \in Elements([k \in DOMAIN new |-> new[k].token]) <=>
               \E n \in DOMAIN new : new[n].token = v
  BY DEF Elements
<1>8. at \subseteq 1..Len(s)
  BY <1>1, <1>2
<1>9. QED
  BY <1>2, <1>3, <1>6, <1>7, <1>8

LEMMA EntriesGrow ==
  ASSUME NEW S, NEW s \in Seq(S), NEW u \in Seq(S), NEW c
  PROVE  \A x : x \in Entered(c, s \o u) <=>
                  \/ x \in Entered(c, s)
                  \/ \E k \in 1..Len(u) : x \in NewEntries(c, u[k])
<1> DEFINE w == s \o u
<1>1. /\ Len(s) \in Nat /\ Len(u) \in Nat
      /\ DOMAIN s = 1..Len(s) /\ DOMAIN w = 1..(Len(s) + Len(u))
      /\ \A k \in 1..Len(s) : w[k] = s[k]
      /\ \A k \in 1..Len(u) : w[Len(s) + k] = u[k]
  OBVIOUS
<1> HIDE DEF w
<1>2. ASSUME NEW x
      PROVE  (\E i \in DOMAIN w : x \in NewEntries(c, w[i])) <=>
               \/ \E i \in DOMAIN s : x \in NewEntries(c, s[i])
               \/ \E k \in 1..Len(u) : x \in NewEntries(c, u[k])
  <2>1. ASSUME NEW i \in DOMAIN w, x \in NewEntries(c, w[i])
        PROVE  \/ \E j \in DOMAIN s : x \in NewEntries(c, s[j])
               \/ \E k \in 1..Len(u) : x \in NewEntries(c, u[k])
    <3>1. CASE i <= Len(s)
      <4>1. i \in 1..Len(s)
        BY <1>1, <3>1
      <4>2. QED
        BY <1>1, <2>1, <4>1
    <3>2. CASE ~(i <= Len(s))
      <4>1. i - Len(s) \in 1..Len(u) /\ Len(s) + (i - Len(s)) = i
        BY <1>1, <3>2
      <4>2. w[i] = u[i - Len(s)]
        BY <1>1, <4>1
      <4>3. QED
        BY <2>1, <4>1, <4>2
    <3>3. QED
      BY <3>1, <3>2
  <2>2. \A i \in DOMAIN s : i \in DOMAIN w /\ w[i] = s[i]
    BY <1>1
  <2>3. \A k \in 1..Len(u) : Len(s) + k \in DOMAIN w /\ w[Len(s) + k] = u[k]
    BY <1>1
  <2>4. QED
    BY <2>1, <2>2, <2>3
<1>3. \A r, x : x \in Entered(c, r) <=>
                  \/ x \in KeysOf(c, InitialMarking[c.place])
                  \/ \E i \in DOMAIN r : x \in NewEntries(c, r[i])
  BY DEF Entered
<1>4. QED
  BY <1>2, <1>3 DEF w

(* One more record.                                                        *)
LEMMA RecordEnters ==
  ASSUME tape \in Seq(Elements(tape)), NEW e, NEW c
  PROVE  Entered(c, Append(tape, e)) = Entered(c, tape) \cup NewEntries(c, e)
<1> DEFINE S == Elements(tape) \cup {e}
           u == <<e>>
<1>1. tape \in Seq(S) /\ u \in Seq(S)
  <2>1. Elements(tape) \subseteq S /\ e \in S
    OBVIOUS
  <2> HIDE DEF S
  <2>2. QED
    BY <2>1
<1>2. /\ 1..Len(u) = {1} /\ u[1] = e
      /\ Append(tape, e) = tape \o u
  BY <1>1
<1> HIDE DEF S, u
<1>3. \A x : x \in Entered(c, tape \o u) <=>
               \/ x \in Entered(c, tape)
               \/ \E k \in 1..Len(u) : x \in NewEntries(c, u[k])
  BY <1>1, EntriesGrow
<1>4. QED
  BY <1>2, <1>3

(* Whatever is in the source of a check has entered it.                    *)
Seen == \A c \in OfScope("end") : KeysOf(c, marking[c.place]) \subseteq Entered(c, tape)

LEMMA StepIsSeen ==
  ASSUME ComputedHasItsType, Accepting(marking), Counting, Seen, [Next]_vars,
         NEW c \in OfScope("end")
  PROVE  Entered(c, tape') = Entered(c, tape) \cup KeysOf(c, marking'[c.place])
<1> DEFINE p == c.place
<1>1. /\ p \in Place /\ KeysOf(c, marking[p]) \subseteq Entered(c, tape)
      /\ tape \in Seq(Elements(tape)) /\ marking \in OrderedMarking
      /\ marking[p] \in Seq(Token)
  BY CheckAssumption DEF OfScope, Seen, Counting, Accepting, OrderedMarking
<1> HIDE DEF p
<1>2. CASE UNCHANGED <<marking, tape>>
  BY <1>1, <1>2 DEF p
<1>3. ASSUME NEW e, e.kind # "injection", ~IsCompleted(e),
             tape' = Append(tape, e), UNCHANGED marking
      PROVE  Entered(c, tape') = Entered(c, tape) \cup KeysOf(c, marking'[p])
  <2>1. NewEntries(c, e) = {}
    BY <1>3 DEF NewEntries
  <2>2. Entered(c, tape') = Entered(c, tape) \cup NewEntries(c, e)
    BY <1>1, <1>3, RecordEnters
  <2>3. QED
    BY <1>1, <1>3, <2>1, <2>2
<1>4. ASSUME NEW t \in Transition, NEW attempt, Completes(t, attempt)
      PROVE  Entered(c, tape') = Entered(c, tape) \cup KeysOf(c, marking'[p])
  <2>1. PICK b \in SelectBinding(t, marking, attempt), out \in Outputs[t] :
          /\ ~BreaksContract(t, out, b.tokens)
          /\ marking' = ApplyDeposit(ConsumeTokens(marking, b.consumed),
                                     Deposited(t, out, b.tokens))
          /\ Record(FiringRecord(t, attempt, "none", b.tokens,
                                 Deposited(t, out, b.tokens)))
    BY <1>4 DEF Completes
  <2>2. b.tokens \in OrderedMarking /\ b.consumed \in OrderedMarking
    BY <1>1, SelectedIsViable
  <2> DEFINE d == Deposited(t, out, b.tokens)
             e == FiringRecord(t, attempt, "none", b.tokens, d)
             left == RemoveEach(marking[p], b.consumed[p])
  <2>3. Accepting(d)
    BY <2>1, <2>2, DepositIsAccepted
  <2>4. /\ e.kind = "firing" /\ e.error = "none" /\ e.output = d
        /\ tape' = Append(tape, e)
    BY <2>1 DEF FiringRecord, Record
  <2>5. marking'[p] = left \o d[p]
    BY <1>1, <2>1 DEF ApplyDeposit, ConsumeTokens
  <2> HIDE DEF d, e
  <2>6. NewEntries(c, e) = KeysOf(c, d[p])
    BY <2>4 DEF NewEntries, IsCompleted, p
  <2>7. Entered(c, tape') = Entered(c, tape) \cup KeysOf(c, d[p])
    BY <1>1, <2>4, <2>6, RecordEnters
  <2>8. b.consumed[p] \in Seq(Token) /\ d[p] \in Seq(Token)
    BY <1>1, <2>2, <2>3 DEF Accepting, OrderedMarking
  <2>9. left \in Seq(Token) /\ Elements(left) \subseteq Elements(marking[p])
    BY <1>1, <2>8, RemoveEachCounts
  <2> HIDE DEF left
  <2>10. Elements(left \o d[p]) = Elements(left) \cup Elements(d[p])
    BY <2>8, <2>9, ConcatDistinct
  <2>11. KeysOf(c, marking'[p]) = KeysOf(c, left) \cup KeysOf(c, d[p])
    BY <2>5, <2>10, KeysAre
  <2>12. KeysOf(c, left) \subseteq KeysOf(c, marking[p])
    BY <2>9, KeysAre
  <2>13. QED
    BY <1>1, <2>7, <2>11, <2>12
<1>5. ASSUME NEW a \in Arrivals, Injects(a)
      PROVE  Entered(c, tape') = Entered(c, tape) \cup KeysOf(c, marking'[p])
  <2> DEFINE s == a.placements
             n == Len(s)
             r == InjectionRecords(a)
             S == Elements(tape) \cup Elements(r)
             placed == PlacedUpTo(a, p, n)
  <2>1. /\ n \in Nat /\ DOMAIN s = 1..n /\ (a.replace => n = 1)
        /\ a.replace \in BOOLEAN
    BY PlacementsAre
  <2>2. /\ r \in [1..n -> Elements(r)]
        /\ \A k \in 1..n : /\ r[k].kind = "injection" /\ r[k].place = s[k].place
                           /\ r[k].token = s[k].token
    BY <2>1 DEF InjectionRecords, Elements
  <2>3. marking' = Injected(marking, a) /\ tape' = tape \o r
    BY <1>5 DEF Injects
  <2> HIDE DEF r
  <2>4. tape \in Seq(S) /\ r \in Seq(S) /\ Len(r) = n
    <3>1. Elements(tape) \subseteq S /\ Elements(r) \subseteq S
      OBVIOUS
    <3> HIDE DEF S
    <3>2. r \in [1..n -> S]
      BY <2>2, <3>1
    <3>3. QED
      BY <1>1, <2>1, <3>1, <3>2
  <2> HIDE DEF S
  <2>5. ASSUME NEW x
        PROVE  (\E k \in 1..n : x \in NewEntries(c, r[k])) <=> x \in KeysOf(c, placed)
    <3>1. ASSUME NEW k \in 1..n
          PROVE  x \in NewEntries(c, r[k]) <=> s[k].place = p /\ x = c.key[s[k].token]
      <4>1. \A v : KeysOf(c, <<v>>) = {c.key[v]}
        <5>1. \A v : Elements(<<v>>) = {v}
          BY DEF Elements
        <5>2. QED
          BY <5>1, KeysAre
      <4>2. r[k].kind = "injection" /\ r[k].place = s[k].place /\ r[k].token = s[k].token
        BY <2>2
      <4>3. NewEntries(c, r[k]) = IF r[k].place = c.place THEN KeysOf(c, <<r[k].token>>) ELSE {}
        BY <4>2 DEF NewEntries, IsCompleted
      <4>4. QED
        BY <4>1, <4>2, <4>3 DEF p
    <3>2. \A v : v \in Elements(placed) <=> \E k \in 1..n : s[k].place = p /\ s[k].token = v
      BY <1>1, PlacedElements
    <3>3. x \in KeysOf(c, placed) <=> \E v \in Elements(placed) : x = c.key[v]
      BY KeysAre
    <3> HIDE DEF placed, n, s
    <3>4. QED
      BY <3>1, <3>2, <3>3
  <2>6. \A x : x \in Entered(c, tape') <=> x \in Entered(c, tape) \/ x \in KeysOf(c, placed)
    <3>1. \A x : x \in Entered(c, tape \o r) <=>
                   \/ x \in Entered(c, tape)
                   \/ \E k \in 1..Len(r) : x \in NewEntries(c, r[k])
      BY <2>4, EntriesGrow
    <3>2. QED
      BY <2>3, <2>4, <2>5, <3>1
  <2>7. /\ KeysOf(c, placed) \subseteq KeysOf(c, marking'[p])
        /\ KeysOf(c, marking'[p]) \subseteq KeysOf(c, marking[p]) \cup KeysOf(c, placed)
    <3>1. CASE ~a.replace
      <4>1. marking'[p] = marking[p] \o placed
        BY <1>1, <2>3, <3>1, InjectedIs
      <4>2. placed \in Seq(Token)
        <5>1. n \in 0..n
          BY <2>1
        <5>2. QED
          BY <1>1, <5>1, PlacedGrows
      <4> HIDE DEF placed
      <4>3. Elements(marking'[p]) = Elements(marking[p]) \cup Elements(placed)
        BY <1>1, <4>1, <4>2, ConcatDistinct
      <4>4. QED
        BY <4>3, KeysAre
    <3>2. CASE a.replace
      <4>1. marking'[p] = IF p = s[1].place THEN <<s[1].token>> ELSE marking[p]
        BY <1>1, <2>3, <3>2, InjectedIs
      <4>2. \A v : v \in Elements(placed) <=> s[1].place = p /\ s[1].token = v
        <5>1. 1..n = {1}
          BY <2>1, <3>2
        <5>2. \A v : v \in Elements(placed) <=> \E k \in 1..n : s[k].place = p /\ s[k].token = v
          BY <1>1, PlacedElements
        <5> HIDE DEF placed, n, s
        <5>3. QED
          BY <5>1, <5>2
      <4>3. Elements(<<s[1].token>>) = {s[1].token}
        BY DEF Elements
      <4> HIDE DEF placed, n, s
      <4>4. CASE s[1].place = p
        <5>1. Elements(marking'[p]) = Elements(placed)
          BY <4>1, <4>2, <4>3, <4>4
        <5>2. QED
          BY <5>1, KeysAre
      <4>5. CASE s[1].place # p
        <5>1. Elements(placed) = {} /\ marking'[p] = marking[p]
          BY <4>1, <4>2, <4>5
        <5>2. KeysOf(c, placed) = {}
          BY <5>1, KeysAre
        <5>3. QED
          BY <5>1, <5>2
      <4>6. QED
        BY <4>4, <4>5
    <3>3. QED
      BY <3>1, <3>2
  <2>8. QED
    BY <1>1, <2>6, <2>7
<1>6. QED
  BY <1>2, <1>3, <1>4, <1>5, StepsAre DEF p

(* What the records note as having entered a place is what was ever in the *)
(* engine's marking there, no more and no less, whatever the net: nothing  *)
(* gets in unnoticed, and nothing is noted that did not get in.            *)
THEOREM EntriesAreWhatWasSeen ==
  ASSUME ComputedHasItsType
  PROVE  Spec => EntriesAreSeen
<1> DEFINE Told == \A c \in OfScope("end") :
                     Entered(c, tape') = Entered(c, tape) \cup KeysOf(c, marking'[c.place])
<1>1. Init => Accepting(marking) /\ Seen
  <2> SUFFICES ASSUME Init PROVE Accepting(marking) /\ Seen
    OBVIOUS
  <2>1. marking = InitialMarking
    BY DEF Init
  <2>2. QED
    BY <2>1, EngineAssumption DEF Accepting, Elements, Seen, Entered
<1>2. Accepting(marking) /\ [Next]_vars => Accepting(marking)'
  BY NextAccepting
<1>3. Accepting(marking) /\ Counting /\ Seen /\ [Next]_vars => Told
  BY StepIsSeen
<1>4. Told => Seen'
  BY DEF Seen
<1>5. QED
  BY <1>1, <1>2, <1>3, <1>4, SpecCounting, PTL DEF Spec, EntriesAreSeen
-----------------------------------------------------------------------------
(* The report.                                                             *)

OfMarking(r, f) ==
  \E c \in OfScope("always"), k \in 0..Len(r) :
    f \in AtMarking(c, Walked(r), k)

OfFiring(r, f) ==
  \E c \in OfScope("firing"), k \in DOMAIN r :
    f \in AtFiring(c, r, k)

OfQuiescence(m, f) ==
  \E c \in OfScope("quiescence") : f \in Findings(c, {}, Offences(c, m))

LEMMA FindingsAre ==
  ASSUME NEW c, NEW step, NEW keys, NEW f
  PROVE  /\ f \in Findings(c, step, keys) <=>
              \E k \in keys : f = [check |-> c, step |-> step, key |-> k]
         /\ f \in Findings(c, step, keys) => f.check = c /\ f.step = step
BY DEF Findings

LEMMA ReportIs ==
  ASSUME NEW r, NEW f
  PROVE  /\ f \in Report(r) <=>
              \/ OfMarking(r, f) \/ OfFiring(r, f) \/ OfQuiescence(Walked(r)[Len(r)], f)
              \/ \E c \in OfScope("end") :
                   f \in Findings(c, {}, Unreached(c, r, Walked(r)[Len(r)]))
         /\ OfMarking(r, f) => f.check.scope = "always"
         /\ OfFiring(r, f) => f.check.scope = "firing"
         /\ OfQuiescence(Walked(r)[Len(r)], f) => f.check.scope = "quiescence"
         /\ (\E c \in OfScope("end") :
               f \in Findings(c, {}, Unreached(c, r, Walked(r)[Len(r)]))) =>
              f.check.scope = "end"
<1>1. f \in Always(r) <=> OfMarking(r, f)
  BY DEF Always, OfMarking
<1>2. f \in Firings(r) <=> OfFiring(r, f)
  BY DEF Firings, OfFiring
<1>3. \A final : f \in AtQuiescence(final) <=> OfQuiescence(final, f)
  BY DEF AtQuiescence, OfQuiescence
<1>4. \A final : f \in AtEnd(r, final) <=>
                   \E c \in OfScope("end") : f \in Findings(c, {}, Unreached(c, r, final))
  BY DEF AtEnd
<1>5. \A scope, c, step, keys :
        c \in OfScope(scope) /\ f \in Findings(c, step, keys) => f.check.scope = scope
  BY FindingsAre DEF OfScope
<1>6. QED
  <2>1. f \in Report(r) <=>
          \/ OfMarking(r, f) \/ OfFiring(r, f) \/ OfQuiescence(Walked(r)[Len(r)], f)
          \/ \E c \in OfScope("end") :
               f \in Findings(c, {}, Unreached(c, r, Walked(r)[Len(r)]))
    BY <1>1, <1>2, <1>3, <1>4 DEF Report
  <2>2. QED
    BY <1>5, <2>1 DEF OfMarking, OfFiring, OfQuiescence, AtMarking, AtFiring

(* What is said of the steps so far stays said, and no more of them.       *)
LEMMA SaidStays ==
  ASSUME NEW S, NEW s \in Seq(S), NEW u \in Seq(S), NEW f
  PROVE  (OfMarking(s \o u, f) \/ OfFiring(s \o u, f)) /\ f.step \subseteq DOMAIN s <=>
           OfMarking(s, f) \/ OfFiring(s, f)
<1> DEFINE w == s \o u
<1>1. /\ Len(s) \in Nat /\ Len(u) \in Nat /\ Len(w) = Len(s) + Len(u)
      /\ DOMAIN s = 1..Len(s) /\ DOMAIN w = 1..(Len(s) + Len(u))
      /\ \A k \in 1..Len(s) : w[k] = s[k]
  OBVIOUS
<1>2. \A k \in 0..Len(s) : Walked(w)[k] = Walked(s)[k]
  BY WalkedGrows
<1> HIDE DEF w
<1>3. 0..Len(s) \subseteq 0..Len(w) /\ DOMAIN s \subseteq DOMAIN w
  BY <1>1
<1>4. OfMarking(w, f) /\ f.step \subseteq DOMAIN s <=> OfMarking(s, f)
  <2>1. ASSUME NEW c \in OfScope("always"), NEW k \in 0..Len(w),
               f \in AtMarking(c, Walked(w), k),
               f.step \subseteq DOMAIN s
        PROVE  OfMarking(s, f)
    <3>1. f.step = {k} \ {0}
      BY <2>1, FindingsAre DEF AtMarking
    <3>2. k \in 0..Len(s)
      BY <1>1, <2>1, <3>1
    <3>3. QED
      BY <1>2, <2>1, <3>2 DEF OfMarking, AtMarking
  <2>2. ASSUME NEW c \in OfScope("always"), NEW k \in 0..Len(s),
               f \in AtMarking(c, Walked(s), k)
        PROVE  OfMarking(w, f) /\ f.step \subseteq DOMAIN s
    <3>1. f.step = {k} \ {0}
      BY <2>2, FindingsAre DEF AtMarking
    <3>2. k # 0 => k \in DOMAIN s
      BY <1>1
    <3>3. k \in 0..Len(w) /\ Walked(w)[k] = Walked(s)[k]
      BY <1>2, <1>3
    <3>4. QED
      BY <2>2, <3>1, <3>2, <3>3 DEF OfMarking, AtMarking
  <2>3. QED
    BY <2>1, <2>2 DEF OfMarking
<1>5. OfFiring(w, f) /\ f.step \subseteq DOMAIN s <=> OfFiring(s, f)
  <2>1. ASSUME NEW c, NEW k, NEW keys, f \in Findings(c, {k}, keys)
        PROVE  f.step \subseteq DOMAIN s <=> k \in DOMAIN s
    BY <2>1, FindingsAre
  <2>2. \A k \in DOMAIN s : k \in DOMAIN w /\ w[k] = s[k]
    BY <1>1, <1>3
  <2>3. QED
    BY <2>1, <2>2 DEF OfFiring, AtFiring
<1>6. QED
  BY <1>4, <1>5 DEF w

LEMMA StepDropped ==
  ASSUME NEW c, NEW step, NEW k
  PROVE  [[check |-> c, step |-> step, key |-> k] EXCEPT !.step = {}] =
           [check |-> c, step |-> {}, key |-> k]
OBVIOUS

(* What the report says of the last step and of the end.                   *)
LEMMA SaidNow ==
  ASSUME NEW r, NEW m, Len(r) \in Nat, Len(r) # 0, Walked(r)[Len(r)] = m
  PROVE  {[f EXCEPT !.step = {}] :
            f \in {g \in Report(r) : g.check.scope = "always" /\ g.step = {Len(r)}}}
           \cup {[f EXCEPT !.step = {}] :
                   f \in {g \in Report(r) : g.check.scope = "quiescence" /\ g.step = {}}}
           = MarkingReport(m)
<1> DEFINE n == Len(r)
           Last == {g \in Report(r) : g.check.scope = "always" /\ g.step = {n}}
           End == {g \in Report(r) : g.check.scope = "quiescence" /\ g.step = {}}
           At(scope, step) == UNION {Findings(c, step, Offences(c, m)) : c \in OfScope(scope)}
<1>1. Last = At("always", {n})
  <2>1. ASSUME NEW g \in Last PROVE g \in At("always", {n})
    <3>1. OfMarking(r, g) /\ g.step = {n}
      BY ReportIs
    <3>2. PICK c \in OfScope("always"), k \in 0..n :
            g \in AtMarking(c, Walked(r), k)
      BY <3>1 DEF OfMarking
    <3>3. {n} = {k} \ {0}
      BY <3>1, <3>2, FindingsAre DEF AtMarking
    <3>4. k = n
      BY <3>3
    <3>5. QED
      BY <3>2, <3>3, <3>4 DEF AtMarking
  <2>2. ASSUME NEW g \in At("always", {n}) PROVE g \in Last
    <3>1. PICK c \in OfScope("always") : g \in Findings(c, {n}, Offences(c, m))
      OBVIOUS
    <3>2. n \in 0..n /\ {n} = {n} \ {0}
      OBVIOUS
    <3>3. OfMarking(r, g)
      BY <3>1, <3>2 DEF OfMarking, AtMarking
    <3>4. g.step = {n}
      BY <3>1, FindingsAre
    <3>5. QED
      BY <3>3, <3>4, ReportIs
  <2>3. QED
    BY <2>1, <2>2
<1>2. End = At("quiescence", {})
  <2>1. ASSUME NEW g \in End PROVE g \in At("quiescence", {})
    <3>1. OfQuiescence(m, g)
      BY ReportIs
    <3>2. QED
      BY <3>1 DEF OfQuiescence
  <2>2. ASSUME NEW g \in At("quiescence", {}) PROVE g \in End
    <3>1. PICK c \in OfScope("quiescence") : g \in Findings(c, {}, Offences(c, m))
      OBVIOUS
    <3>2. OfQuiescence(m, g)
      BY <3>1 DEF OfQuiescence
    <3>3. g.step = {}
      BY <3>1, FindingsAre
    <3>4. QED
      BY <3>2, <3>3, ReportIs
  <2>3. QED
    BY <2>1, <2>2
<1> HIDE DEF Last, End
<1>3. ASSUME NEW scope, NEW step
      PROVE  {[f EXCEPT !.step = {}] : f \in At(scope, step)} = At(scope, {})
  <2> DEFINE Found(c, s, k) == [check |-> c, step |-> s, key |-> k]
             Dropped(f) == [f EXCEPT !.step = {}]
  <2>1. \A s, f : f \in At(scope, s) <=>
           \E c \in OfScope(scope) : \E k \in Offences(c, m) : f = Found(c, s, k)
    <3>1. \A s, f : f \in At(scope, s) <=>
             \E c \in OfScope(scope) : f \in Findings(c, s, Offences(c, m))
      OBVIOUS
    <3> HIDE DEF At
    <3>2. QED
      BY <3>1, FindingsAre
  <2>2. \A c, s, k : Dropped(Found(c, s, k)) = Found(c, {}, k)
    BY StepDropped
  <2> HIDE DEF At, Dropped, Found
  <2>3. \A x : x \in {Dropped(f) : f \in At(scope, step)} <=> x \in At(scope, {})
    <3>1. ASSUME NEW f \in At(scope, step) PROVE Dropped(f) \in At(scope, {})
      BY <2>1, <2>2
    <3>2. ASSUME NEW x \in At(scope, {}) PROVE \E f \in At(scope, step) : x = Dropped(f)
      <4>1. PICK c \in OfScope(scope) : \E k \in Offences(c, m) : x = Found(c, {}, k)
        BY <2>1
      <4>2. PICK k \in Offences(c, m) : x = Found(c, {}, k)
        BY <4>1
      <4>3. Found(c, step, k) \in At(scope, step) /\ x = Dropped(Found(c, step, k))
        BY <2>1, <2>2, <4>2
      <4>4. QED
        BY <4>3
    <3>3. QED
      BY <3>1, <3>2
  <2>4. {Dropped(f) : f \in At(scope, step)} = At(scope, {})
    BY <2>3
  <2>5. QED
    BY <2>4 DEF Dropped
<1>4. MarkingReport(m) = At("always", {}) \cup At("quiescence", {})
  BY DEF MarkingReport
<1> HIDE DEF At
<1>5. QED
  BY <1>1, <1>2, <1>3, <1>4 DEF Last, End

(* A tape only grows at its end.                                           *)
LEMMA TapeGrows ==
  ASSUME tape \in Seq(Elements(tape)), [Next]_vars
  PROVE  \E S, u : tape \in Seq(S) /\ u \in Seq(S) /\ tape' = tape \o u
<1>1. CASE UNCHANGED tape
  <2>1. <<>> \in Seq(Elements(tape)) /\ tape \o <<>> = tape
    BY ConcatEmptySeq
  <2>2. QED
    BY <1>1, <2>1
<1>2. ASSUME NEW e, tape' = Append(tape, e)
      PROVE  \E S, u : tape \in Seq(S) /\ u \in Seq(S) /\ tape' = tape \o u
  <2> DEFINE S == Elements(tape) \cup {e}
  <2>1. Elements(tape) \subseteq S /\ e \in S
    OBVIOUS
  <2> HIDE DEF S
  <2>2. tape \in Seq(S) /\ <<e>> \in Seq(S)
    BY <2>1
  <2>3. Append(tape, e) = tape \o <<e>>
    BY <2>2
  <2>4. QED
    BY <1>2, <2>2, <2>3
<1>3. ASSUME NEW a \in Arrivals, Injects(a)
      PROVE  \E S, u : tape \in Seq(S) /\ u \in Seq(S) /\ tape' = tape \o u
  <2> DEFINE r == InjectionRecords(a)
             n == Len(a.placements)
             S == Elements(tape) \cup Elements(r)
  <2>1. n \in Nat /\ DOMAIN a.placements = 1..n
    BY PlacementsAre
  <2>2. r \in [1..n -> Elements(r)]
    BY <2>1 DEF InjectionRecords, Elements
  <2>3. tape' = tape \o r
    BY <1>3 DEF Injects
  <2>4. Elements(tape) \subseteq S /\ Elements(r) \subseteq S
    OBVIOUS
  <2> HIDE DEF r, S
  <2>5. r \in [1..n -> S]
    BY <2>2, <2>4
  <2>6. r \in Seq(S) /\ tape \in Seq(S)
    BY <2>1, <2>4, <2>5
  <2>7. QED
    BY <2>3, <2>6
<1>4. ASSUME NEW t \in Transition, NEW attempt, Completes(t, attempt)
      PROVE  \E e : tape' = Append(tape, e)
  BY <1>4 DEF Completes, Record
<1>5. QED
  BY <1>1, <1>2, <1>3, <1>4, StepsAre

(* The report on a growing tape grows at its end, and there it says of the *)
(* engine's marking what check_marking would, whatever the net and the     *)
(* checks.                                                                 *)
THEOREM ReportFollows ==
  ASSUME ComputedHasItsType
  PROVE  Spec => ReportFollowsTheRun
<1> DEFINE said(records) == {f \in Report(records) : f.check.scope \in {"always", "firing"}}
           now(scope, step) == {[f EXCEPT !.step = {}] :
                                  f \in {g \in Report(tape') :
                                           g.check.scope = scope /\ g.step = step}}
           Kept == {f \in said(tape') : f.step \subseteq DOMAIN tape} = said(tape)
           Current == now("always", {Len(tape')}) \cup now("quiescence", {}) =
                        MarkingReport(marking')
<1>1. ASSUME Counting, Counting', TapeIsTheRun', [Next]_vars, tape' # tape
      PROVE  Kept /\ Current
  <2>1. tape \in Seq(Elements(tape)) /\ tape' \in Seq(Elements(tape'))
    BY <1>1 DEF Counting
  <2>2. PICK S, u : tape \in Seq(S) /\ u \in Seq(S) /\ tape' = tape \o u
    BY <1>1, <2>1, TapeGrows
  <2>3. Len(tape') \in Nat /\ Len(tape') # 0
    <3>1. Len(tape) \in Nat /\ Len(tape') = Len(tape) + Len(u) /\ Len(u) \in Nat
      BY <2>2
    <3>2. Len(u) # 0
      <4>1. Len(u) = 0 => u = <<>>
        BY <2>2
      <4>2. u # <<>>
        BY <1>1, <2>2, ConcatEmptySeq
      <4>3. QED
        BY <4>1, <4>2
    <3>3. QED
      BY <3>1, <3>2
  <2>4. \A r, f : f \in said(r) <=> OfMarking(r, f) \/ OfFiring(r, f)
    BY ReportIs
  <2>5. Kept
    <3>1. ASSUME NEW f
          PROVE  f \in said(tape') /\ f.step \subseteq DOMAIN tape <=> f \in said(tape)
      <4>1. (OfMarking(tape', f) \/ OfFiring(tape', f)) /\ f.step \subseteq DOMAIN tape <=>
              OfMarking(tape, f) \/ OfFiring(tape, f)
        BY <2>2, SaidStays
      <4> HIDE DEF said
      <4>2. QED
        BY <2>4, <4>1
    <3> HIDE DEF said
    <3>2. QED
      BY <3>1
  <2>6. Walked(tape')[Len(tape')] = marking'
    BY <1>1 DEF TapeIsTheRun
  <2>7. Current
    BY <2>3, <2>6, SaidNow
  <2>8. QED
    BY <2>5, <2>7
<1>2. Kept /\ Current <=>
        LET keeps(records) == {f \in Report(records) : f.check.scope \in {"always", "firing"}}
            says(scope, step) == {[f EXCEPT !.step = {}] :
                                    f \in {g \in Report(tape') :
                                             g.check.scope = scope /\ g.step = step}}
        IN  /\ {f \in keeps(tape') : f.step \subseteq DOMAIN tape} = keeps(tape)
            /\ says("always", {Len(tape')}) \cup says("quiescence", {}) =
                 MarkingReport(marking')
  OBVIOUS
<1> HIDE DEF Kept, Current
<1>3. Counting /\ Counting' /\ TapeIsTheRun' /\ [Next]_vars => (tape' # tape => Kept /\ Current)
  BY <1>1
<1>4. QED
  BY <1>2, <1>3, SpecCounting, TapeTellsTheRun, PTL DEF Spec, ReportFollowsTheRun
=============================================================================
