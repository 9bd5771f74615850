--------------------------- MODULE DocumentProofs ---------------------------
(***************************************************************************)
(* Proofs about the compiler of net documents: that no fact is lost unless *)
(* the aggregate is refused, that a resolved handle points at the arc its  *)
(* chain wrote, that a net is refused without a diagnostic exactly for the *)
(* four faults the compiler does not read, and that nets with one account  *)
(* mean the same.  They rest on one inductive invariant, DocumentInv,      *)
(* which says what the tables tell of the statements written so far; the   *)
(* third also on Filled, which says which names in them may be empty.      *)
(***************************************************************************)
EXTENDS DocumentLaws, SubsequenceProofs

-----------------------------------------------------------------------------
(* Sequences.                                                               *)

(* The set the community modules make of a sequence is that of its elements.*)
LEMMA ToSetIsElements ==
  ASSUME NEW s
  PROVE  Seqs!ToSet(s) = Elements(s)
BY DEF Seqs!ToSet, Elements

(* Sequences put one after the other grow by one of them at a time.        *)
LEMMA FlattenedUnfolds ==
  ASSUME NEW S, NEW ss \in Seq(Seq(S))
  PROVE  \E g : /\ g[0] = <<>>
                /\ \A k \in 1..Len(ss) : g[k] = g[k - 1] \o ss[k]
                /\ Seqs!FlattenSeq(ss) = g[Len(ss)]
<1> DEFINE n == Len(ss)
           X == Seq(S)
           step == [k \in 1..n |-> [y \in X |-> y \o ss[k]]]
           Is(f) == f = [i \in 1..n |-> IF i = 1 THEN ss[i] ELSE f[i - 1] \o ss[i]]
           f == CHOOSE g : Is(g)
<1>1. n \in Nat /\ DOMAIN ss = 1..n /\ \A k \in 1..n : ss[k] \in X
  OBVIOUS
<1>2. CASE n = 0
  <2>1. Seqs!FlattenSeq(ss) = ss
    BY <1>2 DEF Seqs!FlattenSeq
  <2>2. ss = <<>>
    BY <1>2
  <2> DEFINE g == [k \in {0} |-> <<>>]
  <2>3. g[0] = <<>>
    OBVIOUS
  <2> HIDE DEF g
  <2>4. \A k \in 1..n : g[k] = g[k - 1] \o ss[k]
    BY <1>2
  <2>5. Seqs!FlattenSeq(ss) = g[n]
    BY <1>2, <2>1, <2>2, <2>3
  <2> HIDE DEF n
  <2>6. QED
    BY <2>3, <2>4, <2>5 DEF n
<1>3. CASE n # 0
  <2>1. Seqs!FlattenSeq(ss) = f[n]
    BY <1>3 DEF Seqs!FlattenSeq
  <2>2. \A g : Is(g) <=> g = [i \in 1..n |-> IF i = 1 THEN ss[i] ELSE g[i - 1] \o ss[i]]
    OBVIOUS
  <2>3. \A k \in 1..n : \A y \in X : step[k][y] = y \o ss[k] /\ y \o ss[k] \in X
    BY <1>1
  <2>4. <<>> \in X /\ step \in [1..n -> [X -> X]]
    <3>1. \A k \in 1..n : [y \in X |-> y \o ss[k]] \in [X -> X]
      BY <1>1
    <3>2. QED
      BY <3>1
  <2>5. \A y \in X : <<>> \o y = y
    OBVIOUS
  <2> HIDE DEF n, step, Is
  <2>6. PICK g : Loops(g, X, <<>>, n, step)
    BY <1>1, <2>4, LoopExists
  <2>7. /\ g \in [0..n -> X] /\ g[0] = <<>>
        /\ \A k \in 1..n : g[k] = g[k - 1] \o ss[k]
    <3>1. /\ g \in [0..n -> X] /\ g[0] = <<>>
          /\ \A k \in 1..n : g[k] = step[k][g[k - 1]]
      BY <2>6 DEF Loops
    <3>2. \A k \in 1..n : k - 1 \in 0..n
      BY <1>1
    <3>3. QED
      BY <2>3, <3>1, <3>2
  <2> HIDE DEF X
  <2>8. Is([i \in 1..n |-> g[i]])
    <3> DEFINE h == [i \in 1..n |-> g[i]]
    <3>1. \A i \in 1..n : h[i] = IF i = 1 THEN ss[i] ELSE h[i - 1] \o ss[i]
      <4>1. SUFFICES ASSUME NEW i \in 1..n
            PROVE  h[i] = IF i = 1 THEN ss[i] ELSE h[i - 1] \o ss[i]
        OBVIOUS
      <4>2. h[i] = g[i - 1] \o ss[i]
        BY <2>7
      <4>3. CASE i = 1
        <5>1. g[i - 1] = <<>> /\ ss[i] \in X
          BY <1>1, <2>7, <4>3
        <5>2. QED
          BY <2>5, <4>2, <4>3, <5>1
      <4>4. CASE i # 1
        <5>1. i - 1 \in 1..n
          BY <1>1, <4>4
        <5>2. QED
          BY <4>2, <4>4, <5>1
      <4>5. QED
        BY <4>3, <4>4
    <3>2. h = [i \in 1..n |-> IF i = 1 THEN ss[i] ELSE h[i - 1] \o ss[i]]
      BY <3>1
    <3> HIDE DEF h
    <3>3. Is(h)
      BY <2>2, <3>2
    <3>4. QED
      BY <3>3 DEF h
  <2>9. f = [i \in 1..n |-> IF i = 1 THEN ss[i] ELSE f[i - 1] \o ss[i]]
    BY <2>2, <2>8
  <2> HIDE DEF f
  <2>10. \A i \in 1..n : f[i] = IF i = 1 THEN ss[i] ELSE f[i - 1] \o ss[i]
    BY <2>9
  <2> DEFINE u == [k \in 0..n |-> IF k = 0 THEN <<>> ELSE f[k]]
  <2>11. u[0] = <<>> /\ \A k \in 1..n : u[k] = f[k]
    BY <1>1
  <2> HIDE DEF u
  <2>12. \A k \in 1..n : u[k] = u[k - 1] \o ss[k]
    <3>1. SUFFICES ASSUME NEW k \in 1..n PROVE u[k] = u[k - 1] \o ss[k]
      OBVIOUS
    <3>2. CASE k = 1
      <4>1. f[k] = ss[k] /\ ss[k] \in X /\ u[k - 1] = <<>>
        BY <1>1, <2>10, <2>11, <3>2
      <4>2. QED
        BY <2>5, <2>11, <4>1
    <3>3. CASE k # 1
      <4>1. k - 1 \in 1..n
        BY <1>1, <3>3
      <4>2. QED
        BY <2>10, <2>11, <3>3, <4>1
    <3>4. QED
      BY <3>2, <3>3
  <2>13. u[n] = f[n]
    BY <1>1, <1>3, <2>11
  <2>14. QED
    BY <2>1, <2>11, <2>12, <2>13 DEF n
<1>4. QED
  BY <1>2, <1>3

(* The elements of the first k sequences, by sequence and position in it.   *)
Spots(ss, k) ==
  {spot \in Nat \X Nat : spot[1] \in 1..k /\ spot[2] \in DOMAIN ss[spot[1]]}

(* u holds each of them once; at tells which one stands where.              *)
LaidOut(u, ss, k, at) ==
  /\ \A q \in DOMAIN u : at[q] \in Spots(ss, k) /\ u[q] = ss[at[q][1]][at[q][2]]
  /\ \A q \in DOMAIN u, r \in DOMAIN u : at[q] = at[r] => q = r
  /\ \A spot \in Spots(ss, k) : \E q \in DOMAIN u : at[q] = spot

(* With no sequences there is nothing to lay out.                          *)
LEMMA NothingLaidOut ==
  ASSUME NEW ss PROVE LaidOut(<<>>, ss, 0, <<>>)
<1>1. Spots(ss, 0) = {}
  BY DEF Spots
<1>2. QED
  BY <1>1 DEF LaidOut

(* One sequence more is laid out after the others.                         *)
LEMMA LaidOutFurther ==
  ASSUME NEW S, NEW ss, NEW k \in Nat, NEW u \in Seq(S), NEW at,
         LaidOut(u, ss, k, at), ss[k + 1] \in Seq(S)
  PROVE  \E further : LaidOut(u \o ss[k + 1], ss, k + 1, further)
<1> DEFINE t == ss[k + 1]
           v == u \o t
           L == Len(u)
           further == [q \in DOMAIN v |-> IF q <= L THEN at[q] ELSE <<k + 1, q - L>>]
<1>1. /\ L \in Nat /\ DOMAIN u = 1..L /\ t \in Seq(S) /\ Len(t) \in Nat
      /\ DOMAIN t = 1..Len(t)
  OBVIOUS
<1>2. DOMAIN v = 1..(L + Len(t))
  BY <1>1
<1>3. /\ \A q \in DOMAIN u : q \in DOMAIN v /\ v[q] = u[q]
      /\ \A q \in DOMAIN t : q + L \in DOMAIN v /\ v[q + L] = t[q]
      /\ \A q \in DOMAIN v : q \in DOMAIN u \/ (q > L /\ q - L \in DOMAIN t /\ v[q] = t[q - L])
  BY <1>1
<1>4. /\ \A q \in DOMAIN u : further[q] = at[q]
      /\ \A q \in DOMAIN t : further[q + L] = <<k + 1, q>>
      /\ \A q \in DOMAIN v : q > L => further[q] = <<k + 1, q - L>>
  <2>1. \A q \in DOMAIN u : q <= L
    BY <1>1
  <2>2. \A q \in DOMAIN t : ~(q + L <= L) /\ (q + L) - L = q
    BY <1>1
  <2>3. \A q \in DOMAIN v : q > L => ~(q <= L)
    BY <1>1, <1>2
  <2>4. QED
    BY <1>3, <2>1, <2>2, <2>3
<1> HIDE DEF further
<1>5. \A spot : spot \in Spots(ss, k + 1) <=>
         \/ spot \in Spots(ss, k)
         \/ \E j \in DOMAIN t : spot = <<k + 1, j>>
  <2>1. \A i : i \in 1..(k + 1) <=> i \in 1..k \/ i = k + 1
    OBVIOUS
  <2>2. DOMAIN t \subseteq Nat /\ k + 1 \in Nat
    BY <1>1
  <2>3. \A spot \in Nat \X Nat : spot = <<spot[1], spot[2]>>
    OBVIOUS
  <2>4. ASSUME NEW spot, spot \in Spots(ss, k + 1)
        PROVE  spot \in Spots(ss, k) \/ \E j \in DOMAIN t : spot = <<k + 1, j>>
    BY <2>1, <2>3, <2>4 DEF Spots
  <2>5. ASSUME NEW spot, spot \in Spots(ss, k) PROVE spot \in Spots(ss, k + 1)
    BY <2>1, <2>5 DEF Spots
  <2>6. ASSUME NEW j \in DOMAIN t PROVE <<k + 1, j>> \in Spots(ss, k + 1)
    <3>1. <<k + 1, j>> \in Nat \X Nat /\ <<k + 1, j>>[1] = k + 1 /\ <<k + 1, j>>[2] = j
      BY <2>2
    <3>2. QED
      BY <2>1, <2>6, <3>1 DEF Spots
  <2>7. QED
    BY <2>4, <2>5, <2>6
<1>6. \A spot \in Spots(ss, k) : spot[1] # k + 1
  BY DEF Spots
<1>7. /\ \A q \in DOMAIN u : at[q] \in Spots(ss, k) /\ u[q] = ss[at[q][1]][at[q][2]]
      /\ \A q \in DOMAIN u, r \in DOMAIN u : at[q] = at[r] => q = r
      /\ \A spot \in Spots(ss, k) : \E q \in DOMAIN u : at[q] = spot
  BY DEF LaidOut
<1>8. \A q \in DOMAIN u, r \in DOMAIN v : further[q] = further[r] => q = r
  <2>1. SUFFICES ASSUME NEW q \in DOMAIN u, NEW r \in DOMAIN v, further[q] = further[r]
        PROVE  q = r
    OBVIOUS
  <2>2. further[q] = at[q] /\ at[q] \in Spots(ss, k)
    BY <1>4, <1>7
  <2>3. CASE r \in DOMAIN u
    BY <1>4, <1>7, <2>1, <2>3
  <2>4. CASE r \notin DOMAIN u
    <3>1. further[r] = <<k + 1, r - L>>
      BY <1>3, <1>4, <2>4
    <3>2. further[r][1] = k + 1
      BY <3>1
    <3>3. QED
      BY <1>6, <2>1, <2>2, <3>2
  <2>5. QED
    BY <2>3, <2>4
<1>9. \A q \in DOMAIN v, r \in DOMAIN v :
         q \notin DOMAIN u /\ r \notin DOMAIN u /\ further[q] = further[r] => q = r
  <2>1. SUFFICES ASSUME NEW q \in DOMAIN v, NEW r \in DOMAIN v,
                        q \notin DOMAIN u, r \notin DOMAIN u, further[q] = further[r]
        PROVE  q = r
    OBVIOUS
  <2>2. further[q] = <<k + 1, q - L>> /\ further[r] = <<k + 1, r - L>>
    BY <1>3, <1>4, <2>1
  <2>3. q - L = r - L
    <3>1. further[q][2] = q - L /\ further[r][2] = r - L
      BY <2>2
    <3>2. QED
      BY <2>1, <3>1
  <2>4. QED
    BY <1>1, <1>2, <2>3
<1>10. \A q \in DOMAIN v : /\ further[q] \in Spots(ss, k + 1)
                           /\ v[q] = ss[further[q][1]][further[q][2]]
  <2>1. SUFFICES ASSUME NEW q \in DOMAIN v
        PROVE  /\ further[q] \in Spots(ss, k + 1)
               /\ v[q] = ss[further[q][1]][further[q][2]]
    OBVIOUS
  <2>2. CASE q \in DOMAIN u
    BY <1>3, <1>4, <1>5, <1>7, <2>2
  <2>3. CASE q \notin DOMAIN u
    <3>1. further[q] = <<k + 1, q - L>> /\ q - L \in DOMAIN t /\ v[q] = t[q - L]
      BY <1>3, <1>4, <2>3
    <3>2. further[q][1] = k + 1 /\ further[q][2] = q - L
      BY <3>1
    <3>3. QED
      BY <1>5, <3>1, <3>2
  <2>4. QED
    BY <2>2, <2>3
<1>11. \A spot \in Spots(ss, k + 1) : \E q \in DOMAIN v : further[q] = spot
  <2>1. SUFFICES ASSUME NEW spot \in Spots(ss, k + 1)
        PROVE  \E q \in DOMAIN v : further[q] = spot
    OBVIOUS
  <2>2. CASE spot \in Spots(ss, k)
    BY <1>3, <1>4, <1>7, <2>2
  <2>3. CASE \E j \in DOMAIN t : spot = <<k + 1, j>>
    <3>1. PICK j \in DOMAIN t : spot = <<k + 1, j>>
      BY <2>3
    <3>2. j + L \in DOMAIN v /\ further[j + L] = <<k + 1, j>>
      BY <1>3, <1>4
    <3>3. QED
      BY <3>1, <3>2
  <2>4. QED
    BY <1>5, <2>1, <2>2, <2>3
<1>12. \A q \in DOMAIN v, r \in DOMAIN v : further[q] = further[r] => q = r
  BY <1>8, <1>9
<1> HIDE DEF v
<1>13. LaidOut(v, ss, k + 1, further)
  BY <1>10, <1>11, <1>12 DEF LaidOut
<1>14. QED
  BY <1>13 DEF v, t

(* Sequences put one after the other are laid out.                         *)
LEMMA FlattenedIsLaidOut ==
  ASSUME NEW S, NEW ss \in Seq(Seq(S))
  PROVE  /\ Seqs!FlattenSeq(ss) \in Seq(S)
         /\ \E at : LaidOut(Seqs!FlattenSeq(ss), ss, Len(ss), at)
<1>1. PICK g : /\ g[0] = <<>>
               /\ \A k \in 1..Len(ss) : g[k] = g[k - 1] \o ss[k]
               /\ Seqs!FlattenSeq(ss) = g[Len(ss)]
  BY FlattenedUnfolds
<1>2. Len(ss) \in Nat /\ \A k \in 1..Len(ss) : ss[k] \in Seq(S)
  OBVIOUS
<1> DEFINE Good(k) == g[k] \in Seq(S) /\ \E at : LaidOut(g[k], ss, k, at)
<1>3. Good(0)
  <2>1. LaidOut(g[0], ss, 0, <<>>)
    BY <1>1, NothingLaidOut
  <2>2. g[0] \in Seq(S)
    BY <1>1
  <2>3. QED
    BY <2>1, <2>2
<1>4. ASSUME NEW k \in Nat, k + 1 \in 1..Len(ss), Good(k)
      PROVE  Good(k + 1)
  <2>1. g[k + 1] = g[k] \o ss[k + 1]
    <3>1. (k + 1) - 1 = k
      OBVIOUS
    <3>2. QED
      BY <1>1, <1>4, <3>1
  <2>2. PICK at : LaidOut(g[k], ss, k, at)
    BY <1>4
  <2>3. g[k] \in Seq(S) /\ ss[k + 1] \in Seq(S)
    BY <1>2, <1>4
  <2>4. \E further : LaidOut(g[k] \o ss[k + 1], ss, k + 1, further)
    BY <2>2, <2>3, LaidOutFurther
  <2>5. g[k] \o ss[k + 1] \in Seq(S)
    BY <2>3
  <2>6. QED
    BY <2>1, <2>4, <2>5
<1> HIDE DEF Good
<1> DEFINE bad == {k \in 0..Len(ss) : ~Good(k)}
<1>5. ASSUME bad # {} PROVE FALSE
  <2>1. PICK k \in bad : \A j \in bad : k <= j
    <3>1. bad \in SUBSET Nat
      OBVIOUS
    <3> HIDE DEF bad
    <3>2. QED
      BY <1>5, <3>1, LeastNatural
  <2>2. k \in 0..Len(ss) /\ k # 0
    BY <1>3, <2>1
  <2>3. PICK l \in Nat : k = l + 1
    <3>1. k - 1 \in Nat /\ k = (k - 1) + 1
      BY <1>2, <2>2
    <3>2. QED
      BY <3>1
  <2>4. l \in 0..Len(ss) /\ l + 1 \in 1..Len(ss) /\ l \notin bad
    BY <1>2, <2>1, <2>2, <2>3
  <2>5. Good(l + 1)
    BY <1>4, <2>4
  <2>6. QED
    BY <2>1, <2>3, <2>5
<1>6. Good(Len(ss))
  BY <1>2, <1>5
<1>7. QED
  BY <1>1, <1>6 DEF Good

(* The elements of sequences put one after the other are theirs.           *)
LEMMA FlattenedElements ==
  ASSUME NEW S, NEW ss \in Seq(Seq(S))
  PROVE  /\ Seqs!FlattenSeq(ss) \in Seq(S)
         /\ Elements(Seqs!FlattenSeq(ss)) = UNION {Elements(ss[i]) : i \in DOMAIN ss}
<1> DEFINE u == Seqs!FlattenSeq(ss)
<1>1. PICK at : LaidOut(u, ss, Len(ss), at)
  BY FlattenedIsLaidOut
<1>2. u \in Seq(S) /\ DOMAIN ss = 1..Len(ss) /\ \A i \in DOMAIN ss : DOMAIN ss[i] \subseteq Nat
  BY FlattenedIsLaidOut
<1>3. /\ \A q \in DOMAIN u : at[q] \in Spots(ss, Len(ss)) /\ u[q] = ss[at[q][1]][at[q][2]]
      /\ \A spot \in Spots(ss, Len(ss)) : \E q \in DOMAIN u : at[q] = spot
  BY <1>1 DEF LaidOut
<1> HIDE DEF u
<1>4. \A spot \in Spots(ss, Len(ss)) : spot[1] \in DOMAIN ss /\ spot[2] \in DOMAIN ss[spot[1]]
  BY <1>2 DEF Spots
<1>5. \A i \in DOMAIN ss : \A j \in DOMAIN ss[i] : \E q \in DOMAIN u : u[q] = ss[i][j]
  <2>1. SUFFICES ASSUME NEW i \in DOMAIN ss, NEW j \in DOMAIN ss[i]
        PROVE  \E q \in DOMAIN u : u[q] = ss[i][j]
    OBVIOUS
  <2>2. i \in Nat /\ j \in Nat
    BY <1>2
  <2>3. <<i, j>> \in Spots(ss, Len(ss)) /\ <<i, j>>[1] = i /\ <<i, j>>[2] = j
    BY <1>2, <2>2 DEF Spots
  <2>4. QED
    BY <1>3, <2>3
<1>6. QED
  BY <1>2, <1>3, <1>4, <1>5 DEF Elements, u

(* FirstOf keeps every element, once.                                       *)
LEMMA FirstOfDistinct ==
  ASSUME NEW S, NEW s \in Seq(S)
  PROVE  /\ FirstOf(s) \in Seq(S)
         /\ Elements(FirstOf(s)) = Elements(s)
         /\ Distinct(FirstOf(s))
<1> DEFINE c == {i \in DOMAIN s : \A j \in DOMAIN s : j < i => s[j] # s[i]}
           t == Subsequence(s, c)
<1>1. c \in SUBSET DOMAIN s /\ DOMAIN s = 1..Len(s) /\ Len(s) \in Nat
  OBVIOUS
<1>2. \A i : i \in c <=> i \in DOMAIN s /\ \A j \in DOMAIN s : j < i => s[j] # s[i]
  OBVIOUS
<1>3. FirstOf(s) = t
  BY DEF FirstOf
<1> HIDE DEF c
<1>4. /\ Cardinality(c) \in Nat
      /\ t \in Seq(S) /\ Len(t) = Cardinality(c)
      /\ \A i \in c : Rank(c, i) \in 1..Cardinality(c) /\ t[Rank(c, i)] = s[i]
      /\ \A n \in 1..Cardinality(c) : \E i \in c : Rank(c, i) = n /\ t[n] = s[i]
  BY <1>1, SubsequenceAt
<1> HIDE DEF t
<1>5. DOMAIN t = 1..Cardinality(c)
  BY <1>4
<1>6. \A i \in DOMAIN s : \E k \in c : s[k] = s[i]
  <2>1. SUFFICES ASSUME NEW i \in DOMAIN s PROVE \E k \in c : s[k] = s[i]
    OBVIOUS
  <2> DEFINE same == {k \in DOMAIN s : s[k] = s[i]}
  <2>2. same \in SUBSET Nat /\ same # {}
    BY <1>1
  <2>3. \A k : k \in same <=> k \in DOMAIN s /\ s[k] = s[i]
    OBVIOUS
  <2> HIDE DEF same
  <2>4. PICK k \in same : \A j \in same : k <= j
    BY <2>2, LeastNatural
  <2>5. \A j \in DOMAIN s : j < k => s[j] # s[k]
    <3>1. SUFFICES ASSUME NEW j \in DOMAIN s, j < k, s[j] = s[k] PROVE FALSE
      OBVIOUS
    <3>2. j \in same /\ j \in Nat /\ k \in Nat
      BY <1>1, <2>3, <2>4, <3>1
    <3>3. QED
      BY <2>4, <3>1, <3>2
  <2>6. QED
    BY <1>2, <2>3, <2>4, <2>5
<1>7. \A i \in c, j \in c : s[i] = s[j] => i = j
  <2>1. SUFFICES ASSUME NEW i \in c, NEW j \in c, s[i] = s[j], i < j PROVE FALSE
    <3>1. \A i \in c, j \in c : i = j \/ i < j \/ j < i
      BY <1>1
    <3>2. QED
      BY <2>1, <3>1
  <2>2. QED
    BY <1>1, <1>2, <2>1
<1>8. Elements(t) = Elements(s)
  BY <1>1, <1>4, <1>5, <1>6 DEF Elements
<1>9. Distinct(t)
  <2>1. SUFFICES ASSUME NEW n \in DOMAIN t, NEW m \in DOMAIN t, t[n] = t[m] PROVE n = m
    BY DEF Distinct
  <2>2. PICK i \in c : Rank(c, i) = n /\ t[n] = s[i]
    BY <1>4, <1>5
  <2>3. PICK j \in c : Rank(c, j) = m /\ t[m] = s[j]
    BY <1>4, <1>5
  <2>4. QED
    BY <1>7, <2>1, <2>2, <2>3
<1>10. QED
  BY <1>3, <1>4, <1>8, <1>9

(* The levels of a text: the text itself, then the parts of those above.    *)
LEMMA TextLevels ==
  ASSUME NEW whole
  PROVE  /\ Levels(whole, TextParts)[0] = {whole}
         /\ \A n \in 1..Nesting :
              Levels(whole, TextParts)[n] =
                UNION {TextParts(x) : x \in Levels(whole, TextParts)[n - 1]}
<1> DEFINE Deeper(S) == UNION {TextParts(x) : x \in S}
           Is(g, l) == g = [n \in 0..l |-> IF n = 0 THEN {whole} ELSE Deeper(g[n - 1])]
           L == Levels(whole, TextParts)
<1>1. L = CHOOSE g : Is(g, Nesting)
  BY DEF Levels
<1>2. \A g, l : Is(g, l) <=>
        g = [n \in 0..l |-> IF n = 0 THEN {whole} ELSE Deeper(g[n - 1])]
  OBVIOUS
<1>3. Nesting \in Nat
  BY JsonAssumption
<1> HIDE DEF Deeper, Is, L
<1>4. \E g : Is(g, Nesting)
  <2> DEFINE bad == {l \in 0..Nesting : \A g : ~Is(g, l)}
  <2>1. \A l : l \in bad <=> l \in 0..Nesting /\ \A g : ~Is(g, l)
    OBVIOUS
  <2>2. bad \in SUBSET Nat
    OBVIOUS
  <2> HIDE DEF bad
  <2>3. SUFFICES ASSUME bad # {} PROVE FALSE
    BY <1>3, <2>1
  <2>4. PICK l \in bad : \A k \in bad : l <= k
    BY <2>2, <2>3, LeastNatural
  <2>5. l \in 0..Nesting /\ l \in Nat
    BY <2>1, <2>2
  <2>6. CASE l = 0
    <3> DEFINE g == [n \in 0..0 |-> {whole}]
    <3>1. g = [n \in 0..0 |-> IF n = 0 THEN {whole} ELSE Deeper(g[n - 1])]
      OBVIOUS
    <3>2. QED
      BY <1>2, <2>1, <2>6, <3>1
  <2>7. CASE l # 0
    <3>1. l - 1 \in 0..Nesting /\ l - 1 \notin bad
      BY <1>3, <2>4, <2>5, <2>7
    <3>2. PICK f : Is(f, l - 1)
      BY <2>1, <3>1
    <3>3. f = [n \in 0..(l - 1) |-> IF n = 0 THEN {whole} ELSE Deeper(f[n - 1])]
      BY <1>2, <3>2
    <3> DEFINE E(n) == IF n = 0 THEN {whole} ELSE Deeper(f[n - 1])
               g == [n \in 0..l |-> E(n)]
    <3>4. \A n \in 0..(l - 1) : f[n] = E(n)
      BY <3>3
    <3>5. \A n \in 0..l : n # 0 => n - 1 \in 0..(l - 1) /\ n - 1 \in 0..l
      BY <2>5
    <3>6. \A n \in 0..l : g[n] = E(n)
      OBVIOUS
    <3>7. \A n \in 0..l : n # 0 => g[n - 1] = f[n - 1]
      BY <3>4, <3>5, <3>6
    <3>8. \A n \in 0..l : E(n) = IF n = 0 THEN {whole} ELSE Deeper(g[n - 1])
      BY <3>7
    <3>9. g = [n \in 0..l |-> IF n = 0 THEN {whole} ELSE Deeper(g[n - 1])]
      <4> HIDE DEF E
      <4>1. QED
        BY <3>8
    <3>10. Is(g, l)
      BY <1>2, <3>9
    <3>11. QED
      BY <2>1, <2>4, <3>10
  <2>8. QED
    BY <2>6, <2>7
<1>5. L = [n \in 0..Nesting |-> IF n = 0 THEN {whole} ELSE Deeper(L[n - 1])]
  BY <1>1, <1>2, <1>4
<1>6. L[0] = {whole} /\ \A n \in 1..Nesting : L[n] = Deeper(L[n - 1])
  <2>1. \A n \in 0..Nesting : L[n] = IF n = 0 THEN {whole} ELSE Deeper(L[n - 1])
    BY <1>5
  <2>2. 0 \in 0..Nesting /\ \A n \in 1..Nesting : n \in 0..Nesting /\ n # 0
    BY <1>3
  <2>3. QED
    BY <2>1, <2>2
<1>7. QED
  BY <1>6 DEF L, Deeper

(* The levels of a value, taken apart in the same way.                      *)
LEMMA ValueLevels ==
  ASSUME NEW whole
  PROVE  /\ Levels(whole, ValueParts)[0] = {whole}
         /\ \A n \in 1..Nesting :
              Levels(whole, ValueParts)[n] =
                UNION {ValueParts(x) : x \in Levels(whole, ValueParts)[n - 1]}
<1> DEFINE Deeper(S) == UNION {ValueParts(x) : x \in S}
           Is(g, l) == g = [n \in 0..l |-> IF n = 0 THEN {whole} ELSE Deeper(g[n - 1])]
           L == Levels(whole, ValueParts)
<1>1. L = CHOOSE g : Is(g, Nesting)
  BY DEF Levels
<1>2. \A g, l : Is(g, l) <=>
        g = [n \in 0..l |-> IF n = 0 THEN {whole} ELSE Deeper(g[n - 1])]
  OBVIOUS
<1>3. Nesting \in Nat
  BY JsonAssumption
<1> HIDE DEF Deeper, Is, L
<1>4. \E g : Is(g, Nesting)
  <2> DEFINE bad == {l \in 0..Nesting : \A g : ~Is(g, l)}
  <2>1. \A l : l \in bad <=> l \in 0..Nesting /\ \A g : ~Is(g, l)
    OBVIOUS
  <2>2. bad \in SUBSET Nat
    OBVIOUS
  <2> HIDE DEF bad
  <2>3. SUFFICES ASSUME bad # {} PROVE FALSE
    BY <1>3, <2>1
  <2>4. PICK l \in bad : \A k \in bad : l <= k
    BY <2>2, <2>3, LeastNatural
  <2>5. l \in 0..Nesting /\ l \in Nat
    BY <2>1, <2>2
  <2>6. CASE l = 0
    <3> DEFINE g == [n \in 0..0 |-> {whole}]
    <3>1. g = [n \in 0..0 |-> IF n = 0 THEN {whole} ELSE Deeper(g[n - 1])]
      OBVIOUS
    <3>2. QED
      BY <1>2, <2>1, <2>6, <3>1
  <2>7. CASE l # 0
    <3>1. l - 1 \in 0..Nesting /\ l - 1 \notin bad
      BY <1>3, <2>4, <2>5, <2>7
    <3>2. PICK f : Is(f, l - 1)
      BY <2>1, <3>1
    <3>3. f = [n \in 0..(l - 1) |-> IF n = 0 THEN {whole} ELSE Deeper(f[n - 1])]
      BY <1>2, <3>2
    <3> DEFINE E(n) == IF n = 0 THEN {whole} ELSE Deeper(f[n - 1])
               g == [n \in 0..l |-> E(n)]
    <3>4. \A n \in 0..(l - 1) : f[n] = E(n)
      BY <3>3
    <3>5. \A n \in 0..l : n # 0 => n - 1 \in 0..(l - 1) /\ n - 1 \in 0..l
      BY <2>5
    <3>6. \A n \in 0..l : g[n] = E(n)
      OBVIOUS
    <3>7. \A n \in 0..l : n # 0 => g[n - 1] = f[n - 1]
      BY <3>4, <3>5, <3>6
    <3>8. \A n \in 0..l : E(n) = IF n = 0 THEN {whole} ELSE Deeper(g[n - 1])
      BY <3>7
    <3>9. g = [n \in 0..l |-> IF n = 0 THEN {whole} ELSE Deeper(g[n - 1])]
      <4> HIDE DEF E
      <4>1. QED
        BY <3>8
    <3>10. Is(g, l)
      BY <1>2, <3>9
    <3>11. QED
      BY <2>1, <2>4, <3>10
  <2>8. QED
    BY <2>6, <2>7
<1>5. L = [n \in 0..Nesting |-> IF n = 0 THEN {whole} ELSE Deeper(L[n - 1])]
  BY <1>1, <1>2, <1>4
<1>6. L[0] = {whole} /\ \A n \in 1..Nesting : L[n] = Deeper(L[n - 1])
  <2>1. \A n \in 0..Nesting : L[n] = IF n = 0 THEN {whole} ELSE Deeper(L[n - 1])
    BY <1>5
  <2>2. 0 \in 0..Nesting /\ \A n \in 1..Nesting : n \in 0..Nesting /\ n # 0
    BY <1>3
  <2>3. QED
    BY <2>1, <2>2
<1>7. QED
  BY <1>6 DEF L, Deeper

(* The levels of a pair of values that are taken apart together.            *)
LEMMA PairLevels ==
  ASSUME NEW whole
  PROVE  /\ Levels(whole, MatchedParts)[0] = {whole}
         /\ \A n \in 1..Nesting :
              Levels(whole, MatchedParts)[n] =
                UNION {MatchedParts(x) : x \in Levels(whole, MatchedParts)[n - 1]}
<1> DEFINE Deeper(S) == UNION {MatchedParts(x) : x \in S}
           Is(g, l) == g = [n \in 0..l |-> IF n = 0 THEN {whole} ELSE Deeper(g[n - 1])]
           L == Levels(whole, MatchedParts)
<1>1. L = CHOOSE g : Is(g, Nesting)
  BY DEF Levels
<1>2. \A g, l : Is(g, l) <=>
        g = [n \in 0..l |-> IF n = 0 THEN {whole} ELSE Deeper(g[n - 1])]
  OBVIOUS
<1>3. Nesting \in Nat
  BY JsonAssumption
<1> HIDE DEF Deeper, Is, L
<1>4. \E g : Is(g, Nesting)
  <2> DEFINE bad == {l \in 0..Nesting : \A g : ~Is(g, l)}
  <2>1. \A l : l \in bad <=> l \in 0..Nesting /\ \A g : ~Is(g, l)
    OBVIOUS
  <2>2. bad \in SUBSET Nat
    OBVIOUS
  <2> HIDE DEF bad
  <2>3. SUFFICES ASSUME bad # {} PROVE FALSE
    BY <1>3, <2>1
  <2>4. PICK l \in bad : \A k \in bad : l <= k
    BY <2>2, <2>3, LeastNatural
  <2>5. l \in 0..Nesting /\ l \in Nat
    BY <2>1, <2>2
  <2>6. CASE l = 0
    <3> DEFINE g == [n \in 0..0 |-> {whole}]
    <3>1. g = [n \in 0..0 |-> IF n = 0 THEN {whole} ELSE Deeper(g[n - 1])]
      OBVIOUS
    <3>2. QED
      BY <1>2, <2>1, <2>6, <3>1
  <2>7. CASE l # 0
    <3>1. l - 1 \in 0..Nesting /\ l - 1 \notin bad
      BY <1>3, <2>4, <2>5, <2>7
    <3>2. PICK f : Is(f, l - 1)
      BY <2>1, <3>1
    <3>3. f = [n \in 0..(l - 1) |-> IF n = 0 THEN {whole} ELSE Deeper(f[n - 1])]
      BY <1>2, <3>2
    <3> DEFINE E(n) == IF n = 0 THEN {whole} ELSE Deeper(f[n - 1])
               g == [n \in 0..l |-> E(n)]
    <3>4. \A n \in 0..(l - 1) : f[n] = E(n)
      BY <3>3
    <3>5. \A n \in 0..l : n # 0 => n - 1 \in 0..(l - 1) /\ n - 1 \in 0..l
      BY <2>5
    <3>6. \A n \in 0..l : g[n] = E(n)
      OBVIOUS
    <3>7. \A n \in 0..l : n # 0 => g[n - 1] = f[n - 1]
      BY <3>4, <3>5, <3>6
    <3>8. \A n \in 0..l : E(n) = IF n = 0 THEN {whole} ELSE Deeper(g[n - 1])
      BY <3>7
    <3>9. g = [n \in 0..l |-> IF n = 0 THEN {whole} ELSE Deeper(g[n - 1])]
      <4> HIDE DEF E
      <4>1. QED
        BY <3>8
    <3>10. Is(g, l)
      BY <1>2, <3>9
    <3>11. QED
      BY <2>1, <2>4, <3>10
  <2>8. QED
    BY <2>6, <2>7
<1>5. L = [n \in 0..Nesting |-> IF n = 0 THEN {whole} ELSE Deeper(L[n - 1])]
  BY <1>1, <1>2, <1>4
<1>6. L[0] = {whole} /\ \A n \in 1..Nesting : L[n] = Deeper(L[n - 1])
  <2>1. \A n \in 0..Nesting : L[n] = IF n = 0 THEN {whole} ELSE Deeper(L[n - 1])
    BY <1>5
  <2>2. 0 \in 0..Nesting /\ \A n \in 1..Nesting : n \in 0..Nesting /\ n # 0
    BY <1>3
  <2>3. QED
    BY <2>1, <2>2
<1>7. QED
  BY <1>6 DEF L, Deeper

(* ValueOf, level by level. *)
Reads(whole, built) ==
  \A n \in 0..Nesting :
    built[n] = [x \in Levels(whole, TextParts)[Nesting - n] |->
                  ReadWith(x, IF n = 0 THEN <<>> ELSE built[n - 1])]

(* What is read from a text is put together from its last level upwards.    *)
LEMMA ReadByLevels ==
  ASSUME NEW whole
  PROVE  \E built : Reads(whole, built) /\ ValueOf(whole) = built[Nesting][whole]
<1> DEFINE L == Levels(whole, TextParts)
           Level(n, inner) == [x \in L[Nesting - n] |-> ReadWith(x, inner)]
           Is(g, l) == g = [n \in 0..l |-> Level(n, IF n = 0 THEN <<>> ELSE g[n - 1])]
           B == CHOOSE g : Is(g, Nesting)
<1>1. ValueOf(whole) = B[Nesting][whole]
  BY DEF ValueOf, Rebuilt
<1>a. \A g, l : Is(g, l) <=>
        g = [n \in 0..l |-> Level(n, IF n = 0 THEN <<>> ELSE g[n - 1])]
  OBVIOUS
<1> HIDE DEF Level, Is
<1>2. \A g, l : Is(g, l) <=>
        g = [n \in 0..l |-> IF n = 0 THEN Level(0, <<>>) ELSE Level(n, g[n - 1])]
  <2>1. SUFFICES ASSUME NEW g, NEW l
        PROVE  [n \in 0..l |-> Level(n, IF n = 0 THEN <<>> ELSE g[n - 1])] =
               [n \in 0..l |-> IF n = 0 THEN Level(0, <<>>) ELSE Level(n, g[n - 1])]
    BY <1>a
  <2>2. \A n \in 0..l : Level(n, IF n = 0 THEN <<>> ELSE g[n - 1]) =
                        IF n = 0 THEN Level(0, <<>>) ELSE Level(n, g[n - 1])
    OBVIOUS
  <2>3. QED
    BY <2>2
<1>3. Nesting \in Nat
  BY JsonAssumption
<1>4. \E g : Is(g, Nesting)
  <2> DEFINE bad == {l \in 0..Nesting : \A g : ~Is(g, l)}
  <2>1. \A l : l \in bad <=> l \in 0..Nesting /\ \A g : ~Is(g, l)
    OBVIOUS
  <2>2. bad \in SUBSET Nat
    OBVIOUS
  <2> HIDE DEF bad
  <2>3. SUFFICES ASSUME bad # {} PROVE FALSE
    BY <1>3, <2>1
  <2>4. PICK l \in bad : \A k \in bad : l <= k
    BY <2>2, <2>3, LeastNatural
  <2>5. l \in 0..Nesting /\ l \in Nat
    BY <2>1, <2>2
  <2>6. CASE l = 0
    <3> DEFINE g == [n \in 0..0 |-> Level(0, <<>>)]
    <3>1. g = [n \in 0..0 |-> IF n = 0 THEN Level(0, <<>>) ELSE Level(n, g[n - 1])]
      OBVIOUS
    <3>2. QED
      BY <1>2, <2>1, <2>6, <3>1
  <2>7. CASE l # 0
    <3>1. l - 1 \in 0..Nesting /\ l - 1 \notin bad
      BY <1>3, <2>4, <2>5, <2>7
    <3>2. PICK f : Is(f, l - 1)
      BY <2>1, <3>1
    <3>3. f = [n \in 0..(l - 1) |-> IF n = 0 THEN Level(0, <<>>) ELSE Level(n, f[n - 1])]
      BY <1>2, <3>2
    <3> DEFINE E(n) == IF n = 0 THEN Level(0, <<>>) ELSE Level(n, f[n - 1])
               g == [n \in 0..l |-> E(n)]
    <3>4. \A n \in 0..(l - 1) : f[n] = E(n)
      BY <3>3
    <3>5. \A n \in 0..l : n # 0 => n - 1 \in 0..(l - 1) /\ n - 1 \in 0..l
      BY <2>5
    <3>6. \A n \in 0..l : g[n] = E(n)
      OBVIOUS
    <3>7. \A n \in 0..l : n # 0 => g[n - 1] = f[n - 1]
      BY <3>4, <3>5, <3>6
    <3>8. \A n \in 0..l : E(n) = IF n = 0 THEN Level(0, <<>>) ELSE Level(n, g[n - 1])
      BY <3>7
    <3>9. g = [n \in 0..l |-> IF n = 0 THEN Level(0, <<>>) ELSE Level(n, g[n - 1])]
      <4> HIDE DEF E
      <4>1. QED
        BY <3>8
    <3>10. Is(g, l)
      BY <1>2, <3>9
    <3>11. QED
      BY <2>1, <2>4, <3>10
  <2>8. QED
    BY <2>6, <2>7
<1>5. Is(B, Nesting)
  BY <1>4
<1>6. \A n \in 0..Nesting : B[n] = Level(n, IF n = 0 THEN <<>> ELSE B[n - 1])
  <2> HIDE DEF B
  <2>1. B = [n \in 0..Nesting |-> Level(n, IF n = 0 THEN <<>> ELSE B[n - 1])]
    BY <1>a, <1>5
  <2>2. QED
    BY <2>1
<1>7. Reads(whole, B)
  BY <1>6 DEF Reads, Level, L
<1>8. QED
  BY <1>1, <1>7

(* Rendered, level by level. *)
Writes(whole, built) ==
  \A n \in 0..Nesting :
    built[n] = [x \in Levels(whole, ValueParts)[Nesting - n] |->
                  WrittenWith(x, IF n = 0 THEN <<>> ELSE built[n - 1])]

(* What is written of a value is put together from its last level upwards.  *)
LEMMA WrittenByLevels ==
  ASSUME NEW whole
  PROVE  \E built : Writes(whole, built) /\ Rendered(whole) = built[Nesting][whole]
<1> DEFINE L == Levels(whole, ValueParts)
           Level(n, inner) == [x \in L[Nesting - n] |-> WrittenWith(x, inner)]
           Is(g, l) == g = [n \in 0..l |-> Level(n, IF n = 0 THEN <<>> ELSE g[n - 1])]
           B == CHOOSE g : Is(g, Nesting)
<1>1. Rendered(whole) = B[Nesting][whole]
  BY DEF Rendered, Rebuilt
<1>a. \A g, l : Is(g, l) <=>
        g = [n \in 0..l |-> Level(n, IF n = 0 THEN <<>> ELSE g[n - 1])]
  OBVIOUS
<1> HIDE DEF Level, Is
<1>2. \A g, l : Is(g, l) <=>
        g = [n \in 0..l |-> IF n = 0 THEN Level(0, <<>>) ELSE Level(n, g[n - 1])]
  <2>1. SUFFICES ASSUME NEW g, NEW l
        PROVE  [n \in 0..l |-> Level(n, IF n = 0 THEN <<>> ELSE g[n - 1])] =
               [n \in 0..l |-> IF n = 0 THEN Level(0, <<>>) ELSE Level(n, g[n - 1])]
    BY <1>a
  <2>2. \A n \in 0..l : Level(n, IF n = 0 THEN <<>> ELSE g[n - 1]) =
                        IF n = 0 THEN Level(0, <<>>) ELSE Level(n, g[n - 1])
    OBVIOUS
  <2>3. QED
    BY <2>2
<1>3. Nesting \in Nat
  BY JsonAssumption
<1>4. \E g : Is(g, Nesting)
  <2> DEFINE bad == {l \in 0..Nesting : \A g : ~Is(g, l)}
  <2>1. \A l : l \in bad <=> l \in 0..Nesting /\ \A g : ~Is(g, l)
    OBVIOUS
  <2>2. bad \in SUBSET Nat
    OBVIOUS
  <2> HIDE DEF bad
  <2>3. SUFFICES ASSUME bad # {} PROVE FALSE
    BY <1>3, <2>1
  <2>4. PICK l \in bad : \A k \in bad : l <= k
    BY <2>2, <2>3, LeastNatural
  <2>5. l \in 0..Nesting /\ l \in Nat
    BY <2>1, <2>2
  <2>6. CASE l = 0
    <3> DEFINE g == [n \in 0..0 |-> Level(0, <<>>)]
    <3>1. g = [n \in 0..0 |-> IF n = 0 THEN Level(0, <<>>) ELSE Level(n, g[n - 1])]
      OBVIOUS
    <3>2. QED
      BY <1>2, <2>1, <2>6, <3>1
  <2>7. CASE l # 0
    <3>1. l - 1 \in 0..Nesting /\ l - 1 \notin bad
      BY <1>3, <2>4, <2>5, <2>7
    <3>2. PICK f : Is(f, l - 1)
      BY <2>1, <3>1
    <3>3. f = [n \in 0..(l - 1) |-> IF n = 0 THEN Level(0, <<>>) ELSE Level(n, f[n - 1])]
      BY <1>2, <3>2
    <3> DEFINE E(n) == IF n = 0 THEN Level(0, <<>>) ELSE Level(n, f[n - 1])
               g == [n \in 0..l |-> E(n)]
    <3>4. \A n \in 0..(l - 1) : f[n] = E(n)
      BY <3>3
    <3>5. \A n \in 0..l : n # 0 => n - 1 \in 0..(l - 1) /\ n - 1 \in 0..l
      BY <2>5
    <3>6. \A n \in 0..l : g[n] = E(n)
      OBVIOUS
    <3>7. \A n \in 0..l : n # 0 => g[n - 1] = f[n - 1]
      BY <3>4, <3>5, <3>6
    <3>8. \A n \in 0..l : E(n) = IF n = 0 THEN Level(0, <<>>) ELSE Level(n, g[n - 1])
      BY <3>7
    <3>9. g = [n \in 0..l |-> IF n = 0 THEN Level(0, <<>>) ELSE Level(n, g[n - 1])]
      <4> HIDE DEF E
      <4>1. QED
        BY <3>8
    <3>10. Is(g, l)
      BY <1>2, <3>9
    <3>11. QED
      BY <2>1, <2>4, <3>10
  <2>8. QED
    BY <2>6, <2>7
<1>5. Is(B, Nesting)
  BY <1>4
<1>6. \A n \in 0..Nesting : B[n] = Level(n, IF n = 0 THEN <<>> ELSE B[n - 1])
  <2> HIDE DEF B
  <2>1. B = [n \in 0..Nesting |-> Level(n, IF n = 0 THEN <<>> ELSE B[n - 1])]
    BY <1>a, <1>5
  <2>2. QED
    BY <2>1
<1>7. Writes(whole, B)
  BY <1>6 DEF Writes, Level, L
<1>8. QED
  BY <1>1, <1>7

-----------------------------------------------------------------------------
(* What is read from a text.                                                *)

ValueAlone(value) ==
  /\ value[1] = "number" =>
       /\ value[2] \in [integer : BOOLEAN, halves : Int]
       /\ value[2].integer => /\ value[2].halves % 2 = 0
                              /\ Magnitude(value[2]) <= 2 * SafeInteger
  /\ value[1] = "object" => IsFiniteSet(DOMAIN value[2])

IsValue(value) ==
  /\ \A n \in 0..Nesting : \A v \in Levels(value, ValueParts)[n] : ValueAlone(v)
  /\ \A v \in Levels(value, ValueParts)[Nesting] : ValueParts(v) = {}

(* The parts of what is read from a text were read from its parts.          *)
LEMMA PartsAreRead ==
  ASSUME NEW text, NEW inner
  PROVE  \A v \in ValueParts(ReadWith(text, inner)) :
           \E t \in TextParts(text) : v = inner[t]
<1> DEFINE read == ReadWith(text, inner)
<1>1. CASE text[1] = "array"
  <2>1. read = <<"array", [i \in DOMAIN text[2] |-> inner[text[2][i]]]>>
    BY <1>1 DEF ReadWith
  <2>2. TextParts(text) = {text[2][i] : i \in DOMAIN text[2]}
    BY <1>1 DEF TextParts
  <2> HIDE DEF read
  <2>3. ValueParts(read) = {read[2][k] : k \in DOMAIN read[2]}
    BY <2>1 DEF ValueParts
  <2>4. QED
    BY <2>1, <2>2, <2>3 DEF read
<1>2. CASE text[1] = "object"
  <2> DEFINE keys == {text[2][i][1] : i \in DOMAIN text[2]}
             at(key) == CHOOSE i \in DOMAIN text[2] : text[2][i][1] = key
  <2>1. read = <<"object", [key \in keys |-> inner[text[2][at(key)][2]]]>>
    BY <1>2 DEF ReadWith
  <2>2. TextParts(text) = {text[2][i][2] : i \in DOMAIN text[2]}
    BY <1>2 DEF TextParts
  <2>3. \A key \in keys : at(key) \in DOMAIN text[2]
    OBVIOUS
  <2> HIDE DEF read, keys, at
  <2>4. ValueParts(read) = {read[2][k] : k \in DOMAIN read[2]}
    BY <2>1 DEF ValueParts
  <2>5. QED
    BY <2>1, <2>2, <2>3, <2>4 DEF read
<1>3. CASE text[1] \notin {"array", "object"}
  <2>1. read = text
    BY <1>3 DEF ReadWith
  <2>2. ValueParts(text) = {}
    BY <1>3 DEF ValueParts
  <2>3. QED
    BY <2>1, <2>2
<1>4. QED
  BY <1>1, <1>2, <1>3

(* What is read from a text satisfies by itself what its text does.         *)
LEMMA ReadAlone ==
  ASSUME NEW text, NEW inner, TextAlone(text), ReadableAlone(text)
  PROVE  ValueAlone(ReadWith(text, inner))
<1> DEFINE read == ReadWith(text, inner)
<1>1. CASE text[1] = "array"
  <2>1. read = <<"array", [i \in DOMAIN text[2] |-> inner[text[2][i]]]>>
    BY <1>1 DEF ReadWith
  <2> HIDE DEF read
  <2>2. read[1] = "array"
    BY <2>1
  <2>3. QED
    BY <2>2 DEF ValueAlone, read
<1>2. CASE text[1] = "object"
  <2> DEFINE keys == {text[2][i][1] : i \in DOMAIN text[2]}
             at(key) == CHOOSE i \in DOMAIN text[2] : text[2][i][1] = key
  <2>1. read = <<"object", [key \in keys |-> inner[text[2][at(key)][2]]]>>
    BY <1>2 DEF ReadWith
  <2>2. IsFiniteSet(keys)
    <3>1. text[2] \in Seq({text[2][i] : i \in DOMAIN text[2]})
      BY <1>2 DEF TextAlone
    <3>2. DOMAIN text[2] = 1..Len(text[2]) /\ Len(text[2]) \in Nat
      BY <3>1
    <3>3. IsFiniteSet(DOMAIN text[2])
      BY <3>2, FS_Interval
    <3> DEFINE first == [i \in DOMAIN text[2] |-> text[2][i][1]]
    <3>4. first \in Surjection(DOMAIN text[2], keys)
      BY DEF Surjection
    <3> HIDE DEF first, keys
    <3>5. QED
      BY <3>3, <3>4, FS_Surjection
  <2> HIDE DEF read, keys, at
  <2>3. read[1] = "object" /\ DOMAIN read[2] = keys
    BY <2>1
  <2>4. QED
    BY <2>2, <2>3 DEF ValueAlone, read
<1>3. CASE text[1] \notin {"array", "object"}
  <2>1. read = text
    BY <1>3 DEF ReadWith
  <2>2. ValueAlone(text)
    BY <1>3 DEF ValueAlone, TextAlone, ReadableAlone, ReadableNumber
  <2>3. QED
    BY <2>1, <2>2
<1>4. QED
  BY <1>1, <1>2, <1>3

(* Reading keeps levels: what stands at one in the value was read from     *)
(* what stands there in the text.                                          *)
LEMMA ReadingIsSound ==
  ASSUME NEW text, IsText(text), Readable(text)
  PROVE  IsValue(ValueOf(text))
<1> DEFINE T == Levels(text, TextParts)
           V == Levels(ValueOf(text), ValueParts)
<1>1. PICK R : Reads(text, R) /\ ValueOf(text) = R[Nesting][text]
  BY ReadByLevels
<1>2. Nesting \in Nat
  BY JsonAssumption
<1>3. T[0] = {text} /\ \A n \in 1..Nesting : T[n] = UNION {TextParts(x) : x \in T[n - 1]}
  BY TextLevels
<1>4. /\ V[0] = {ValueOf(text)}
      /\ \A n \in 1..Nesting : V[n] = UNION {ValueParts(x) : x \in V[n - 1]}
  BY ValueLevels
<1>5. \A n \in 0..Nesting : \A t \in T[Nesting - n] :
        R[n][t] = ReadWith(t, IF n = 0 THEN <<>> ELSE R[n - 1])
  BY <1>1 DEF Reads
<1>6. \A n \in 0..Nesting : \A t \in T[n] : TextAlone(t) /\ ReadableAlone(t)
  BY DEF IsText, Readable
<1>7. \A t \in T[Nesting] : TextParts(t) = {}
  BY DEF IsText
<1> DEFINE FromText(n) == \A v \in V[n] : \E t \in T[n] : v = R[Nesting - n][t]
           bad == {n \in 0..Nesting : ~FromText(n)}
<1> HIDE DEF T, V
<1>8. FromText(0)
  BY <1>1, <1>2, <1>3, <1>4
<1>9. \A n \in 1..Nesting : FromText(n - 1) => FromText(n)
  <2>1. SUFFICES ASSUME NEW n \in 1..Nesting, FromText(n - 1), NEW v \in V[n]
        PROVE  \E t \in T[n] : v = R[Nesting - n][t]
    OBVIOUS
  <2>2. PICK w \in V[n - 1] : v \in ValueParts(w)
    BY <1>4, <2>1
  <2>3. PICK u \in T[n - 1] : w = R[Nesting - (n - 1)][u]
    BY <2>1, <2>2
  <2>4. Nesting - (n - 1) \in 0..Nesting /\ Nesting - (n - 1) # 0
        /\ Nesting - (Nesting - (n - 1)) = n - 1 /\ (Nesting - (n - 1)) - 1 = Nesting - n
    BY <1>2
  <2>5. w = ReadWith(u, R[Nesting - n])
    BY <1>5, <2>3, <2>4
  <2>6. PICK t \in TextParts(u) : v = R[Nesting - n][t]
    BY <2>2, <2>5, PartsAreRead
  <2>7. t \in T[n]
    BY <1>3, <2>3, <2>6
  <2>8. QED
    BY <2>6, <2>7
<1>10. \A n \in 0..Nesting : FromText(n)
  <2>1. \A n : n \in bad <=> n \in 0..Nesting /\ ~FromText(n)
    OBVIOUS
  <2> HIDE DEF bad, FromText
  <2>2. bad \in SUBSET Nat
    BY <2>1
  <2>3. SUFFICES ASSUME bad # {} PROVE FALSE
    BY <2>1
  <2>4. PICK n \in bad : \A k \in bad : n <= k
    BY <2>2, <2>3, LeastNatural
  <2>5. n # 0
    BY <1>8, <2>1
  <2>6. n \in 1..Nesting /\ n - 1 \in 0..Nesting /\ n - 1 \notin bad
    BY <1>2, <2>1, <2>4, <2>5
  <2>7. QED
    BY <1>9, <2>1, <2>6
<1> HIDE DEF bad
<1>11. \A n \in 0..Nesting : \A v \in V[n] : \E t \in T[n] : \E inner : v = ReadWith(t, inner)
  <2>1. SUFFICES ASSUME NEW n \in 0..Nesting, NEW v \in V[n]
        PROVE  \E t \in T[n] : \E inner : v = ReadWith(t, inner)
    OBVIOUS
  <2>2. PICK t \in T[n] : v = R[Nesting - n][t]
    BY <1>10
  <2>3. Nesting - n \in 0..Nesting /\ Nesting - (Nesting - n) = n
    BY <1>2
  <2>4. QED
    BY <1>5, <2>2, <2>3
<1> HIDE DEF FromText
<1>12. \A n \in 0..Nesting : \A v \in V[n] : ValueAlone(v)
  BY <1>6, <1>11, ReadAlone
<1>13. \A v \in V[Nesting] : ValueParts(v) = {}
  <2>1. SUFFICES ASSUME NEW v \in V[Nesting], NEW w \in ValueParts(v) PROVE FALSE
    OBVIOUS
  <2>2. PICK t \in T[Nesting] : \E inner : v = ReadWith(t, inner)
    BY <1>2, <1>11
  <2>3. TextParts(t) # {}
    BY <2>1, <2>2, PartsAreRead
  <2>4. QED
    BY <1>7, <2>3
<1>14. QED
  BY <1>12, <1>13 DEF IsValue, V

-----------------------------------------------------------------------------
(* Values that are equal are written alike.                                 *)

(* Two numbers that stand for one value are written as the same number.     *)
LEMMA NumbersAlike ==
  ASSUME NEW left, NEW right, left[1] = "number", JsonAlike(left, right),
         ValueAlone(left), ValueAlone(right)
  PROVE  RenderedNumber(left[2]) = RenderedNumber(right[2])
<1> DEFINE l == left[2]
           r == right[2]
           plain(n) == n.halves % 2 = 0 /\ Magnitude(n) < 2 * PlainBelow
<1>1. right[1] = "number" /\ l.halves = r.halves
  BY DEF JsonAlike
<1>2. /\ l \in [integer : BOOLEAN, halves : Int] /\ r \in [integer : BOOLEAN, halves : Int]
      /\ l.integer => l.halves % 2 = 0 /\ Magnitude(l) <= 2 * SafeInteger
      /\ r.integer => r.halves % 2 = 0 /\ Magnitude(r) <= 2 * SafeInteger
  BY <1>1 DEF ValueAlone
<1>3. SafeInteger \in Nat /\ PlainBelow \in Nat /\ SafeInteger < PlainBelow
  BY JsonAssumption
<1>4. Magnitude(l) \in Int /\ Magnitude(r) \in Int /\ Magnitude(l) = Magnitude(r)
  BY <1>1, <1>2 DEF Magnitude
<1>5. (l.integer => plain(l)) /\ (r.integer => plain(r))
  BY <1>2, <1>3, <1>4
<1>6. plain(l) = plain(r) /\ plain(l) \in BOOLEAN
  BY <1>1, <1>4
<1> HIDE DEF plain
<1>7. \A n \in [integer : BOOLEAN, halves : Int] :
        RenderedNumber(n) = [integer |-> n.integer \/ plain(n), halves |-> n.halves]
  <2>1. SUFFICES ASSUME NEW n \in [integer : BOOLEAN, halves : Int]
        PROVE  RenderedNumber(n) =
                 [integer |-> n.integer \/ plain(n), halves |-> n.halves]
    OBVIOUS
  <2> DEFINE b == n.integer \/ plain(n)
  <2>2. RenderedNumber(n) = [n EXCEPT !.integer = b]
    BY DEF RenderedNumber, plain
  <2> HIDE DEF b
  <2>3. [n EXCEPT !.integer = b] = [integer |-> b, halves |-> n.halves]
    BY <2>1
  <2>4. QED
    BY <2>2, <2>3 DEF b
<1>8. QED
  BY <1>1, <1>2, <1>5, <1>6, <1>7

(* The keys of an object can be put in order.                              *)
LEMMA KeysAreOrdered ==
  ASSUME NEW D, IsFiniteSet(D)
  PROVE  \A i \in DOMAIN KeysInOrder(D) : KeysInOrder(D)[i] \in D
<1>1. \E s \in [1..Cardinality(D) -> D] : {s[i] : i \in DOMAIN s} = D
  <2>1. Cardinality(D) \in Nat /\ ExistsBijection(1..Cardinality(D), D)
    BY FS_CardinalityType, FS_NatBijection, FS_CountingElements
  <2>2. PICK s \in Bijection(1..Cardinality(D), D) : TRUE
    BY <2>1 DEF ExistsBijection
  <2>3. s \in [1..Cardinality(D) -> D] /\ {s[i] : i \in 1..Cardinality(D)} = D
    BY <2>2 DEF Bijection, Surjection
  <2>4. QED
    BY <2>3
<1>2. QED
  BY <1>1 DEF KeysInOrder

(* Two values that agree by themselves are written alike where their parts are.*)
LEMMA WrittenAlike ==
  ASSUME NEW left, NEW right, NEW lparts, NEW rparts, JsonAlike(left, right),
         ValueAlone(left), ValueAlone(right),
         \A pair \in MatchedParts(<<left, right>>) : lparts[pair[1]] = rparts[pair[2]]
  PROVE  WrittenWith(left, lparts) = WrittenWith(right, rparts)
<1>1. left[1] = right[1]
  BY DEF JsonAlike, SameMembers
<1>2. CASE left[1] = "number"
  BY <1>1, <1>2, NumbersAlike DEF WrittenWith
<1>3. ASSUME left[1] \in {"array", "object"}
      PROVE  /\ DOMAIN left[2] = DOMAIN right[2]
             /\ \A k \in DOMAIN left[2] : lparts[left[2][k]] = rparts[right[2][k]]
  <2>1. DOMAIN left[2] = DOMAIN right[2]
    BY <1>1, <1>3 DEF JsonAlike, SameMembers
  <2>2. \A k \in DOMAIN left[2] : <<left[2][k], right[2][k]>> \in MatchedParts(<<left, right>>)
    BY <1>1, <1>3, <2>1 DEF MatchedParts
  <2>3. QED
    BY <2>1, <2>2
<1>4. CASE left[1] = "array"
  <2>1. [i \in DOMAIN left[2] |-> lparts[left[2][i]]] =
        [i \in DOMAIN right[2] |-> rparts[right[2][i]]]
    BY <1>3, <1>4
  <2>2. QED
    BY <1>1, <1>4, <2>1 DEF WrittenWith
<1>5. CASE left[1] = "object"
  <2> DEFINE D == DOMAIN left[2]
             keys == KeysInOrder(D)
  <2>1. /\ WrittenWith(left, lparts) =
             <<"object", [i \in DOMAIN keys |-> <<keys[i], lparts[left[2][keys[i]]]>>]>>
        /\ WrittenWith(right, rparts) =
             <<"object", [i \in DOMAIN keys |-> <<keys[i], rparts[right[2][keys[i]]]>>]>>
    BY <1>1, <1>3, <1>5 DEF WrittenWith
  <2>2. \A i \in DOMAIN keys : keys[i] \in D
    <3>1. IsFiniteSet(D)
      BY <1>5 DEF ValueAlone
    <3>2. QED
      BY <3>1, KeysAreOrdered
  <2> HIDE DEF keys
  <2>3. \A i \in DOMAIN keys : lparts[left[2][keys[i]]] = rparts[right[2][keys[i]]]
    BY <1>3, <1>5, <2>2
  <2>4. QED
    BY <2>1, <2>3
<1>6. CASE left[1] \notin {"number", "array", "object"}
  BY <1>1, <1>6 DEF JsonAlike, SameMembers, WrittenWith
<1>7. QED
  BY <1>2, <1>4, <1>5, <1>6

(* Two values that json_values_equal takes for the same have one canonical *)
(* text.                                                                   *)
LEMMA EqualIsWrittenAlike ==
  ASSUME NEW a, NEW b, IsValue(a), IsValue(b), JsonEqual(a, b)
  PROVE  Rendered(a) = Rendered(b)
<1> DEFINE A == Levels(a, ValueParts)
           B == Levels(b, ValueParts)
           P == Levels(<<a, b>>, MatchedParts)
<1>1. PICK WA : Writes(a, WA) /\ Rendered(a) = WA[Nesting][a]
  BY WrittenByLevels
<1>2. PICK WB : Writes(b, WB) /\ Rendered(b) = WB[Nesting][b]
  BY WrittenByLevels
<1>3. Nesting \in Nat
  BY JsonAssumption
<1>4. /\ A[0] = {a} /\ \A n \in 1..Nesting : A[n] = UNION {ValueParts(x) : x \in A[n - 1]}
      /\ B[0] = {b} /\ \A n \in 1..Nesting : B[n] = UNION {ValueParts(x) : x \in B[n - 1]}
  BY ValueLevels
<1>5. /\ P[0] = {<<a, b>>}
      /\ \A n \in 1..Nesting : P[n] = UNION {MatchedParts(x) : x \in P[n - 1]}
  BY PairLevels
<1>6. /\ \A n \in 0..Nesting : \A v \in A[Nesting - n] :
           WA[n][v] = WrittenWith(v, IF n = 0 THEN <<>> ELSE WA[n - 1])
      /\ \A n \in 0..Nesting : \A v \in B[Nesting - n] :
           WB[n][v] = WrittenWith(v, IF n = 0 THEN <<>> ELSE WB[n - 1])
  BY <1>1, <1>2 DEF Writes
<1>7. /\ \A n \in 0..Nesting : \A v \in A[n] \cup B[n] : ValueAlone(v)
      /\ \A v \in A[Nesting] \cup B[Nesting] : ValueParts(v) = {}
  BY DEF IsValue
<1>8. \A n \in 0..Nesting : \A pair \in P[n] : JsonAlike(pair[1], pair[2])
  BY DEF JsonEqual, Throughout
<1> HIDE DEF A, B, P
<1>9. \A x : \A q \in MatchedParts(x) : q[1] \in ValueParts(x[1]) /\ q[2] \in ValueParts(x[2])
  <2>1. SUFFICES ASSUME NEW x, NEW q \in MatchedParts(x)
        PROVE  q[1] \in ValueParts(x[1]) /\ q[2] \in ValueParts(x[2])
    OBVIOUS
  <2>2. /\ {x[1][1], x[2][1]} \in {{"array"}, {"object"}}
        /\ DOMAIN x[1][2] = DOMAIN x[2][2]
    BY <2>1 DEF MatchedParts
  <2>3. x[1][1] \in {"array", "object"} /\ x[2][1] \in {"array", "object"}
    BY <2>2
  <2>4. PICK k \in DOMAIN x[1][2] : q = <<x[1][2][k], x[2][2][k]>>
    BY <2>1, <2>2 DEF MatchedParts
  <2>5. QED
    BY <2>2, <2>3, <2>4 DEF ValueParts
<1> DEFINE Within(n) == \A pair \in P[n] : pair[1] \in A[n] /\ pair[2] \in B[n]
           Alike(n) == \A pair \in P[Nesting - n] : WA[n][pair[1]] = WB[n][pair[2]]
<1>10. \A n \in 0..Nesting : Within(n)
  <2> DEFINE bad == {n \in 0..Nesting : ~Within(n)}
  <2>1. Within(0)
    BY <1>4, <1>5
  <2>2. \A n \in 1..Nesting : Within(n - 1) => Within(n)
    <3>1. SUFFICES ASSUME NEW n \in 1..Nesting, Within(n - 1), NEW q \in P[n]
          PROVE  q[1] \in A[n] /\ q[2] \in B[n]
      OBVIOUS
    <3>2. PICK x \in P[n - 1] : q \in MatchedParts(x)
      BY <1>5, <3>1
    <3>3. x[1] \in A[n - 1] /\ x[2] \in B[n - 1]
      BY <3>1, <3>2
    <3>4. q[1] \in ValueParts(x[1]) /\ q[2] \in ValueParts(x[2])
      BY <1>9, <3>2
    <3>5. QED
      BY <1>4, <3>3, <3>4
  <2>3. \A n : n \in bad <=> n \in 0..Nesting /\ ~Within(n)
    OBVIOUS
  <2> HIDE DEF bad, Within
  <2>4. bad \in SUBSET Nat
    BY <2>3
  <2>5. SUFFICES ASSUME bad # {} PROVE FALSE
    BY <2>3
  <2>6. PICK n \in bad : \A k \in bad : n <= k
    BY <2>4, <2>5, LeastNatural
  <2>7. n # 0
    BY <2>1, <2>3
  <2>8. n \in 1..Nesting /\ n - 1 \in 0..Nesting /\ n - 1 \notin bad
    BY <1>3, <2>3, <2>6, <2>7
  <2>9. QED
    BY <2>2, <2>3, <2>8
<1>11. ASSUME NEW n \in 0..Nesting, n = 0 \/ Alike(n - 1)
       PROVE  Alike(n)
  <2>1. SUFFICES ASSUME NEW pair \in P[Nesting - n]
        PROVE  WA[n][pair[1]] = WB[n][pair[2]]
    OBVIOUS
  <2> DEFINE l == pair[1]
             r == pair[2]
             lparts == IF n = 0 THEN <<>> ELSE WA[n - 1]
             rparts == IF n = 0 THEN <<>> ELSE WB[n - 1]
  <2>2. Nesting - n \in 0..Nesting
    BY <1>3
  <2>3. l \in A[Nesting - n] /\ r \in B[Nesting - n]
    BY <1>10, <2>2
  <2>4. JsonAlike(l, r) /\ ValueAlone(l) /\ ValueAlone(r)
    BY <1>7, <1>8, <2>2, <2>3
  <2>5. \A q \in MatchedParts(<<l, r>>) : lparts[q[1]] = rparts[q[2]]
    <3>1. SUFFICES ASSUME NEW q \in MatchedParts(<<l, r>>)
          PROVE  lparts[q[1]] = rparts[q[2]]
      OBVIOUS
    <3>2. CASE n = 0
      <4>1. ValueParts(l) = {}
        BY <1>3, <1>7, <2>3, <3>2
      <4>2. q[1] \in ValueParts(l)
        BY <1>9, <3>1
      <4>3. QED
        BY <4>1, <4>2
    <3>3. CASE n # 0
      <4>1. Nesting - (n - 1) \in 1..Nesting /\ (Nesting - (n - 1)) - 1 = Nesting - n
        BY <1>3, <3>3
      <4>2. MatchedParts(pair) = MatchedParts(<<l, r>>)
        BY DEF MatchedParts
      <4>3. q \in P[Nesting - (n - 1)]
        BY <1>5, <2>1, <3>1, <4>1, <4>2
      <4>4. WA[n - 1][q[1]] = WB[n - 1][q[2]]
        BY <1>11, <3>3, <4>3
      <4>5. QED
        BY <3>3, <4>4
    <3>4. QED
      BY <3>2, <3>3
  <2>6. WA[n][l] = WrittenWith(l, lparts) /\ WB[n][r] = WrittenWith(r, rparts)
    BY <1>6, <2>3
  <2> HIDE DEF lparts, rparts, l, r
  <2>7. WrittenWith(l, lparts) = WrittenWith(r, rparts)
    BY <2>4, <2>5, WrittenAlike
  <2>8. QED
    BY <2>6, <2>7 DEF l, r
<1>12. \A n \in 0..Nesting : Alike(n)
  <2> DEFINE bad == {n \in 0..Nesting : ~Alike(n)}
  <2>1. \A n : n \in bad <=> n \in 0..Nesting /\ ~Alike(n)
    OBVIOUS
  <2> HIDE DEF bad, Alike
  <2>2. bad \in SUBSET Nat
    BY <2>1
  <2>3. SUFFICES ASSUME bad # {} PROVE FALSE
    BY <2>1
  <2>4. PICK n \in bad : \A k \in bad : n <= k
    BY <2>2, <2>3, LeastNatural
  <2>5. n \in 0..Nesting /\ (n = 0 \/ (n - 1 \in 0..Nesting /\ n - 1 \notin bad))
    BY <1>3, <2>1, <2>4
  <2>6. QED
    BY <1>11, <2>1, <2>5
<1>13. WA[Nesting][a] = WB[Nesting][b]
  <2>1. Nesting \in 0..Nesting /\ Nesting - Nesting = 0
    BY <1>3
  <2>2. <<a, b>> \in P[Nesting - Nesting]
    BY <1>5, <2>1
  <2>3. QED
    BY <1>12, <2>1, <2>2
<1>14. QED
  BY <1>1, <1>2, <1>13

-----------------------------------------------------------------------------
(* Facts.                                                                   *)

Fields ==
  {"header", "places", "declared", "transitions", "facts", "handles", "arcs",
   "ranks", "markings", "uses", "wires", "refused"}

(* What the tables keep has been told by a fact that was let in.           *)
IsTold(f) ==
  \E s : /\ IsFact(s) /\ ValueAllowed(s)
         /\ s.about[1] \in MembersOf(s.about[2][1])
         /\ f = [about |-> s.about, given |-> Given(s)]

FactsTold(tb) ==
  /\ \A f \in tb.facts : IsTold(f)
  /\ \A f, g \in tb.facts : f.about = g.about => f = g

Kept(tb, s) ==
  \E f \in tb.facts : /\ f.about = s.about
                      /\ Spelling(f.about, f.given) = Spelling(f.about, Given(s))

(* A fact that has been told is a fact about a thing, of a value it may have.*)
LEMMA ToldFactIs ==
  ASSUME NEW f, IsTold(f)
  PROVE  /\ f.about \in STRING \X (STRING \X STRING) \X STRING
         /\ f.about[1] \in MembersOf(f.about[2][1])
         /\ f.about[1] \in JsonMembers => IsValue(f.given)
         /\ f.about[1] = "arc.weight" => f.given \in Int /\ f.given >= 1
<1>1. PICK s : /\ IsFact(s) /\ ValueAllowed(s)
               /\ s.about[1] \in MembersOf(s.about[2][1])
               /\ f = [about |-> s.about, given |-> Given(s)]
  BY DEF IsTold
<1>2. f.about = s.about /\ f.given = Given(s)
  BY <1>1
<1>3. /\ s.about \in STRING \X (STRING \X STRING) \X STRING
      /\ s.about[1] \in JsonMembers \cup {"arc.weight"} => IsText(s.given)
  BY <1>1 DEF IsFact
<1>4. s.about[1] \in JsonMembers \cup {"arc.weight"} => Readable(s.given)
  BY <1>1 DEF ValueAllowed
<1>5. s.about[1] \in JsonMembers \cup {"arc.weight"} => IsValue(ValueOf(s.given))
  BY <1>3, <1>4, ReadingIsSound
<1>6. s.about[1] \in JsonMembers => Given(s) = ValueOf(s.given)
  BY DEF Given, JsonMembers
<1>7. ASSUME s.about[1] = "arc.weight" PROVE Given(s) \in Int /\ Given(s) >= 1
  <2> DEFINE value == ValueOf(s.given)
  <2>1. Given(s) = value[2].halves \div 2
    BY <1>7 DEF Given, JsonMembers
  <2>2. IsPositive(value)
    BY <1>1, <1>7 DEF ValueAllowed
  <2> HIDE DEF value
  <2>3. value[1] = "number" /\ value[2].halves >= 2
    BY <2>2 DEF IsPositive
  <2>4. ValueAlone(value)
    <3>1. IsValue(value)
      BY <1>5, <1>7 DEF value
    <3>2. Levels(value, ValueParts)[0] = {value}
      BY ValueLevels
    <3>3. 0 \in 0..Nesting
      BY JsonAssumption
    <3> HIDE DEF ValueAlone
    <3>4. QED
      BY <3>1, <3>2, <3>3 DEF IsValue
  <2>5. value[2].halves \in Int
    BY <2>3, <2>4 DEF ValueAlone
  <2>6. \A n \in Int : n >= 2 => n \div 2 \in Int /\ n \div 2 >= 1
    OBVIOUS
  <2>7. QED
    BY <2>1, <2>3, <2>5, <2>6
<1>8. QED
  BY <1>1, <1>2, <1>3, <1>5, <1>6, <1>7

(* A fact that does not conflict is in the tables, spelled as it was told, *)
(* and no fact leaves them.                                                *)
LEMMA FactIsCollected ==
  ASSUME NEW tb, DOMAIN tb = Fields, FactsTold(tb), NEW s,
         IsFact(s), ValueAllowed(s), s.about[1] \in MembersOf(s.about[2][1])
  PROVE  LET c == CollectFact(tb, s)
         IN  /\ FactsTold(c) /\ tb.facts \subseteq c.facts
             /\ c = Refused(tb) \/ Kept(c, s)
<1> DEFINE c == CollectFact(tb, s)
           new == [about |-> s.about, given |-> Given(s)]
<1>1. CASE Conflicts(tb, s)
  <2>1. c = Refused(tb)
    BY <1>1 DEF CollectFact
  <2>2. Refused(tb).facts = tb.facts
    BY DEF Refused, Fields
  <2>3. QED
    BY <2>1, <2>2 DEF FactsTold
<1>2. CASE ~Conflicts(tb, s)
  <2>1. c.facts = IF Known(tb, s) # {} THEN tb.facts ELSE tb.facts \cup {new}
    BY <1>2 DEF CollectFact, Fields
  <2> HIDE DEF c
  <2>2. CASE Known(tb, s) = {}
    <3>1. c.facts = tb.facts \cup {new}
      BY <2>1, <2>2
    <3>2. \A f \in tb.facts : f.about # s.about
      BY <2>2 DEF Known
    <3>3. IsTold(new)
      BY DEF IsTold
    <3>4. new.about = s.about /\ new.given = Given(s)
      OBVIOUS
    <3> HIDE DEF new
    <3>5. FactsTold(c)
      BY <3>1, <3>2, <3>3, <3>4 DEF FactsTold
    <3>6. Kept(c, s)
      BY <3>1, <3>4 DEF Kept
    <3>7. QED
      BY <3>1, <3>5, <3>6 DEF c
  <2>3. CASE Known(tb, s) # {}
    <3>1. c.facts = tb.facts
      BY <2>1, <2>3
    <3>2. PICK f \in tb.facts : f.about = s.about /\ f.given \in Known(tb, s)
      BY <2>3 DEF Known
    <3>3. IF s.about[1] \in JsonMembers THEN JsonEqual(f.given, Given(s))
          ELSE f.given = Given(s)
      BY <1>2, <3>2 DEF Conflicts
    <3>4. Spelling(f.about, f.given) = Spelling(f.about, Given(s))
      <4>1. CASE s.about[1] \in JsonMembers
        <5>1. IsValue(f.given)
          BY <3>2, <4>1, ToldFactIs DEF FactsTold
        <5>2. IsTold(new) /\ new.about = s.about /\ new.given = Given(s)
          BY DEF IsTold
        <5> HIDE DEF new
        <5>3. IsValue(Given(s))
          BY <4>1, <5>2, ToldFactIs
        <5>4. Rendered(f.given) = Rendered(Given(s))
          BY <3>3, <4>1, <5>1, <5>3, EqualIsWrittenAlike
        <5>5. \A v : Spelling(f.about, v) = Rendered(v)
          BY <3>2, <4>1 DEF Spelling, Spelled, JsonMembers
        <5>6. QED
          BY <5>4, <5>5
      <4>2. CASE s.about[1] \notin JsonMembers
        BY <3>3, <4>2
      <4>3. QED
        BY <4>1, <4>2
    <3>5. Kept(c, s)
      BY <3>1, <3>2, <3>4 DEF Kept
    <3>6. FactsTold(c)
      BY <3>1 DEF FactsTold
    <3>7. QED
      BY <3>1, <3>5, <3>6 DEF c
  <2>4. QED
    BY <2>2, <2>3
<1>3. QED
  BY <1>1, <1>2

-----------------------------------------------------------------------------
(* Sources.                                                                 *)

SourceRecords == [header : Headers, statements : Seq(Statements)]

WrittenSoFar(srcs) == UNION {Elements(srcs[i].statements) : i \in DOMAIN srcs}

(* Runs that stand for a statement that has been written.                  *)
RunWritten(srcs, run) ==
  \E i \in DOMAIN srcs : \E j \in DOMAIN srcs[i].statements : run = <<i, j>>

(* What one more statement, s, known as run, makes of the sources.         *)
Extends(srcs, next, run, s) ==
  /\ next[1].header = srcs[1].header
  /\ WrittenSoFar(next) = WrittenSoFar(srcs) \cup {s}
  /\ run \in Nat \X Nat /\ ~RunWritten(srcs, run) /\ RunWritten(next, run)
  /\ \A r : RunWritten(srcs, r) => RunWritten(next, r)

(* A statement has been written where a source holds it.                    *)
LEMMA WrittenElements ==
  ASSUME NEW srcs \in Seq(SourceRecords)
  PROVE  Seqs!ToSet(Written(srcs)) = WrittenSoFar(srcs)
<1> DEFINE ss == [i \in DOMAIN srcs |-> srcs[i].statements]
<1>1. ss \in Seq(Seq(Statements)) /\ DOMAIN ss = DOMAIN srcs
  <2>1. DOMAIN srcs = 1..Len(srcs) /\ Len(srcs) \in Nat
    OBVIOUS
  <2>2. \A i \in DOMAIN srcs : srcs[i].statements \in Seq(Statements)
    <3>1. \A i \in DOMAIN srcs : srcs[i] \in SourceRecords
      OBVIOUS
    <3>2. QED
      BY <3>1 DEF SourceRecords
  <2>3. QED
    BY <2>1, <2>2
<1>2. \A i \in DOMAIN srcs : ss[i] = srcs[i].statements
  OBVIOUS
<1>3. Written(srcs) = Seqs!FlattenSeq(ss)
  BY DEF Written
<1> HIDE DEF ss
<1>4. Elements(Written(srcs)) = UNION {Elements(ss[i]) : i \in DOMAIN ss}
  BY <1>1, <1>3, FlattenedElements
<1>5. QED
  BY <1>1, <1>2, <1>4, ToSetIsElements DEF WrittenSoFar

(* A statement is written under a run no statement had before.              *)
LEMMA StatementIsAdded ==
  ASSUME NEW srcs \in Seq(SourceRecords), srcs # <<>>, NEW s \in Statements
  PROVE  LET c == Len(srcs)
             next == [srcs EXCEPT ![c].statements = Append(@, s)]
         IN  /\ next \in Seq(SourceRecords) /\ next # <<>>
             /\ Extends(srcs, next, RunIdentity(c, Len(srcs[c].statements) + 1), s)
<1> DEFINE c == Len(srcs)
           before == srcs[c].statements
           next == [srcs EXCEPT ![c].statements = Append(@, s)]
           run == <<c, Len(before) + 1>>
<1>1. c \in Nat \ {0} /\ DOMAIN srcs = 1..c /\ 1 \in 1..c /\ c \in 1..c
  OBVIOUS
<1>2. /\ before \in Seq(Statements) /\ Append(before, s) \in Seq(Statements)
      /\ Len(before) \in Nat
      /\ DOMAIN before = 1..Len(before) /\ Len(before) + 1 \notin DOMAIN before
      /\ DOMAIN Append(before, s) = 1..(Len(before) + 1)
  <2>1. srcs[c] \in SourceRecords
    BY <1>1
  <2>2. before \in Seq(Statements)
    BY <2>1 DEF SourceRecords
  <2> HIDE DEF before
  <2>3. QED
    BY <2>2
<1>3. /\ DOMAIN next = 1..c
      /\ \A i \in 1..c : i # c => next[i] = srcs[i]
      /\ next[c].statements = Append(before, s) /\ next[c].header = srcs[c].header
      /\ next[c] \in SourceRecords
  <2>1. srcs[c] \in SourceRecords
    BY <1>1
  <2>2. next[c] = [srcs[c] EXCEPT !.statements = Append(before, s)]
    BY <1>1
  <2>3. /\ DOMAIN next = 1..c
        /\ \A i \in 1..c : i # c => next[i] = srcs[i]
    BY <1>1
  <2> HIDE DEF next, before
  <2>4. QED
    BY <1>2, <2>1, <2>2, <2>3 DEF SourceRecords
<1>4. next \in Seq(SourceRecords) /\ next # <<>>
  <2>1. \A i \in 1..c : next[i] \in SourceRecords
    <3>1. \A i \in 1..c : srcs[i] \in SourceRecords
      BY <1>1
    <3>2. QED
      BY <1>3, <3>1
  <2>2. next = [i \in 1..c |-> next[i]]
    BY <1>1
  <2> HIDE DEF next
  <2>3. next \in [1..c -> SourceRecords]
    BY <2>1, <2>2
  <2>4. QED
    BY <1>1, <2>3
<1>5. RunIdentity(c, Len(before) + 1) = run /\ run \in Nat \X Nat
  BY <1>1, <1>2 DEF RunIdentity
<1> HIDE DEF next
<1>6. next[1].header = srcs[1].header
  BY <1>1, <1>3
<1>7. WrittenSoFar(next) = WrittenSoFar(srcs) \cup {s}
  <2>1. Elements(Append(before, s)) = Elements(before) \cup {s}
    BY <1>2, AppendDistinct
  <2> HIDE DEF c
  <2>2. \A x : x \in WrittenSoFar(next) <=>
                 \E i \in 1..c : x \in Elements(next[i].statements)
    BY <1>3 DEF WrittenSoFar
  <2>3. \A x : x \in WrittenSoFar(srcs) <=>
                 \E i \in 1..c : x \in Elements(srcs[i].statements)
    BY <1>1 DEF WrittenSoFar
  <2>4. \A i \in 1..c : Elements(next[i].statements) =
          IF i = c THEN Elements(before) \cup {s} ELSE Elements(srcs[i].statements)
    BY <1>3, <2>1
  <2>5. QED
    BY <1>1, <2>2, <2>3, <2>4
<1>8. ~RunWritten(srcs, run)
  BY <1>2 DEF RunWritten
<1>9. RunWritten(next, run)
  <2>1. c \in DOMAIN next
    BY <1>1, <1>3
  <2> HIDE DEF before
  <2>2. Len(before) + 1 \in DOMAIN next[c].statements
    BY <1>2, <1>3
  <2>3. QED
    BY <2>1, <2>2 DEF RunWritten
<1>10. \A r : RunWritten(srcs, r) => RunWritten(next, r)
  <2>1. \A i \in 1..c : DOMAIN srcs[i].statements \subseteq DOMAIN next[i].statements
    BY <1>2, <1>3
  <2>2. QED
    BY <1>1, <1>3, <2>1 DEF RunWritten
<1>11. QED
  BY <1>4, <1>5, <1>6, <1>7, <1>8, <1>9, <1>10 DEF Extends, next

(* A source that begins changes nothing of what was written.                *)
LEMMA SourceIsAdded ==
  ASSUME NEW srcs \in Seq(SourceRecords), srcs # <<>>, NEW header \in Headers
  PROVE  LET next == Append(srcs, [header |-> header, statements |-> <<>>])
         IN  /\ next \in Seq(SourceRecords) /\ next # <<>>
             /\ next[1].header = srcs[1].header
             /\ WrittenSoFar(next) = WrittenSoFar(srcs)
             /\ \A r : RunWritten(srcs, r) => RunWritten(next, r)
<1> DEFINE last == [header |-> header, statements |-> <<>>]
           next == Append(srcs, last)
           n == Len(srcs)
<1>1. n \in Nat \ {0} /\ DOMAIN srcs = 1..n /\ 1 \in 1..n
  OBVIOUS
<1>2. last \in SourceRecords /\ Elements(last.statements) = {}
  BY DEF SourceRecords, Elements
<1>3. last.statements = <<>>
  OBVIOUS
<1> HIDE DEF last
<1>4. /\ next \in Seq(SourceRecords) /\ next # <<>> /\ DOMAIN next = 1..(n + 1)
      /\ \A i \in 1..n : next[i] = srcs[i]
      /\ next[n + 1] = last
  BY <1>1, <1>2
<1> HIDE DEF next, n
<1>5. \A i : i \in 1..(n + 1) <=> i \in 1..n \/ i = n + 1
  BY <1>1
<1>6. next[1].header = srcs[1].header
  BY <1>1, <1>4
<1>7. WrittenSoFar(next) = WrittenSoFar(srcs)
  <2>1. \A x : x \in WrittenSoFar(next) <=>
                 \E i \in 1..(n + 1) : x \in Elements(next[i].statements)
    BY <1>4 DEF WrittenSoFar
  <2>2. \A x : x \in WrittenSoFar(srcs) <=>
                 \E i \in 1..n : x \in Elements(srcs[i].statements)
    BY <1>1 DEF WrittenSoFar
  <2>3. QED
    BY <1>2, <1>4, <1>5, <2>1, <2>2
<1>8. \A r : RunWritten(srcs, r) => RunWritten(next, r)
  BY <1>1, <1>4, <1>5 DEF RunWritten
<1>9. QED
  BY <1>4, <1>6, <1>7, <1>8 DEF next, last

-----------------------------------------------------------------------------
(* Tables that tell what has been written.                                  *)

HeaderAgrees(srcs, tb) == KindOf(tb.header) = KindOf(srcs[1].header)

FactsKept(srcs, tb) ==
  \A s \in WrittenSoFar(srcs) : s.kind = "fact" => Kept(tb, s)

Arcs ==
  [run : Nat \X Nat, place : STRING, transition : STRING,
   mode : {"consume", "read", "inhibit", "produce"}, color : STRING]

NamesListed(tb) ==
  /\ tb.places \in Seq(STRING) /\ Distinct(tb.places)
  /\ tb.transitions \in Seq(STRING) /\ Distinct(tb.transitions)
  /\ tb.arcs \in Seq(Arcs)
  /\ \A i \in DOMAIN tb.arcs : /\ tb.arcs[i].place \in Elements(tb.places)
                               /\ tb.arcs[i].transition \in Elements(tb.transitions)

RanksApart(tb) ==
  /\ \A r, q \in tb.ranks : r.of = q.of => r = q
  /\ \A r, q \in tb.ranks :
       /\ r.of[1] = "transition" /\ q.of[1] = "transition"
       /\ r.rank = q.rank
       => r = q
  /\ \A r \in tb.ranks : r.of \in STRING \X STRING

(* The arcs of a run are its chain's segments, one after the other.        *)
Laid(arcs, run, s) ==
  \E o \in Nat :
    /\ \A k \in DOMAIN s.segments : /\ o + k \in DOMAIN arcs
                                    /\ arcs[o + k] = ArcOf(run, s.segments[k])
    /\ \A i \in DOMAIN arcs :
         arcs[i].run = run => \E k \in DOMAIN s.segments : i = o + k

Names(s, h) == s.kind = "chain" /\ s.handle = {h.name}

HandlesTell(srcs, tb) ==
  /\ tb.handles \in SUBSET [name : STRING, run : Nat \X Nat]
  /\ IsFiniteSet(tb.handles)
  /\ \A h, g \in tb.handles : h.name = g.name \/ h.run = g.run => h = g
  /\ \A h \in tb.handles : RunWritten(srcs, h.run)
  /\ \A i \in DOMAIN tb.arcs : RunWritten(srcs, tb.arcs[i].run)
  /\ \A h \in tb.handles :
       \E s \in WrittenSoFar(srcs) : Names(s, h) /\ Laid(tb.arcs, h.run, s)
  /\ \A s \in WrittenSoFar(srcs) :
       s.kind = "chain" /\ s.handle # {} => \E h \in tb.handles : Names(s, h)
  /\ \A s, t \in WrittenSoFar(srcs) :
       /\ s.kind = "chain" /\ t.kind = "chain"
       /\ s.handle = t.handle /\ s.handle # {}
       => s = t

Sound(srcs, tb) ==
  /\ HeaderAgrees(srcs, tb)
  /\ FactsKept(srcs, tb)
  /\ NamesListed(tb)
  /\ RanksApart(tb)
  /\ HandlesTell(srcs, tb)

(* A name appears in a list once.                                           *)
LEMMA AppearDistinct ==
  ASSUME NEW S, NEW names \in Seq(S), Distinct(names), NEW x \in S
  PROVE  /\ Appear(names, x) \in Seq(S) /\ Distinct(Appear(names, x))
         /\ Elements(Appear(names, x)) = Elements(names) \cup {x}
<1>1. Seqs!ToSet(names) = Elements(names)
  BY ToSetIsElements
<1>2. CASE x \in Elements(names)
  BY <1>1, <1>2 DEF Appear
<1>3. CASE x \notin Elements(names)
  <2>1. Appear(names, x) = Append(names, x)
    BY <1>1, <1>3 DEF Appear
  <2>2. QED
    BY <1>3, <2>1, AppendDistinct
<1>4. QED
  BY <1>2, <1>3

(* A statement that is no chain leaves the runs as they are.               *)
LEMMA HandlesStand ==
  ASSUME NEW srcs, NEW next, NEW run, NEW s, Extends(srcs, next, run, s),
         s.kind # "chain", NEW tb, NEW c, HandlesTell(srcs, tb),
         c.handles = tb.handles, c.arcs = tb.arcs
  PROVE  HandlesTell(next, c)
<1>1. \A r : RunWritten(srcs, r) => RunWritten(next, r)
  BY DEF Extends
<1>2. WrittenSoFar(next) = WrittenSoFar(srcs) \cup {s}
  BY DEF Extends
<1>3. \A h \in tb.handles : ~Names(s, h)
  BY DEF Names
<1>4. QED
  BY <1>1, <1>2, <1>3 DEF HandlesTell

(* What is kept stays kept when facts are added.                           *)
LEMMA KeptStays ==
  ASSUME NEW srcs, NEW next, NEW run, NEW s, Extends(srcs, next, run, s),
         NEW tb, NEW c, FactsKept(srcs, tb), tb.facts \subseteq c.facts,
         s.kind = "fact" => Kept(c, s)
  PROVE  FactsKept(next, c)
<1>1. WrittenSoFar(next) = WrittenSoFar(srcs) \cup {s}
  BY DEF Extends
<1>2. \A x : Kept(tb, x) => Kept(c, x)
  BY DEF Kept
<1>3. QED
  BY <1>1, <1>2 DEF FactsKept

(* A header that agreed still agrees when more has been written.            *)
LEMMA HeaderStands ==
  ASSUME NEW srcs, NEW next, NEW run, NEW s, Extends(srcs, next, run, s),
         NEW tb, NEW c, HeaderAgrees(srcs, tb), c.header = tb.header
  PROVE  HeaderAgrees(next, c)
BY DEF HeaderAgrees, Extends

(* Collecting a declared place or transition keeps what the tables tell.    *)
LEMMA DeclarationKeeps ==
  ASSUME NEW srcs, NEW next, NEW run, NEW s, Extends(srcs, next, run, s),
         NEW tb, DOMAIN tb = Fields, Sound(srcs, tb),
         s.kind \in {"place", "transition"}, s.name \in STRING
  PROVE  Sound(next, CollectDeclaration(tb, s))
<1> DEFINE c == CollectDeclaration(tb, s)
<1>1. /\ c.header = tb.header /\ c.facts = tb.facts /\ c.handles = tb.handles
      /\ c.arcs = tb.arcs /\ c.ranks = tb.ranks
      /\ c.places \in {tb.places, Appear(tb.places, s.name)}
      /\ c.transitions \in {tb.transitions, Appear(tb.transitions, s.name)}
  BY DEF CollectDeclaration, Fields
<1> HIDE DEF c
<1>2. HeaderAgrees(next, c)
  BY <1>1, HeaderStands DEF Sound
<1>3. FactsKept(next, c)
  BY <1>1, KeptStays DEF Sound
<1>4. NamesListed(c)
  <2>1. NamesListed(tb)
    BY DEF Sound
  <2>2. /\ c.places \in Seq(STRING) /\ Distinct(c.places)
        /\ Elements(tb.places) \subseteq Elements(c.places)
    BY <1>1, <2>1, AppearDistinct DEF NamesListed
  <2>3. /\ c.transitions \in Seq(STRING) /\ Distinct(c.transitions)
        /\ Elements(tb.transitions) \subseteq Elements(c.transitions)
    BY <1>1, <2>1, AppearDistinct DEF NamesListed
  <2>4. QED
    BY <1>1, <2>1, <2>2, <2>3 DEF NamesListed
<1>5. RanksApart(c)
  BY <1>1 DEF Sound, RanksApart
<1>6. HandlesTell(next, c)
  BY <1>1, HandlesStand DEF Sound
<1>7. QED
  BY <1>2, <1>3, <1>4, <1>5, <1>6 DEF Sound, c

(* Collecting an order keeps what the tables tell.                          *)
LEMMA OrderKeeps ==
  ASSUME NEW srcs, NEW next, NEW run, NEW s, Extends(srcs, next, run, s),
         NEW tb, DOMAIN tb = Fields, Sound(srcs, tb),
         s.kind = "order", s.of \in STRING \X STRING
  PROVE  LET c == CollectOrder(tb, s)
         IN  c = Refused(tb) \/ Sound(next, c)
<1> DEFINE c == CollectOrder(tb, s)
           r == [of |-> s.of, rank |-> s.rank]
<1>1. SUFFICES ASSUME c # Refused(tb) PROVE Sound(next, c)
  OBVIOUS
<1>2. /\ \A q \in tb.ranks : q.of # s.of
      /\ s.of[1] = "transition" =>
           \A q \in tb.ranks : q.of[1] = "transition" => q.rank # s.rank
      /\ c = [tb EXCEPT !.ranks = @ \cup {r}]
  BY <1>1 DEF CollectOrder
<1>3. /\ c.header = tb.header /\ c.facts = tb.facts /\ c.handles = tb.handles
      /\ c.arcs = tb.arcs /\ c.places = tb.places
      /\ c.transitions = tb.transitions
      /\ c.ranks = tb.ranks \cup {r}
  BY <1>2 DEF Fields
<1>4. r.of = s.of /\ r.rank = s.rank
  OBVIOUS
<1> HIDE DEF c, r
<1>5. HeaderAgrees(next, c)
  BY <1>3, HeaderStands DEF Sound
<1>6. FactsKept(next, c)
  BY <1>3, KeptStays DEF Sound
<1>7. NamesListed(c)
  BY <1>3 DEF Sound, NamesListed
<1>8. RanksApart(c)
  BY <1>2, <1>3, <1>4 DEF Sound, RanksApart
<1>9. HandlesTell(next, c)
  BY <1>3, HandlesStand DEF Sound
<1>10. QED
  BY <1>5, <1>6, <1>7, <1>8, <1>9 DEF Sound

(* Collecting a fact keeps what the tables tell.                            *)
LEMMA FactKeeps ==
  ASSUME NEW srcs, NEW next, NEW run, NEW s, Extends(srcs, next, run, s),
         NEW tb, DOMAIN tb = Fields, FactsTold(tb), Sound(srcs, tb),
         IsFact(s), ValueAllowed(s), s.about[1] \in MembersOf(s.about[2][1])
  PROVE  LET c == CollectFact(tb, s)
         IN  c = Refused(tb) \/ Sound(next, c)
<1> DEFINE c == CollectFact(tb, s)
<1>1. SUFFICES ASSUME c # Refused(tb) PROVE Sound(next, c)
  OBVIOUS
<1>2. tb.facts \subseteq c.facts /\ Kept(c, s)
  BY <1>1, FactIsCollected
<1>3. /\ c.header = tb.header /\ c.handles = tb.handles
      /\ c.arcs = tb.arcs /\ c.ranks = tb.ranks
      /\ c.transitions = tb.transitions
      /\ c.places \in {tb.places, Appear(tb.places, s.about[2][2])}
  BY <1>1 DEF CollectFact, Fields
<1> HIDE DEF c
<1>4. s.kind = "fact" /\ s.about[2][2] \in STRING
  BY DEF IsFact
<1> DEFINE p == s.about[2][2]
<1>p. p \in STRING /\ c.places \in {tb.places, Appear(tb.places, p)}
  BY <1>3, <1>4
<1> HIDE DEF p
<1>5. HeaderAgrees(next, c)
  BY <1>3, HeaderStands DEF Sound
<1>6. FactsKept(next, c)
  BY <1>2, KeptStays DEF Sound
<1>7. NamesListed(c)
  <2>1. NamesListed(tb)
    BY DEF Sound
  <2>2. /\ c.places \in Seq(STRING) /\ Distinct(c.places)
        /\ Elements(tb.places) \subseteq Elements(c.places)
    BY <1>p, <2>1, AppearDistinct DEF NamesListed
  <2>3. QED
    BY <1>3, <2>1, <2>2 DEF NamesListed
<1>8. RanksApart(c)
  BY <1>3 DEF Sound, RanksApart
<1>9. HandlesTell(next, c)
  <2>1. s.kind # "chain"
    BY <1>4
  <2>2. QED
    BY <1>3, <2>1, HandlesStand DEF Sound
<1>10. QED
  BY <1>5, <1>6, <1>7, <1>8, <1>9 DEF Sound

ChainArcs(more, run, s) ==
  more = [i \in DOMAIN s.segments |-> ArcOf(run, s.segments[i])]

OfChain(arc, run, s) == \E k \in DOMAIN s.segments : arc = ArcOf(run, s.segments[k])

(* A chain's arcs are laid after the others, under a run of their own.      *)
LEMMA ChainIsLaid ==
  ASSUME NEW arcs \in Seq(Arcs), NEW run \in Nat \X Nat, NEW s,
         s.segments \in Seq(Segments), \A i \in DOMAIN arcs : arcs[i].run # run,
         NEW more, ChainArcs(more, run, s),
         NEW all, all = arcs \o more
  PROVE  /\ all \in Seq(Arcs)
         /\ Laid(all, run, s)
         /\ \A r, t : r # run /\ Laid(arcs, r, t) => Laid(all, r, t)
         /\ \A i \in DOMAIN all :
              (i \in DOMAIN arcs /\ all[i] = arcs[i]) \/ OfChain(all[i], run, s)
<1> DEFINE n == Len(arcs)
           m == Len(s.segments)
<1>1. /\ n \in Nat /\ m \in Nat /\ DOMAIN arcs = 1..n /\ DOMAIN s.segments = 1..m
  OBVIOUS
<1>m. Len(arcs) = n /\ Len(s.segments) = m
  OBVIOUS
<1> HIDE DEF n, m
<1>2. \A k \in 1..m : /\ ArcOf(run, s.segments[k]) \in Arcs
                      /\ ArcOf(run, s.segments[k]).run = run
  <2>1. \A k \in 1..m : s.segments[k] \in Segments
    BY <1>1
  <2>2. QED
    BY <2>1 DEF Segments, Arcs, ArcOf
<1>3. DOMAIN more = 1..m /\ \A k \in 1..m : more[k] = ArcOf(run, s.segments[k])
  BY <1>1 DEF ChainArcs
<1>4. more \in Seq(Arcs) /\ Len(more) = m /\ \A k \in 1..m : more[k].run = run
  <2>1. more = [k \in 1..m |-> more[k]]
    BY <1>1 DEF ChainArcs
  <2>2. more \in [1..m -> Arcs]
    BY <1>2, <1>3, <2>1
  <2>3. QED
    BY <1>1, <1>2, <1>3, <2>2
<1>5. /\ all \in Seq(Arcs) /\ DOMAIN all = 1..(n + m)
      /\ \A i \in 1..n : all[i] = arcs[i]
      /\ \A k \in 1..m : all[n + k] = more[k]
  <2> DEFINE whole == arcs \o more
  <2>0. /\ whole \in Seq(Arcs) /\ Len(whole) = Len(arcs) + Len(more)
        /\ \A i \in 1..(Len(arcs) + Len(more)) :
             whole[i] = IF i <= Len(arcs) THEN arcs[i] ELSE more[i - Len(arcs)]
    BY <1>4
  <2>a. all = whole
    OBVIOUS
  <2> HIDE DEF whole
  <2>1. /\ all \in Seq(Arcs) /\ Len(all) = n + m
        /\ \A i \in 1..(n + m) : all[i] = IF i <= n THEN arcs[i] ELSE more[i - n]
    BY <1>m, <1>4, <2>0, <2>a
  <2>2. DOMAIN all = 1..(n + m)
    BY <2>1
  <2>3. \A i \in 1..n : all[i] = arcs[i]
    BY <1>1, <2>1
  <2>4. \A k \in 1..m : all[n + k] = more[k]
    <3>1. SUFFICES ASSUME NEW k \in 1..m PROVE all[n + k] = more[k]
      OBVIOUS
    <3>2. n + k \in 1..(n + m) /\ ~(n + k <= n) /\ n + k - n = k
      BY <1>1
    <3>3. QED
      BY <1>1, <2>1, <3>2
  <2>5. QED
    BY <2>1, <2>2, <2>3, <2>4
<1>6. \A i \in 1..(n + m) : i \in 1..n \/ \E k \in 1..m : i = n + k
  <2>1. SUFFICES ASSUME NEW i \in 1..(n + m), i \notin 1..n
        PROVE  \E k \in 1..m : i = n + k
    OBVIOUS
  <2>2. i - n \in 1..m /\ i = n + (i - n)
    BY <1>1, <2>1
  <2>3. QED
    BY <2>2
<1>7. \A k \in 1..m : n + k \in 1..(n + m) /\ n + k \notin 1..n
  BY <1>1
<1>8. Laid(all, run, s)
  <2>1. \A k \in 1..m : n + k \in DOMAIN all /\ all[n + k] = ArcOf(run, s.segments[k])
    BY <1>3, <1>5, <1>7
  <2>2. \A i \in DOMAIN all : all[i].run = run => \E k \in 1..m : i = n + k
    BY <1>1, <1>5, <1>6
  <2>3. /\ n \in Nat
        /\ \A k \in DOMAIN s.segments :
             n + k \in DOMAIN all /\ all[n + k] = ArcOf(run, s.segments[k])
        /\ \A i \in DOMAIN all :
             all[i].run = run => \E k \in DOMAIN s.segments : i = n + k
    BY <1>1, <2>1, <2>2
  <2>4. QED
    BY <2>3 DEF Laid
<1>9. ASSUME NEW r, NEW t, r # run, Laid(arcs, r, t) PROVE Laid(all, r, t)
  <2>1. PICK o \in Nat :
          /\ \A k \in DOMAIN t.segments : /\ o + k \in DOMAIN arcs
                                          /\ arcs[o + k] = ArcOf(r, t.segments[k])
          /\ \A i \in DOMAIN arcs :
               arcs[i].run = r => \E k \in DOMAIN t.segments : i = o + k
    BY <1>9 DEF Laid
  <2>2. \A i \in 1..n : i \in 1..(n + m)
    BY <1>1
  <2>3. \A k \in DOMAIN t.segments :
          o + k \in DOMAIN all /\ all[o + k] = ArcOf(r, t.segments[k])
    BY <1>1, <1>5, <2>1, <2>2
  <2>4. \A i \in DOMAIN all : all[i].run = r => i \in 1..n
    <3>1. SUFFICES ASSUME NEW i \in DOMAIN all, i \notin 1..n PROVE all[i].run = run
      BY <1>9
    <3>2. PICK k \in 1..m : i = n + k
      BY <1>5, <1>6, <3>1
    <3>3. QED
      BY <1>4, <1>5, <3>2
  <2>5. \A i \in DOMAIN all : all[i].run = r => \E k \in DOMAIN t.segments : i = o + k
    BY <1>1, <1>5, <2>1, <2>4
  <2>6. QED
    BY <2>3, <2>5 DEF Laid
<1>10. \A i \in DOMAIN all :
          (i \in DOMAIN arcs /\ all[i] = arcs[i]) \/ OfChain(all[i], run, s)
  <2>1. SUFFICES ASSUME NEW i \in DOMAIN all, i \notin 1..n
        PROVE  OfChain(all[i], run, s)
    BY <1>1, <1>5
  <2>2. PICK k \in 1..m : i = n + k
    BY <1>5, <1>6, <2>1
  <2>3. all[i] = ArcOf(run, s.segments[k])
    BY <1>3, <1>5, <2>2
  <2>4. QED
    BY <1>1, <2>2, <2>3 DEF OfChain
<1>11. QED
  BY <1>5, <1>8, <1>9, <1>10

(* Names that are appended and listed once: none is lost, none comes twice. *)
LEMMA ListedAfter ==
  ASSUME NEW names \in Seq(STRING), NEW more \in Seq(STRING)
  PROVE  LET listed == FirstOf(names \o more)
         IN  /\ listed \in Seq(STRING) /\ Distinct(listed)
             /\ Elements(names) \subseteq Elements(listed)
             /\ Elements(more) \subseteq Elements(listed)
<1>1. /\ names \o more \in Seq(STRING)
      /\ Elements(names \o more) = Elements(names) \cup Elements(more)
  BY ConcatDistinct
<1>2. /\ FirstOf(names \o more) \in Seq(STRING) /\ Distinct(FirstOf(names \o more))
      /\ Elements(FirstOf(names \o more)) = Elements(names \o more)
  BY <1>1, FirstOfDistinct
<1>3. QED
  BY <1>1, <1>2

(* Collecting a chain keeps what the tables tell.                           *)
LEMMA ChainKeeps ==
  ASSUME NEW srcs, NEW next, NEW run, NEW s, Extends(srcs, next, run, s),
         NEW tb, DOMAIN tb = Fields, Sound(srcs, tb),
         s.kind = "chain", s.handle \in SUBSET STRING,
         \A h, g \in s.handle : h = g, s.segments \in Seq(Segments)
  PROVE  LET c == CollectChain(tb, run, s)
         IN  c = Refused(tb) \/ Sound(next, c)
<1> DEFINE c == CollectChain(tb, run, s)
           named == {[name |-> h, run |-> run] : h \in s.handle}
           more == [i \in DOMAIN s.segments |-> ArcOf(run, s.segments[i])]
           places == [i \in DOMAIN s.segments |-> s.segments[i].place]
           transitions == [i \in DOMAIN s.segments |-> s.segments[i].transition]
<1>1. SUFFICES ASSUME c # Refused(tb) PROVE Sound(next, c)
  OBVIOUS
<1>2. /\ \A h \in s.handle : \A g \in tb.handles : g.name # h
      /\ c = [tb EXCEPT !.handles = @ \cup named,
                        !.places = FirstOf(@ \o places),
                        !.transitions = FirstOf(@ \o transitions),
                        !.arcs = @ \o more]
  BY <1>1 DEF CollectChain
<1>3. /\ c.header = tb.header /\ c.facts = tb.facts /\ c.ranks = tb.ranks
      /\ c.handles = tb.handles \cup named
      /\ c.places = FirstOf(tb.places \o places)
      /\ c.transitions = FirstOf(tb.transitions \o transitions)
      /\ c.arcs = tb.arcs \o more
  BY <1>2 DEF Fields
<1> HIDE DEF c
<1>4. /\ WrittenSoFar(next) = WrittenSoFar(srcs) \cup {s}
      /\ run \in Nat \X Nat /\ ~RunWritten(srcs, run) /\ RunWritten(next, run)
      /\ \A r : RunWritten(srcs, r) => RunWritten(next, r)
  BY DEF Extends
<1>5. NamesListed(tb) /\ HandlesTell(srcs, tb)
  BY DEF Sound
<1>6. tb.arcs \in Seq(Arcs) /\ \A i \in DOMAIN tb.arcs : tb.arcs[i].run # run
  BY <1>4, <1>5 DEF NamesListed, HandlesTell
<1>7. /\ c.arcs \in Seq(Arcs)
      /\ Laid(c.arcs, run, s)
      /\ \A r, t : r # run /\ Laid(tb.arcs, r, t) => Laid(c.arcs, r, t)
      /\ \A i \in DOMAIN c.arcs :
           (i \in DOMAIN tb.arcs /\ c.arcs[i] = tb.arcs[i]) \/ OfChain(c.arcs[i], run, s)
  <2>1. tb.arcs \in Seq(Arcs) /\ run \in Nat \X Nat
    BY <1>4, <1>6
  <2>2. ChainArcs(more, run, s)
    BY DEF ChainArcs
  <2> HIDE DEF more
  <2> DEFINE before == tb.arcs
             after == c.arcs
  <2>3. /\ before \in Seq(Arcs) /\ after = before \o more
        /\ \A i \in DOMAIN before : before[i].run # run
    BY <1>3, <1>6
  <2> HIDE DEF before, after
  <2>4. after \in Seq(Arcs) /\ Laid(after, run, s)
    BY <2>1, <2>2, <2>3, ChainIsLaid
  <2>5. \A r, t : r # run /\ Laid(before, r, t) => Laid(after, r, t)
    BY <2>1, <2>2, <2>3, ChainIsLaid
  <2>6. \A i \in DOMAIN after :
          (i \in DOMAIN before /\ after[i] = before[i]) \/ OfChain(after[i], run, s)
    BY <2>1, <2>2, <2>3, ChainIsLaid
  <2>7. QED
    BY <2>4, <2>5, <2>6 DEF before, after
<1>8. HeaderAgrees(next, c)
  BY <1>3, HeaderStands DEF Sound
<1>9. FactsKept(next, c)
  BY <1>3, KeptStays DEF Sound
<1>10. NamesListed(c)
  <2>1. /\ c.places \in Seq(STRING) /\ Distinct(c.places)
        /\ Elements(tb.places) \subseteq Elements(c.places)
        /\ \A k \in DOMAIN s.segments : s.segments[k].place \in Elements(c.places)
    <3>1. /\ places \in Seq(STRING)
          /\ \A k \in DOMAIN s.segments : s.segments[k].place \in Elements(places)
      <4>1. \A k \in DOMAIN s.segments : s.segments[k].place \in STRING
        <5>1. \A k \in DOMAIN s.segments : s.segments[k] \in Segments
          OBVIOUS
        <5>2. QED
          BY <5>1 DEF Segments
      <4>2. DOMAIN s.segments = 1..Len(s.segments) /\ Len(s.segments) \in Nat
        OBVIOUS
      <4>3. places \in Seq(STRING)
        BY <4>1, <4>2
      <4>4. DOMAIN places = DOMAIN s.segments
        OBVIOUS
      <4>5. \A k \in DOMAIN s.segments : places[k] = s.segments[k].place
        OBVIOUS
      <4> HIDE DEF places
      <4>6. QED
        BY <4>3, <4>4, <4>5 DEF Elements
    <3> HIDE DEF places
    <3>2. tb.places \in Seq(STRING)
      BY <1>5 DEF NamesListed
    <3>3. QED
      BY <1>3, <3>1, <3>2, ListedAfter
  <2>2. /\ c.transitions \in Seq(STRING) /\ Distinct(c.transitions)
        /\ Elements(tb.transitions) \subseteq Elements(c.transitions)
        /\ \A k \in DOMAIN s.segments : s.segments[k].transition \in Elements(c.transitions)
    <3>1. /\ transitions \in Seq(STRING)
          /\ \A k \in DOMAIN s.segments : s.segments[k].transition \in Elements(transitions)
      <4>1. \A k \in DOMAIN s.segments : s.segments[k].transition \in STRING
        <5>1. \A k \in DOMAIN s.segments : s.segments[k] \in Segments
          OBVIOUS
        <5>2. QED
          BY <5>1 DEF Segments
      <4>2. DOMAIN s.segments = 1..Len(s.segments) /\ Len(s.segments) \in Nat
        OBVIOUS
      <4>3. transitions \in Seq(STRING)
        BY <4>1, <4>2
      <4>4. DOMAIN transitions = DOMAIN s.segments
        OBVIOUS
      <4>5. \A k \in DOMAIN s.segments : transitions[k] = s.segments[k].transition
        OBVIOUS
      <4> HIDE DEF transitions
      <4>6. QED
        BY <4>3, <4>4, <4>5 DEF Elements
    <3> HIDE DEF transitions
    <3>2. tb.transitions \in Seq(STRING)
      BY <1>5 DEF NamesListed
    <3>3. QED
      BY <1>3, <3>1, <3>2, ListedAfter
  <2>3. \A k \in DOMAIN s.segments :
          /\ ArcOf(run, s.segments[k]).place = s.segments[k].place
          /\ ArcOf(run, s.segments[k]).transition = s.segments[k].transition
    BY DEF ArcOf
  <2>4. \A i \in DOMAIN c.arcs : /\ c.arcs[i].place \in Elements(c.places)
                                 /\ c.arcs[i].transition \in Elements(c.transitions)
    <3>1. SUFFICES ASSUME NEW i \in DOMAIN c.arcs
          PROVE  /\ c.arcs[i].place \in Elements(c.places)
                 /\ c.arcs[i].transition \in Elements(c.transitions)
      OBVIOUS
    <3>2. CASE i \in DOMAIN tb.arcs /\ c.arcs[i] = tb.arcs[i]
      BY <1>5, <2>1, <2>2, <3>2 DEF NamesListed
    <3>3. CASE OfChain(c.arcs[i], run, s)
      BY <2>1, <2>2, <2>3, <3>3 DEF OfChain
    <3>4. QED
      BY <1>7, <3>2, <3>3
  <2>5. QED
    BY <1>7, <2>1, <2>2, <2>4 DEF NamesListed
<1>11. RanksApart(c)
  BY <1>3 DEF Sound, RanksApart
<1>12. HandlesTell(next, c)
  <2>1. \A h : h \in named <=> \E name \in s.handle : h = [name |-> name, run |-> run]
    OBVIOUS
  <2>2. /\ named \in SUBSET [name : STRING, run : Nat \X Nat]
        /\ IsFiniteSet(named)
        /\ \A h, g \in named : h = g
        /\ \A h \in named : h.run = run /\ Names(s, h)
        /\ s.handle # {} => named # {}
    <3>1. named \in SUBSET [name : STRING, run : Nat \X Nat]
      BY <1>4, <2>1
    <3>2. \A h, g \in named : h = g
      BY <2>1
    <3>3. named = {} \/ \E h : named = {h}
      <4>1. SUFFICES ASSUME named # {} PROVE \E h : named = {h}
        OBVIOUS
      <4>2. PICK h \in named : TRUE
        BY <4>1
      <4> HIDE DEF named
      <4>3. named = {h}
        BY <3>2, <4>2
      <4>4. QED
        BY <4>3
    <3>4. IsFiniteSet(named)
      BY <3>3, FS_EmptySet, FS_Singleton
    <3>5. \A h \in named : h.run = run /\ Names(s, h)
      <4>1. SUFFICES ASSUME NEW h \in named PROVE h.run = run /\ Names(s, h)
        OBVIOUS
      <4>2. PICK name \in s.handle : h = [name |-> name, run |-> run]
        BY <2>1
      <4>3. s.handle = {name}
        OBVIOUS
      <4>4. QED
        BY <4>2, <4>3 DEF Names
    <3>6. s.handle # {} => named # {}
      BY <2>1
    <3>7. QED
      BY <3>1, <3>2, <3>4, <3>5, <3>6
  <2> HIDE DEF named, more, places, transitions
  <2>3. \A h \in named : \A g \in tb.handles : h.name # g.name /\ h.run # g.run
    <3>1. \A h \in named : h.name \in s.handle
      BY <2>2 DEF Names
    <3>2. \A g \in tb.handles : g.run # run
      BY <1>4, <1>5 DEF HandlesTell
    <3>3. QED
      BY <1>2, <2>2, <3>1, <3>2
  <2>4. IsFiniteSet(c.handles)
    <3>1. IsFiniteSet(tb.handles)
      BY <1>5 DEF HandlesTell
    <3>2. IsFiniteSet(tb.handles \cup named)
      BY <2>2, <3>1, FS_Union
    <3>3. QED
      BY <1>3, <3>2
  <2>5. c.handles \in SUBSET [name : STRING, run : Nat \X Nat]
    BY <1>3, <1>5, <2>2 DEF HandlesTell
  <2>6. \A h, g \in c.handles : h.name = g.name \/ h.run = g.run => h = g
    BY <1>3, <1>5, <2>2, <2>3 DEF HandlesTell
  <2>7. \A h \in c.handles : RunWritten(next, h.run)
    BY <1>3, <1>4, <1>5, <2>2 DEF HandlesTell
  <2>8. \A i \in DOMAIN c.arcs : RunWritten(next, c.arcs[i].run)
    <3>1. \A k \in DOMAIN s.segments : ArcOf(run, s.segments[k]).run = run
      BY DEF ArcOf
    <3>2. QED
      BY <1>4, <1>5, <1>7, <3>1 DEF HandlesTell, OfChain
  <2>9. \A h \in c.handles :
          \E t \in WrittenSoFar(next) : Names(t, h) /\ Laid(c.arcs, h.run, t)
    <3>1. SUFFICES ASSUME NEW h \in c.handles
          PROVE  \E t \in WrittenSoFar(next) : Names(t, h) /\ Laid(c.arcs, h.run, t)
      OBVIOUS
    <3>2. CASE h \in named
      <4>1. h.run = run /\ Names(s, h) /\ s \in WrittenSoFar(next)
        BY <1>4, <2>2, <3>2
      <4>2. QED
        BY <1>7, <4>1
    <3>3. CASE h \in tb.handles
      <4>1. PICK t \in WrittenSoFar(srcs) : Names(t, h) /\ Laid(tb.arcs, h.run, t)
        BY <1>5, <3>3 DEF HandlesTell
      <4>2. h.run # run
        BY <1>4, <1>5, <3>3 DEF HandlesTell
      <4>3. Laid(c.arcs, h.run, t) /\ t \in WrittenSoFar(next)
        BY <1>4, <1>7, <4>1, <4>2
      <4>4. QED
        BY <4>1, <4>3
    <3>4. QED
      BY <1>3, <3>2, <3>3
  <2>10. \A t \in WrittenSoFar(next) :
           t.kind = "chain" /\ t.handle # {} => \E h \in c.handles : Names(t, h)
    BY <1>3, <1>4, <1>5, <2>2 DEF HandlesTell
  <2>11. \A t \in WrittenSoFar(srcs) : t.kind = "chain" /\ t.handle # {} => t.handle # s.handle
    <3>1. SUFFICES ASSUME NEW t \in WrittenSoFar(srcs), t.kind = "chain",
                          t.handle # {}, t.handle = s.handle
          PROVE  FALSE
      OBVIOUS
    <3>2. PICK h \in tb.handles : Names(t, h)
      BY <1>5, <3>1 DEF HandlesTell
    <3>3. h.name \in s.handle
      BY <3>1, <3>2 DEF Names
    <3>4. QED
      BY <1>2, <3>3
  <2>12. \A t, u \in WrittenSoFar(next) :
           /\ t.kind = "chain" /\ u.kind = "chain"
           /\ t.handle = u.handle /\ t.handle # {}
           => t = u
    BY <1>4, <1>5, <2>11 DEF HandlesTell
  <2>13. QED
    BY <2>4, <2>5, <2>6, <2>7, <2>8, <2>9, <2>10, <2>12 DEF HandlesTell
<1>13. QED
  BY <1>8, <1>9, <1>10, <1>11, <1>12 DEF Sound

-----------------------------------------------------------------------------
(* The compiler.                                                            *)

(* What collecting keeps: until something is refused, the tables tell what *)
(* has been written; and they never hold two facts about one thing.        *)
Collected(srcs, tb) ==
  /\ DOMAIN tb = Fields
  /\ tb.refused \in BOOLEAN
  /\ FactsTold(tb)
  /\ tb.refused \/ Sound(srcs, tb)

(* Tables that have been refused promise nothing more but their facts.      *)
LEMMA RefusalIsCollected ==
  ASSUME NEW srcs, NEW tb, DOMAIN tb = Fields, FactsTold(tb)
  PROVE  Collected(srcs, Refused(tb))
<1>1. /\ DOMAIN Refused(tb) = Fields /\ Refused(tb).refused = TRUE
      /\ Refused(tb).facts = tb.facts
  BY DEF Refused, Fields
<1>2. QED
  BY <1>1 DEF Collected, FactsTold

(* Markings, uses and wires have fields of their own.                      *)
LEMMA OthersKeep ==
  ASSUME NEW srcs, NEW next, NEW run, NEW s, Extends(srcs, next, run, s),
         s.kind \notin {"chain", "fact"},
         NEW tb, DOMAIN tb = Fields, Sound(srcs, tb), NEW c,
         \A x \in Fields \ {"markings", "uses", "wires"} : c[x] = tb[x]
  PROVE  Sound(next, c)
<1>1. /\ c.header = tb.header /\ c.facts = tb.facts /\ c.handles = tb.handles
      /\ c.arcs = tb.arcs /\ c.places = tb.places /\ c.ranks = tb.ranks
      /\ c.transitions = tb.transitions
  BY DEF Fields
<1>2. HeaderAgrees(next, c)
  BY <1>1, HeaderStands DEF Sound
<1>3. FactsKept(next, c)
  BY <1>1, KeptStays DEF Sound
<1>4. NamesListed(c)
  BY <1>1 DEF Sound, NamesListed
<1>5. RanksApart(c)
  BY <1>1 DEF Sound, RanksApart
<1>6. HandlesTell(next, c)
  BY <1>1, HandlesStand DEF Sound
<1>7. QED
  BY <1>2, <1>3, <1>4, <1>5, <1>6 DEF Sound

(* Collecting a marking, a use or a wire keeps what the tables tell.        *)
LEMMA OtherIsCollected ==
  ASSUME NEW srcs, NEW next, NEW run, NEW s, Extends(srcs, next, run, s),
         s.kind \in {"marking", "named", "use", "wire"},
         NEW tb, Collected(srcs, tb), ~tb.refused, NEW c,
         c \in {CollectMarking(tb, s), CollectNamedMarking(tb, s),
                CollectUse(tb, s), CollectWire(tb, s)}
  PROVE  Collected(next, c)
<1>1. DOMAIN tb = Fields /\ FactsTold(tb) /\ Sound(srcs, tb)
  BY DEF Collected
<1>2. CASE c = Refused(tb)
  BY <1>1, <1>2, RefusalIsCollected
<1>3. CASE c # Refused(tb)
  <2>1. /\ DOMAIN c = Fields
        /\ \A x \in Fields \ {"markings", "uses", "wires"} : c[x] = tb[x]
    <3>1. CASE \E v : c = [tb EXCEPT !.markings = v]
      BY <1>1, <3>1 DEF Fields
    <3>2. CASE \E v : c = [tb EXCEPT !.uses = v]
      BY <1>1, <3>2 DEF Fields
    <3>3. CASE \E v : c = [tb EXCEPT !.wires = v]
      BY <1>1, <3>3 DEF Fields
    <3>4. CASE c = tb
      BY <1>1, <3>4
    <3>5. CASE c = CollectMarking(tb, s)
      BY <3>1, <3>5 DEF CollectMarking
    <3>6. CASE c = CollectNamedMarking(tb, s)
      BY <1>3, <3>1, <3>6 DEF CollectNamedMarking, CollectMarking
    <3>7. CASE c = CollectUse(tb, s)
      BY <1>3, <3>2, <3>4, <3>7 DEF CollectUse
    <3>8. CASE c = CollectWire(tb, s)
      BY <1>3, <3>3, <3>8 DEF CollectWire
    <3>9. QED
      BY <3>5, <3>6, <3>7, <3>8
  <2>2. c.refused = tb.refused /\ c.facts = tb.facts
    BY <2>1 DEF Fields
  <2>3. Sound(next, c)
    BY <1>1, <2>1, OthersKeep
  <2>4. QED
    BY <1>1, <2>1, <2>2, <2>3 DEF Collected, FactsTold
<1>4. QED
  BY <1>2, <1>3

(* Collecting a statement of any kind keeps what the tables tell.           *)
LEMMA CollectingKeeps ==
  ASSUME NEW srcs, NEW next, NEW run, NEW s, Extends(srcs, next, run, s),
         IsStatement(s), NEW tb, Collected(srcs, tb)
  PROVE  Collected(next, Collect(tb, run, s))
<1> DEFINE c == Collect(tb, run, s)
<1>1. DOMAIN tb = Fields /\ FactsTold(tb)
  BY DEF Collected
<1>2. Collected(next, Refused(tb))
  BY <1>1, RefusalIsCollected
<1>3. CASE tb.refused
  <2>1. c = tb
    BY <1>3 DEF Collect
  <2>2. QED
    BY <1>3, <2>1 DEF Collected
<1>4. CASE \/ OfAComposition(s) # (KindOf(tb.header) = "composition")
           \/ ~ContributionAllowed(s)
  <2>1. c = IF tb.refused THEN tb ELSE Refused(tb)
    BY <1>4 DEF Collect
  <2>2. QED
    BY <1>2, <1>3, <2>1
<1>5. CASE /\ ~tb.refused /\ OfAComposition(s) = (KindOf(tb.header) = "composition")
           /\ ContributionAllowed(s)
  <2>1. Sound(srcs, tb)
    BY <1>5 DEF Collected
  <2>2. CASE s.kind \in {"place", "transition"} /\ s.name \in STRING
    <3>1. c = CollectDeclaration(tb, s)
      BY <1>5, <2>2 DEF Collect
    <3>2. /\ DOMAIN c = Fields /\ c.refused = tb.refused /\ c.facts = tb.facts
      BY <1>1, <3>1 DEF CollectDeclaration, Fields
    <3>3. Sound(next, c)
      BY <1>1, <2>1, <2>2, <3>1, DeclarationKeeps
    <3> HIDE DEF c
    <3>4. QED
      BY <3>2, <3>3 DEF Collected, FactsTold, c
  <2>3. CASE /\ s.kind = "chain"
             /\ s.handle \in SUBSET STRING /\ \A h, g \in s.handle : h = g
             /\ s.segments \in Seq(Segments)
    <3>1. c = CollectChain(tb, run, s)
      BY <1>5, <2>3 DEF Collect
    <3>2. c = Refused(tb) \/ Sound(next, c)
      BY <1>1, <2>1, <2>3, <3>1, ChainKeeps
    <3>3. c # Refused(tb) =>
            /\ DOMAIN c = Fields /\ c.refused = tb.refused /\ c.facts = tb.facts
      BY <1>1, <3>1 DEF CollectChain, Fields
    <3> HIDE DEF c
    <3>4. QED
      BY <1>2, <3>2, <3>3 DEF Collected, FactsTold, c
  <2>4. CASE IsFact(s)
    <3>1. s.kind = "fact"
      BY <2>4 DEF IsFact
    <3>2. c = CollectFact(tb, s)
      BY <1>5, <3>1 DEF Collect
    <3>3. s.about[1] \in MembersOf(s.about[2][1]) /\ ValueAllowed(s)
      BY <1>5, <3>1 DEF ContributionAllowed
    <3>4. FactsTold(c) /\ (c = Refused(tb) \/ Sound(next, c))
      BY <1>1, <2>1, <2>4, <3>2, <3>3, FactKeeps, FactIsCollected
    <3>5. c # Refused(tb) => DOMAIN c = Fields /\ c.refused = tb.refused
      BY <1>1, <3>2 DEF CollectFact, Fields
    <3> HIDE DEF c
    <3>6. QED
      BY <1>2, <3>4, <3>5 DEF Collected, c
  <2>5. CASE s.kind = "order" /\ s.of \in STRING \X STRING
    <3>1. c = CollectOrder(tb, s)
      BY <1>5, <2>5 DEF Collect
    <3>2. c = Refused(tb) \/ Sound(next, c)
      BY <1>1, <2>1, <2>5, <3>1, OrderKeeps
    <3>3. c # Refused(tb) =>
            /\ DOMAIN c = Fields /\ c.refused = tb.refused /\ c.facts = tb.facts
      BY <1>1, <3>1 DEF CollectOrder, Fields
    <3> HIDE DEF c
    <3>4. QED
      BY <1>2, <3>2, <3>3 DEF Collected, FactsTold, c
  <2>6. CASE s.kind \in {"marking", "named", "use", "wire"}
    <3>1. c \in {CollectMarking(tb, s), CollectNamedMarking(tb, s),
                 CollectUse(tb, s), CollectWire(tb, s)}
      BY <1>5, <2>6 DEF Collect
    <3> HIDE DEF c
    <3>2. Collected(next, c)
      BY <1>5, <2>6, <3>1, OtherIsCollected
    <3>3. QED
      BY <3>2 DEF c
  <2>7. QED
    BY <2>2, <2>3, <2>4, <2>5, <2>6 DEF IsStatement
<1>6. QED
  BY <1>3, <1>4, <1>5

(* A header that agrees with the first changes no more than itself.        *)
LEMMA HeaderIsCollected ==
  ASSUME NEW srcs, NEW next, NEW tb, NEW header,
         next[1].header = srcs[1].header, WrittenSoFar(next) = WrittenSoFar(srcs),
         \A r : RunWritten(srcs, r) => RunWritten(next, r),
         DOMAIN tb = Fields, FactsTold(tb), tb.refused \in BOOLEAN,
         \/ tb.refused
         \/ /\ FactsKept(srcs, tb) /\ NamesListed(tb)
            /\ RanksApart(tb) /\ HandlesTell(srcs, tb)
            /\ tb.header = {} \/ HeaderAgrees(srcs, tb)
  PROVE  Collected(next, CollectHeader(tb, srcs[1].header, header))
<1> DEFINE c == CollectHeader(tb, srcs[1].header, header)
<1>1. CASE c = Refused(tb)
  BY <1>1, RefusalIsCollected
<1>2. CASE c # Refused(tb)
  <2>1. /\ KindOf(header) = KindOf(srcs[1].header)
        /\ c = [tb EXCEPT !.header = IF @ = {} THEN header ELSE @]
    BY <1>2 DEF CollectHeader
  <2>2. /\ DOMAIN c = Fields
        /\ c.header = IF tb.header = {} THEN header ELSE tb.header
        /\ c.facts = tb.facts /\ c.handles = tb.handles /\ c.arcs = tb.arcs
        /\ c.places = tb.places /\ c.ranks = tb.ranks
        /\ c.transitions = tb.transitions /\ c.refused = tb.refused
    BY <2>1 DEF Fields
  <2> HIDE DEF c
  <2>3. FactsTold(c)
    BY <2>2 DEF FactsTold
  <2>4. ASSUME ~tb.refused PROVE Sound(next, c)
    <3>1. HeaderAgrees(next, c)
      BY <2>1, <2>2, <2>4 DEF HeaderAgrees
    <3>2. FactsKept(next, c)
      BY <2>2, <2>4 DEF FactsKept, Kept
    <3>3. NamesListed(c) /\ RanksApart(c)
      BY <2>2, <2>4 DEF NamesListed, RanksApart
    <3>4. HandlesTell(next, c)
      BY <2>2, <2>4 DEF HandlesTell
    <3>5. QED
      BY <3>1, <3>2, <3>3, <3>4 DEF Sound
  <2>5. QED
    BY <2>2, <2>3, <2>4 DEF Collected, c
<1>3. QED
  BY <1>1, <1>2

-----------------------------------------------------------------------------
(* The inductive invariant.                                                 *)

DocumentInv ==
  /\ sources \in Seq(SourceRecords) /\ sources # <<>>
  /\ \E script \in Scripts : script.header = sources[1].header
  /\ Collected(sources, tables)
  /\ document \subseteq {Outcome(tables)}

(* The tables before anything has been written.                            *)
LEMMA NothingIsCollected ==
  ASSUME NEW srcs, WrittenSoFar(srcs) = {}
  PROVE  Collected(srcs, CollectHeader(EmptyTables, srcs[1].header, srcs[1].header))
<1>1. /\ DOMAIN EmptyTables = Fields /\ EmptyTables.refused = FALSE
      /\ EmptyTables.facts = {} /\ EmptyTables.header = {}
      /\ EmptyTables.places = <<>> /\ EmptyTables.transitions = <<>>
      /\ EmptyTables.arcs = <<>> /\ EmptyTables.ranks = {} /\ EmptyTables.handles = {}
  BY DEF EmptyTables, Fields
<1>2. FactsTold(EmptyTables) /\ FactsKept(srcs, EmptyTables)
  BY <1>1 DEF FactsTold, FactsKept
<1>3. NamesListed(EmptyTables) /\ RanksApart(EmptyTables)
  <2>1. \A S : <<>> \in Seq(S)
    OBVIOUS
  <2>2. DOMAIN <<>> = {}
    OBVIOUS
  <2>3. QED
    BY <1>1, <2>1, <2>2 DEF NamesListed, RanksApart, Distinct
<1>4. HandlesTell(srcs, EmptyTables)
  <2>1. DOMAIN <<>> = {}
    OBVIOUS
  <2>2. QED
    BY <1>1, <2>1, FS_EmptySet DEF HandlesTell
<1>5. QED
  BY <1>1, <1>2, <1>3, <1>4, HeaderIsCollected

(* The compiler starts in the invariant.                                    *)
LEMMA DocumentInit == Init => DocumentInv
<1>1. SUFFICES ASSUME Init PROVE DocumentInv
  OBVIOUS
<1>2. PICK script \in Scripts :
        sources = <<[header |-> script.header, statements |-> <<>>]>>
  BY <1>1 DEF Init
<1>3. /\ sources \in Seq(SourceRecords) /\ sources # <<>>
      /\ sources[1].header = script.header
      /\ WrittenSoFar(sources) = {}
  <2>1. script.header \in Headers
    BY DEF Headers
  <2>2. [header |-> script.header, statements |-> <<>>] \in SourceRecords
    BY <2>1 DEF SourceRecords
  <2>3. sources[1].header = script.header /\ sources[1].statements = <<>>
    BY <1>2
  <2>4. DOMAIN sources = {1}
    BY <1>2
  <2>5. WrittenSoFar(sources) = {}
    BY <2>3, <2>4 DEF WrittenSoFar, Elements
  <2>6. QED
    BY <1>2, <2>2, <2>3, <2>5
<1>4. tables = CollectHeader(EmptyTables, sources[1].header, sources[1].header)
  BY <1>1 DEF Init
<1>5. Collected(sources, tables)
  BY <1>3, <1>4, NothingIsCollected
<1>6. document \subseteq {Outcome(tables)}
  BY <1>1 DEF Init
<1>7. QED
  BY <1>3, <1>5, <1>6 DEF DocumentInv

(* What may be written next is a statement of the language.                 *)
LEMMA UpcomingIsStatement ==
  ASSUME sources \in Seq(SourceRecords), Script \in Scripts, NEW s \in Upcoming(Script)
  PROVE  s \in Statements
<1> DEFINE n == Len(Written(sources))
           script == Script
<1>1. script \in Scripts /\ script.opening \in Seq(Statements)
  BY ScriptsAssumption
<1>2. script.pool \subseteq Statements
  BY <1>1 DEF Statements
<1>3. CASE n < Len(script.opening)
  <2>1. s = script.opening[n + 1]
    BY <1>3 DEF Upcoming
  <2>2. n \in Nat
    <3> DEFINE ss == [i \in DOMAIN sources |-> sources[i].statements]
    <3>1. ss \in Seq(Seq(Statements))
      <4>1. DOMAIN sources = 1..Len(sources) /\ Len(sources) \in Nat
        OBVIOUS
      <4>2. \A i \in DOMAIN sources : sources[i] \in SourceRecords
        OBVIOUS
      <4>3. \A i \in DOMAIN sources : sources[i].statements \in Seq(Statements)
        BY <4>2 DEF SourceRecords
      <4>4. QED
        BY <4>1, <4>3
    <3> HIDE DEF ss
    <3>2. Seqs!FlattenSeq(ss) \in Seq(Statements)
      BY <3>1, FlattenedElements
    <3>3. Written(sources) \in Seq(Statements)
      BY <3>2 DEF Written, ss
    <3>4. QED
      BY <3>3
  <2> HIDE DEF n, script
  <2>3. n + 1 \in 1..Len(script.opening)
    BY <1>1, <1>3, <2>2
  <2>4. QED
    BY <1>1, <2>1, <2>3
<1>4. CASE ~(n < Len(script.opening))
  <2>1. s \in script.pool
    BY <1>4 DEF Upcoming
  <2>2. QED
    BY <1>2, <2>1
<1>5. QED
  BY <1>3, <1>4

(* Every step of the compiler stays in the invariant.                       *)
LEMMA DocumentStep == DocumentInv /\ [Next]_vars => DocumentInv'
<1>1. SUFFICES ASSUME DocumentInv, [Next]_vars PROVE DocumentInv'
  OBVIOUS
<1>2. /\ sources \in Seq(SourceRecords) /\ sources # <<>>
      /\ Collected(sources, tables) /\ document \subseteq {Outcome(tables)}
  BY <1>1 DEF DocumentInv
<1>3. Script \in Scripts /\ Script.header = sources[1].header
  BY <1>1 DEF DocumentInv, Script
<1>4. ASSUME NEW s \in Upcoming(Script), Write(s) PROVE DocumentInv'
  <2> DEFINE current == Len(sources)
             run == RunIdentity(current, Len(sources[current].statements) + 1)
             next == [sources EXCEPT ![current].statements = Append(@, s)]
  <2>1. s \in Statements
    BY <1>2, <1>3, <1>4, UpcomingIsStatement
  <2>2. /\ sources' = next /\ tables' = Collect(tables, run, s)
        /\ document = {} /\ document' = document
    BY <1>4 DEF Write
  <2>3. next \in Seq(SourceRecords) /\ next # <<>> /\ Extends(sources, next, run, s)
    BY <1>2, <2>1, StatementIsAdded
  <2> HIDE DEF run, next
  <2>4. Collected(sources', tables')
    BY <1>2, <2>1, <2>2, <2>3, CollectingKeeps, ScriptsAssumption
  <2>5. sources'[1].header = sources[1].header
    BY <2>2, <2>3 DEF Extends
  <2>6. QED
    BY <1>3, <2>2, <2>3, <2>4, <2>5 DEF DocumentInv
<1>5. ASSUME NEW header \in Script.further, NextSource(header) PROVE DocumentInv'
  <2> DEFINE next == Append(sources, [header |-> header, statements |-> <<>>])
  <2>1. header \in Headers
    BY <1>3 DEF Headers
  <2>2. /\ sources' = next
        /\ tables' = CollectHeader(tables, sources[1].header, header)
        /\ document = {} /\ document' = document
    BY <1>5 DEF NextSource
  <2>3. /\ next \in Seq(SourceRecords) /\ next # <<>>
        /\ next[1].header = sources[1].header
        /\ WrittenSoFar(next) = WrittenSoFar(sources)
        /\ \A r : RunWritten(sources, r) => RunWritten(next, r)
    BY <1>2, <2>1, SourceIsAdded
  <2> HIDE DEF next
  <2>4. Collected(sources', tables')
    <3>1. /\ DOMAIN tables = Fields /\ FactsTold(tables) /\ tables.refused \in BOOLEAN
          /\ \/ tables.refused
             \/ /\ FactsKept(sources, tables) /\ NamesListed(tables)
                /\ RanksApart(tables) /\ HandlesTell(sources, tables)
                /\ HeaderAgrees(sources, tables)
      BY <1>2 DEF Collected, Sound
    <3>2. QED
      BY <2>2, <2>3, <3>1, HeaderIsCollected
  <2>5. QED
    BY <1>3, <2>2, <2>3, <2>4 DEF DocumentInv
<1>6. CASE Resolve
  BY <1>1, <1>6 DEF DocumentInv, Resolve
<1>7. CASE UNCHANGED vars
  BY <1>1, <1>7 DEF DocumentInv, vars
<1>8. QED
  BY <1>1, <1>4, <1>5, <1>6, <1>7 DEF Next

(* The tables tell what has been written, and the document is their outcome.*)
LEMMA DocumentIsSound == Spec => []DocumentInv
<1>1. QED
  BY DocumentInit, DocumentStep, PTL DEF Spec

(* Unless the aggregate is refused every fact written is in the tables,    *)
(* and no two facts there are about the same thing.                        *)
THEOREM FactsAreKept == Spec => []NoFactIsLost
<1>1. DocumentInv => NoFactIsLost
  <2>1. SUFFICES ASSUME DocumentInv PROVE NoFactIsLost
    OBVIOUS
  <2>2. Seqs!ToSet(Written(sources)) = WrittenSoFar(sources)
    BY <2>1, WrittenElements DEF DocumentInv
  <2>3. FactsTold(tables) /\ (tables.refused \/ FactsKept(sources, tables))
    BY <2>1 DEF DocumentInv, Collected, Sound
  <2>4. QED
    BY <2>2, <2>3 DEF NoFactIsLost, FactsTold, FactsKept, Kept
<1>2. QED
  BY <1>1, DocumentIsSound, PTL

-----------------------------------------------------------------------------
(* The order facts.                                                         *)

(* A list without repetitions is as long as it has elements.               *)
LEMMA DistinctCounts ==
  ASSUME NEW S, NEW s \in Seq(S), Distinct(s)
  PROVE  IsFiniteSet(Elements(s)) /\ Cardinality(Elements(s)) = Len(s)
<1> DEFINE f == [i \in 1..Len(s) |-> s[i]]
<1>1. Len(s) \in Nat /\ DOMAIN s = 1..Len(s)
  OBVIOUS
<1>2. IsFiniteSet(1..Len(s)) /\ Cardinality(1..Len(s)) = Len(s)
  BY <1>1, FS_Interval
<1>3. f \in Surjection(1..Len(s), Elements(s))
  BY <1>1 DEF Surjection, Elements
<1>4. f \in Injection(1..Len(s), Elements(s))
  BY <1>1 DEF Injection, IsInjective, Elements, Distinct
<1> HIDE DEF f
<1>5. QED
  BY <1>2, <1>3, <1>4, FS_Surjection

(* Where every name of a sort has been given a rank, and the ranks are all *)
(* the first ones, each rank stands for one name and each name has one.    *)
LEMMA RanksAreOrdinals ==
  ASSUME NEW tb, RanksApart(tb), NEW type, NEW names, IsFiniteSet(names),
         RanksComplete(tb, type, names), Ranked(tb, type) # {}
  PROVE  /\ \A i \in 1..Cardinality(names) : Named(tb, type, i) \in names
         /\ \A n \in names : \E i \in 1..Cardinality(names) : Named(tb, type, i) = n
         /\ \A i, j \in 1..Cardinality(names) :
              Named(tb, type, i) = Named(tb, type, j) => i = j
<1> DEFINE ranked == Ranked(tb, type)
           N == Cardinality(names)
           name == [r \in ranked |-> r.of[2]]
           rank == [r \in ranked |-> r.rank]
           at(i) == CHOOSE r \in ranked : r.rank = i
<1>1. /\ {r.of[2] : r \in ranked} = names
      /\ {r.rank : r \in ranked} = 1..N
  BY DEF RanksComplete
<1>2. N \in Nat
  BY FS_CardinalityType
<1>3. \A r, q \in ranked : r.of[2] = q.of[2] => r = q
  <2>1. \A r \in ranked : r \in tb.ranks /\ r.of[1] = type /\ r.of \in STRING \X STRING
    BY DEF Ranked, RanksApart
  <2>2. \A r, q \in ranked : r.of[2] = q.of[2] => r.of = q.of
    BY <2>1
  <2>3. QED
    BY <2>1, <2>2 DEF RanksApart
<1> HIDE DEF ranked, N
<1>4. name \in Injection(ranked, names) /\ name \in Surjection(ranked, names)
  BY <1>1, <1>3 DEF Injection, IsInjective, Surjection
<1>5. rank \in Surjection(ranked, 1..N)
  BY <1>1 DEF Surjection
<1>6. IsFiniteSet(ranked) /\ Cardinality(ranked) = N
  <2> HIDE DEF name
  <2>1. IsFiniteSet(ranked)
    BY <1>4, FS_Injection
  <2>2. QED
    BY <1>4, <2>1, FS_Surjection DEF N
<1>7. \A r, q \in ranked : r.rank = q.rank => r = q
  <2>1. Cardinality(1..N) = N
    BY <1>2, FS_Interval
  <2>2. \A r \in ranked : rank[r] = r.rank
    OBVIOUS
  <2> HIDE DEF rank
  <2>3. rank \in Injection(ranked, 1..N)
    BY <1>5, <1>6, <2>1, FS_SurjSameCardinalityImpliesInj
  <2>4. QED
    BY <2>2, <2>3 DEF Injection, IsInjective
<1>8. \A i \in 1..N : at(i) \in ranked /\ at(i).rank = i
  BY <1>1
<1>9. \A i : Named(tb, type, i) = at(i).of[2]
  BY DEF Named, ranked
<1>10. \A r \in ranked : r.rank \in 1..N /\ at(r.rank) = r
  <2>1. \A r \in ranked : r.rank \in 1..N
    BY <1>1
  <2> HIDE DEF at
  <2>2. QED
    BY <1>7, <1>8, <2>1
<1> HIDE DEF at
<1>11. \A i \in 1..N : Named(tb, type, i) \in names
  BY <1>1, <1>8, <1>9
<1>12. \A n \in names : \E i \in 1..N : Named(tb, type, i) = n
  <2>1. SUFFICES ASSUME NEW n \in names PROVE \E i \in 1..N : Named(tb, type, i) = n
    OBVIOUS
  <2>2. PICK r \in ranked : r.of[2] = n
    BY <1>1
  <2>3. QED
    BY <1>9, <1>10, <2>2
<1>13. \A i, j \in 1..N : Named(tb, type, i) = Named(tb, type, j) => i = j
  <2>1. SUFFICES ASSUME NEW i \in 1..N, NEW j \in 1..N,
                        Named(tb, type, i) = Named(tb, type, j)
        PROVE  i = j
    OBVIOUS
  <2>2. at(i) = at(j)
    BY <1>3, <1>8, <1>9, <2>1
  <2>3. QED
    BY <1>8, <2>2
<1>14. QED
  BY <1>11, <1>12, <1>13 DEF N

(* No two handles of the tables share a name.                               *)
LEMMA HandlesAreCounted ==
  ASSUME NEW srcs, NEW tb, HandlesTell(srcs, tb)
  PROVE  IsFiniteSet(HandleNames(tb)) /\ Cardinality(HandleNames(tb)) = Cardinality(tb.handles)
<1> DEFINE f == [h \in tb.handles |-> h.name]
<1>1. IsFiniteSet(tb.handles) /\ \A h, g \in tb.handles : h.name = g.name => h = g
  BY DEF HandlesTell
<1>2. f \in Surjection(tb.handles, HandleNames(tb))
  BY DEF Surjection, HandleNames
<1>3. f \in Injection(tb.handles, HandleNames(tb))
  BY <1>1 DEF Injection, IsInjective, HandleNames
<1> HIDE DEF f
<1>4. QED
  BY <1>1, <1>2, <1>3, FS_Surjection

(* The arcs of the run a handle names.                                      *)
LEMMA RunArcsAre ==
  ASSUME NEW srcs, NEW tb, HandlesTell(srcs, tb), tb.arcs \in Seq(Arcs),
         NEW h \in tb.handles
  PROVE  /\ RunOf(tb, h.name) = h.run
         /\ RunArcs(tb, h.name) \in Seq(Arcs)
         /\ Len(RunArcs(tb, h.name)) =
              Cardinality({i \in DOMAIN tb.arcs : tb.arcs[i].run = h.run})
         /\ \A a : a \in Elements(RunArcs(tb, h.name)) <=>
                     a \in Elements(tb.arcs) /\ a.run = h.run
<1> DEFINE c == {i \in DOMAIN tb.arcs : tb.arcs[i].run = h.run}
           arcs == RunArcs(tb, h.name)
<1>1. RunOf(tb, h.name) = h.run
  <2>1. \A g \in tb.handles : g.name = h.name => g = h
    BY DEF HandlesTell
  <2>2. (CHOOSE g \in tb.handles : g.name = h.name) = h
    BY <2>1
  <2>3. QED
    BY <2>2 DEF RunOf
<1>2. arcs = Subsequence(tb.arcs, c)
  BY <1>1 DEF RunArcs
<1>3. \A i : i \in c <=> i \in DOMAIN tb.arcs /\ tb.arcs[i].run = h.run
  OBVIOUS
<1>4. c \in SUBSET DOMAIN tb.arcs
  OBVIOUS
<1> HIDE DEF c, arcs
<1>5. /\ arcs \in Seq(Arcs) /\ Len(arcs) = Cardinality(c) /\ Cardinality(c) \in Nat
      /\ \A i \in c : Rank(c, i) \in 1..Cardinality(c) /\ arcs[Rank(c, i)] = tb.arcs[i]
      /\ \A n \in 1..Cardinality(c) : \E i \in c : Rank(c, i) = n /\ arcs[n] = tb.arcs[i]
  <2> DEFINE all == tb.arcs
  <2>1. all \in Seq(Arcs) /\ c \in SUBSET DOMAIN all
    BY <1>4
  <2>2. arcs = Subsequence(all, c)
    BY <1>2
  <2> HIDE DEF all
  <2>3. /\ arcs \in Seq(Arcs) /\ Len(arcs) = Cardinality(c) /\ Cardinality(c) \in Nat
        /\ \A i \in c : Rank(c, i) \in 1..Cardinality(c) /\ arcs[Rank(c, i)] = all[i]
        /\ \A n \in 1..Cardinality(c) : \E i \in c : Rank(c, i) = n /\ arcs[n] = all[i]
    BY <2>1, <2>2, SubsequenceAt
  <2>4. QED
    BY <2>3 DEF all
<1>6. DOMAIN arcs = 1..Cardinality(c)
  BY <1>5
<1>7. \A a : a \in Elements(arcs) <=> \E i \in c : a = tb.arcs[i]
  BY <1>5, <1>6 DEF Elements
<1>8. \A a : a \in Elements(arcs) <=> a \in Elements(tb.arcs) /\ a.run = h.run
  <2>1. \A a : a \in Elements(tb.arcs) <=> \E i \in DOMAIN tb.arcs : a = tb.arcs[i]
    BY DEF Elements
  <2>2. QED
    BY <1>3, <1>7, <2>1
<1>9. QED
  BY <1>1, <1>5, <1>8 DEF arcs, c

(* Ordering by runs loses no arc and makes none.                            *)
LEMMA OrderedArcsAre ==
  ASSUME NEW srcs, NEW tb, Sound(srcs, tb), Consistent(tb)
  PROVE  /\ OrderedArcs(tb) \in Seq(Arcs)
         /\ Elements(OrderedArcs(tb)) = Elements(tb.arcs)
<1>1. /\ HandlesTell(srcs, tb) /\ RanksApart(tb) /\ tb.arcs \in Seq(Arcs)
      /\ RanksComplete(tb, "arcHandle", HandleNames(tb)) /\ NoArcUnranked(tb)
  BY DEF Sound, NamesListed, Consistent
<1>2. CASE Ranked(tb, "arcHandle") = {}
  BY <1>1, <1>2 DEF OrderedArcs
<1>3. CASE Ranked(tb, "arcHandle") # {}
  <2> DEFINE N == Cardinality(tb.handles)
             runs == [i \in 1..N |-> RunArcs(tb, Named(tb, "arcHandle", i))]
  <2>1. N \in Nat /\ N = Cardinality(HandleNames(tb)) /\ IsFiniteSet(HandleNames(tb))
    BY <1>1, HandlesAreCounted, FS_CardinalityType
  <2>2. /\ \A i \in 1..N : Named(tb, "arcHandle", i) \in HandleNames(tb)
        /\ \A n \in HandleNames(tb) : \E i \in 1..N : Named(tb, "arcHandle", i) = n
    BY <1>1, <1>3, <2>1, RanksAreOrdinals
  <2>3. \A n \in HandleNames(tb) : \E h \in tb.handles : h.name = n
    BY DEF HandleNames
  <2>4. \A i \in 1..N : \E h \in tb.handles :
          /\ runs[i] = RunArcs(tb, h.name) /\ runs[i] \in Seq(Arcs)
          /\ \A a : a \in Elements(runs[i]) <=> a \in Elements(tb.arcs) /\ a.run = h.run
    <3>1. SUFFICES ASSUME NEW i \in 1..N
          PROVE  \E h \in tb.handles :
                   /\ runs[i] = RunArcs(tb, h.name) /\ runs[i] \in Seq(Arcs)
                   /\ \A a : a \in Elements(runs[i]) <=> a \in Elements(tb.arcs) /\ a.run = h.run
      OBVIOUS
    <3>2. PICK h \in tb.handles : h.name = Named(tb, "arcHandle", i)
      BY <2>2, <2>3
    <3>3. runs[i] = RunArcs(tb, h.name)
      BY <3>2
    <3> HIDE DEF runs
    <3>4. /\ RunArcs(tb, h.name) \in Seq(Arcs)
          /\ \A a : a \in Elements(RunArcs(tb, h.name)) <=>
                      a \in Elements(tb.arcs) /\ a.run = h.run
      BY <1>1, RunArcsAre
    <3>5. QED
      BY <3>3, <3>4
  <2>5. \A h \in tb.handles : \E i \in 1..N : runs[i] = RunArcs(tb, h.name)
    <3>1. SUFFICES ASSUME NEW h \in tb.handles
          PROVE  \E i \in 1..N : runs[i] = RunArcs(tb, h.name)
      OBVIOUS
    <3>2. h.name \in HandleNames(tb)
      BY DEF HandleNames
    <3>3. PICK i \in 1..N : Named(tb, "arcHandle", i) = h.name
      BY <2>2, <3>2
    <3>4. QED
      BY <3>3
  <2>6. OrderedArcs(tb) = Seqs!FlattenSeq(runs)
    BY <1>3 DEF OrderedArcs
  <2>7. DOMAIN runs = 1..N /\ runs = [i \in 1..N |-> runs[i]]
    OBVIOUS
  <2> HIDE DEF N, runs
  <2>8. runs \in Seq(Seq(Arcs))
    <3>1. runs \in [1..N -> Seq(Arcs)]
      BY <2>4, <2>7
    <3>2. QED
      BY <2>1, <3>1
  <2>9. /\ Seqs!FlattenSeq(runs) \in Seq(Arcs)
        /\ Elements(Seqs!FlattenSeq(runs)) = UNION {Elements(runs[i]) : i \in DOMAIN runs}
    BY <2>8, FlattenedElements
  <2>10. \A a : a \in Elements(tb.arcs) => \E i \in 1..N : a \in Elements(runs[i])
    <3>1. SUFFICES ASSUME NEW a \in Elements(tb.arcs)
          PROVE  \E i \in 1..N : a \in Elements(runs[i])
      OBVIOUS
    <3>2. PICK h \in tb.handles : h.run = a.run
      BY <1>1, <1>3 DEF NoArcUnranked, Elements
    <3>3. PICK i \in 1..N : runs[i] = RunArcs(tb, h.name)
      BY <2>5
    <3>4. a \in Elements(RunArcs(tb, h.name))
      BY <1>1, <3>2, RunArcsAre
    <3>5. QED
      BY <3>3, <3>4
  <2>11. \A i \in 1..N : Elements(runs[i]) \subseteq Elements(tb.arcs)
    BY <2>4
  <2>12. \A a : a \in UNION {Elements(runs[i]) : i \in DOMAIN runs} <=>
                  \E i \in 1..N : a \in Elements(runs[i])
    BY <2>7
  <2>13. Elements(Seqs!FlattenSeq(runs)) = Elements(tb.arcs)
    BY <2>9, <2>10, <2>11, <2>12
  <2>14. QED
    BY <2>6, <2>9, <2>13
<1>4. QED
  BY <1>2, <1>3

-----------------------------------------------------------------------------
(* Resolution.                                                              *)

(* A net is the outcome of consistent tables that nothing was refused from. *)
LEMMA OutcomeIsNet ==
  ASSUME NEW tb, NEW net \in NetOutcome(tb).result
  PROVE  ~tb.refused /\ Consistent(tb) /\ net = Resolved(tb)
BY DEF NetOutcome

(* What has been written so far are statements of the language.             *)
LEMMA WrittenAreStatements ==
  ASSUME NEW srcs \in Seq(SourceRecords), NEW s \in WrittenSoFar(srcs)
  PROVE  IsStatement(s)
<1>1. PICK i \in DOMAIN srcs : s \in Elements(srcs[i].statements)
  BY DEF WrittenSoFar
<1>2. srcs[i] \in SourceRecords
  BY <1>1
<1>3. srcs[i].statements \in Seq(Statements)
  BY <1>2 DEF SourceRecords
<1>4. s \in Statements
  BY <1>1, <1>3 DEF Elements
<1>5. QED
  BY <1>4, ScriptsAssumption

(* A handle metadata speaks of names a run of one arc, and that arc is the *)
(* one its chain wrote.                                                    *)
LEMMA HandleHasItsArc ==
  ASSUME NEW srcs \in Seq(SourceRecords), NEW tb, Sound(srcs, tb), Consistent(tb),
         NEW name \in MetadataHandles(tb)
  PROVE  \E h \in tb.handles, s \in WrittenSoFar(srcs) :
           /\ h.name = name /\ Names(s, h)
           /\ \A a \in Elements(tb.arcs) :
                a.run = h.run => a = ArcOf(h.run, s.segments[1])
           /\ \E a \in Elements(tb.arcs) : a.run = h.run
<1>1. HandlesTell(srcs, tb) /\ tb.arcs \in Seq(Arcs)
  BY DEF Sound, NamesListed
<1>2. PICK f \in tb.facts : f.about[2][1] = "arcHandle" /\ f.about[2][2] = name
  BY DEF MetadataHandles
<1>3. name \in HandleNames(tb)
  BY <1>2 DEF Consistent, TargetsKnown
<1>4. PICK h \in tb.handles : h.name = name
  BY <1>3 DEF HandleNames
<1>5. PICK s \in WrittenSoFar(srcs) : Names(s, h) /\ Laid(tb.arcs, h.run, s)
  BY <1>1 DEF HandlesTell
<1> DEFINE c == {i \in DOMAIN tb.arcs : tb.arcs[i].run = h.run}
<1>6. Cardinality(c) = 1
  <2>1. Len(RunArcs(tb, name)) = 1
    BY DEF Consistent
  <2>2. Len(RunArcs(tb, h.name)) = Cardinality(c)
    BY <1>1, RunArcsAre
  <2>3. QED
    BY <1>4, <2>1, <2>2
<1>7. PICK j : c = {j}
  <2>1. IsFiniteSet(c)
    <3>1. DOMAIN tb.arcs = 1..Len(tb.arcs) /\ Len(tb.arcs) \in Nat
      BY <1>1
    <3>2. c \in SUBSET DOMAIN tb.arcs /\ IsFiniteSet(DOMAIN tb.arcs)
      BY <3>1, FS_Interval
    <3>3. QED
      BY <3>2, FS_Subset
  <2> HIDE DEF c
  <2>2. QED
    BY <1>6, <2>1, FS_Singleton
<1>8. \A i \in DOMAIN tb.arcs : tb.arcs[i].run = h.run <=> i = j
  BY <1>7
<1>9. j \in DOMAIN tb.arcs
  BY <1>7
<1> HIDE DEF c
<1>10. PICK o \in Nat :
         /\ \A k \in DOMAIN s.segments : /\ o + k \in DOMAIN tb.arcs
                                         /\ tb.arcs[o + k] = ArcOf(h.run, s.segments[k])
         /\ \A i \in DOMAIN tb.arcs :
              tb.arcs[i].run = h.run => \E k \in DOMAIN s.segments : i = o + k
  BY <1>5 DEF Laid
<1>11. PICK k \in DOMAIN s.segments : j = o + k
  BY <1>8, <1>9, <1>10
<1>12. tb.arcs[j] = ArcOf(h.run, s.segments[1])
  <2>1. s.segments \in Seq(Segments)
    <3>1. s.kind = "chain" /\ IsStatement(s)
      BY <1>5, WrittenAreStatements DEF Names
    <3>2. QED
      BY <3>1 DEF IsStatement, IsFact
  <2>2. \A i : ArcOf(h.run, s.segments[i]).run = h.run
    BY DEF ArcOf
  <2>3. DOMAIN s.segments = 1..Len(s.segments) /\ Len(s.segments) \in Nat /\ 1 \in DOMAIN s.segments
    BY <1>11, <2>1
  <2>4. o + 1 = j
    BY <1>8, <1>10, <2>2, <2>3
  <2>5. QED
    BY <1>10, <2>3, <2>4
<1>13. QED
  BY <1>4, <1>5, <1>8, <1>9, <1>12 DEF Elements

(* A resolved handle is the index of the arc its chain wrote: the index, which*)
(* counts the arcs as they are ordered at the end, is not off by those of a *)
(* source that was read before or moved behind.                             *)
THEOREM HandlesPointAtTheirArcs == Spec => []HandlesFollowTheirArcs
<1>1. DocumentInv => HandlesFollowTheirArcs
  <2>1. SUFFICES ASSUME DocumentInv, NEW net \in ResolvedNets, NEW h \in net.handles
        PROVE  LET arc == net.arcs[h.index]
                   chain == Elem({s \in Seqs!ToSet(Written(sources)) :
                                    s.kind = "chain" /\ s.handle = {h.name}})
               IN  /\ <<arc.mode, arc.color>> =
                        <<chain.segments[1].mode, chain.segments[1].color>>
                   /\ {arc.from[2], arc.to[2]} =
                        {chain.segments[1].place, chain.segments[1].transition}
                   /\ arc.attributes = Carried(tables, {<<"arcHandle", h.name>>})
    BY DEF HandlesFollowTheirArcs
  <2>2. /\ sources \in Seq(SourceRecords) /\ Collected(sources, tables)
        /\ Seqs!ToSet(Written(sources)) = WrittenSoFar(sources)
    BY <2>1, WrittenElements DEF DocumentInv
  <2>3. KindOf(sources[1].header) = "net" /\ net \in Outcome(tables).result
    <3>1. PICK o \in document : KindOf(sources[1].header) = "net" /\ net \in o.result
      BY <2>1 DEF ResolvedNets, Outcomes
    <3>2. o = Outcome(tables)
      BY <2>1 DEF DocumentInv
    <3>3. QED
      BY <3>1, <3>2
  <2>4. ~tables.refused
    BY <2>3 DEF Outcome, NetOutcome, CompositionOutcome
  <2>5. Sound(sources, tables)
    BY <2>2, <2>4 DEF Collected
  <2>6. net \in NetOutcome(tables).result
    BY <2>3, <2>5 DEF Sound, HeaderAgrees, Outcome
  <2>7. Consistent(tables) /\ net = Resolved(tables)
    BY <2>6, OutcomeIsNet
  <2>8. PICK name \in MetadataHandles(tables) : h = PayloadHandle(tables, name)
    BY <2>1, <2>7 DEF Resolved
  <2> DEFINE arcs == OrderedArcs(tables)
             chain == Elem({s \in Seqs!ToSet(Written(sources)) :
                              s.kind = "chain" /\ s.handle = {h.name}})
  <2>9. h.name = name /\ h.index = CHOOSE i \in DOMAIN arcs : arcs[i].run = RunOf(tables, name)
    BY <2>8 DEF PayloadHandle
  <2>10. PICK g \in tables.handles, s \in WrittenSoFar(sources) :
           /\ g.name = name /\ Names(s, g)
           /\ \A a \in Elements(tables.arcs) :
                a.run = g.run => a = ArcOf(g.run, s.segments[1])
           /\ \E a \in Elements(tables.arcs) : a.run = g.run
    BY <2>2, <2>5, <2>7, HandleHasItsArc
  <2>11. chain = s
    <3>1. \A t \in WrittenSoFar(sources) : t.kind = "chain" /\ t.handle = {h.name} <=> t = s
      <4>1. HandlesTell(sources, tables) /\ s.kind = "chain" /\ s.handle = {h.name}
        BY <2>5, <2>9, <2>10 DEF Sound, Names
      <4>2. ASSUME NEW t \in WrittenSoFar(sources), t.kind = "chain", t.handle = {h.name}
            PROVE  t = s
        <5>1. t.handle = s.handle /\ s.handle # {}
          BY <4>1, <4>2
        <5>2. QED
          BY <2>10, <4>1, <4>2, <5>1 DEF HandlesTell
      <4>3. QED
        BY <2>10, <4>1, <4>2
    <3>2. {t \in Seqs!ToSet(Written(sources)) : t.kind = "chain" /\ t.handle = {h.name}} = {s}
      BY <2>2, <2>10, <3>1
    <3>3. QED
      BY <3>2 DEF Elem
  <2>12. HandlesTell(sources, tables) /\ tables.arcs \in Seq(Arcs)
    BY <2>5 DEF Sound, NamesListed
  <2>13. RunOf(tables, name) = g.run
    BY <2>10, <2>12, RunArcsAre
  <2>14. Elements(arcs) = Elements(tables.arcs)
    BY <2>5, <2>7, OrderedArcsAre
  <2>15. net.arcs = [i \in DOMAIN arcs |-> ResolvedArc(tables, arcs[i])]
    BY <2>7 DEF Resolved
  <2> HIDE DEF arcs, chain
  <2>16. h.index \in DOMAIN arcs /\ arcs[h.index].run = g.run
    <3>1. \E i \in DOMAIN arcs : arcs[i].run = g.run
      BY <2>10, <2>14 DEF Elements
    <3>2. QED
      BY <2>9, <2>13, <3>1
  <2> DEFINE a == arcs[h.index]
             arc == net.arcs[h.index]
  <2>17. a = ArcOf(g.run, s.segments[1])
    BY <2>10, <2>14, <2>16 DEF Elements
  <2>18. arc = ResolvedArc(tables, a)
    BY <2>15, <2>16
  <2>19. /\ a.mode = s.segments[1].mode /\ a.color = s.segments[1].color
         /\ a.place = s.segments[1].place /\ a.transition = s.segments[1].transition
         /\ a.run = g.run
    BY <2>17 DEF ArcOf
  <2> HIDE DEF a, arc
  <2>20. /\ arc.mode = a.mode /\ arc.color = a.color
         /\ {arc.from[2], arc.to[2]} = {a.place, a.transition}
         /\ arc.attributes = Carried(tables, {<<"arcHandle", x.name>> :
                                     x \in {y \in tables.handles : y.run = a.run}})
    <3>1. arc.mode = a.mode /\ arc.color = a.color
      BY <2>18 DEF ResolvedArc
    <3>2. arc.attributes = Carried(tables, {<<"arcHandle", x.name>> :
                                     x \in {y \in tables.handles : y.run = a.run}})
      BY <2>18 DEF ResolvedArc
    <3>3. /\ arc.from = IF IsInput(a) THEN <<"place", a.place>>
                        ELSE <<"transition", a.transition>>
          /\ arc.to = IF IsInput(a) THEN <<"transition", a.transition>>
                      ELSE <<"place", a.place>>
      BY <2>18 DEF ResolvedArc
    <3>4. QED
      BY <3>1, <3>2, <3>3
  <2>21. {<<"arcHandle", x.name>> : x \in {y \in tables.handles : y.run = a.run}} =
           {<<"arcHandle", h.name>>}
    <3>1. {y \in tables.handles : y.run = a.run} = {g}
      BY <2>10, <2>12, <2>19 DEF HandlesTell
    <3>2. g.name = h.name
      BY <2>9, <2>10
    <3>3. QED
      BY <3>1, <3>2
  <2>22. /\ <<arc.mode, arc.color>> =
              <<chain.segments[1].mode, chain.segments[1].color>>
         /\ {arc.from[2], arc.to[2]} =
              {chain.segments[1].place, chain.segments[1].transition}
         /\ arc.attributes = Carried(tables, {<<"arcHandle", h.name>>})
    BY <2>11, <2>19, <2>20, <2>21
  <2>23. QED
    BY <2>22 DEF arc, chain
<1>2. QED
  BY <1>1, DocumentIsSound, PTL

-----------------------------------------------------------------------------
(* What is not empty.                                                       *)

(* Arcs have colors, a place or transition of no name stands at the end of *)
(* an arc, and markings are counted.                                       *)
Filled(tb) ==
  /\ \A a \in Elements(tb.arcs) : a.color # ""
  /\ "" \in Elements(tb.places) => \E a \in Elements(tb.arcs) : a.place = ""
  /\ "" \in Elements(tb.transitions) =>
       \E a \in Elements(tb.arcs) : a.transition = ""
  /\ tb.markings \in Seq(Elements(tb.markings))
  /\ \A m \in Elements(tb.markings) : m.count \in Nat

(* Tables stay filled that take in no nameless place or transition.        *)
LEMMA FilledStays ==
  ASSUME NEW tb, Filled(tb), NEW c,
         c.arcs = tb.arcs, c.markings = tb.markings,
         "" \in Elements(c.places) => "" \in Elements(tb.places),
         "" \in Elements(c.transitions) => "" \in Elements(tb.transitions)
  PROVE  Filled(c)
BY DEF Filled

(* What a sequence holds, and what it holds after each is replaced.        *)
LEMMA SequenceOf ==
  ASSUME NEW S, NEW s \in Seq(S)
  PROVE  DOMAIN s = 1..Len(s) /\ Len(s) \in Nat /\ \A i \in DOMAIN s : s[i] \in S
OBVIOUS

LEMMA ReplacedIsSequence ==
  ASSUME NEW S, NEW s \in Seq(S), NEW T, NEW t, DOMAIN t = DOMAIN s,
         t = [i \in DOMAIN t |-> t[i]], \A i \in DOMAIN t : t[i] \in T
  PROVE  t \in Seq(T)
<1>1. DOMAIN t = 1..Len(s) /\ Len(s) \in Nat
  BY SequenceOf
<1>2. t \in [1..Len(s) -> T]
  BY <1>1
<1>3. QED
  BY <1>1, <1>2

(* Taking names in adds no others.                                         *)
LEMMA TakenIn ==
  ASSUME NEW S, NEW s \in Seq(S), NEW t \in Seq(S)
  PROVE  Elements(FirstOf(s \o t)) = Elements(s) \cup Elements(t)
<1> DEFINE u == s \o t
<1>1. u \in Seq(S) /\ Elements(u) = Elements(s) \cup Elements(t)
  BY ConcatDistinct
<1> HIDE DEF u
<1>2. Elements(FirstOf(u)) = Elements(u)
  BY <1>1, FirstOfDistinct
<1>3. QED
  BY <1>1, <1>2 DEF u

(* The ends of a chain's segments are those of its arcs, its colors too.   *)
LEMMA ChainFills ==
  ASSUME NEW tb, DOMAIN tb = Fields, NamesListed(tb), Filled(tb),
         NEW run \in Nat \X Nat, NEW s, s.segments \in Seq(Segments),
         \A i \in DOMAIN s.segments : s.segments[i].color # "",
         CollectChain(tb, run, s) # Refused(tb)
  PROVE  Filled(CollectChain(tb, run, s))
<1> DEFINE c == CollectChain(tb, run, s)
           segments == s.segments
           more == [i \in DOMAIN segments |-> ArcOf(run, segments[i])]
           places == [i \in DOMAIN segments |-> segments[i].place]
           transitions == [i \in DOMAIN segments |-> segments[i].transition]
           arcsBefore == tb.arcs
           placesBefore == tb.places
           transitionsBefore == tb.transitions
<1>1. /\ c.places = FirstOf(placesBefore \o places)
      /\ c.transitions = FirstOf(transitionsBefore \o transitions)
      /\ c.arcs = arcsBefore \o more /\ c.markings = tb.markings
  BY DEF CollectChain, Fields
<1>2. /\ placesBefore \in Seq(STRING) /\ transitionsBefore \in Seq(STRING)
      /\ arcsBefore \in Seq(Arcs)
  BY DEF NamesListed
<1>3. /\ \A a \in Elements(arcsBefore) : a.color # ""
      /\ "" \in Elements(placesBefore) => \E a \in Elements(arcsBefore) : a.place = ""
      /\ "" \in Elements(transitionsBefore) =>
           \E a \in Elements(arcsBefore) : a.transition = ""
  BY DEF Filled
<1>4. segments \in Seq(Segments) /\ \A i \in DOMAIN segments : segments[i].color # ""
  OBVIOUS
<1>5. /\ DOMAIN more = DOMAIN segments /\ more = [i \in DOMAIN more |-> more[i]]
      /\ \A i \in DOMAIN segments : more[i] = ArcOf(run, segments[i])
  OBVIOUS
<1>6. /\ DOMAIN places = DOMAIN segments /\ places = [i \in DOMAIN places |-> places[i]]
      /\ \A i \in DOMAIN segments : places[i] = segments[i].place
  OBVIOUS
<1>7. /\ DOMAIN transitions = DOMAIN segments
      /\ transitions = [i \in DOMAIN transitions |-> transitions[i]]
      /\ \A i \in DOMAIN segments : transitions[i] = segments[i].transition
  OBVIOUS
<1> HIDE DEF c, segments, more, places, transitions, arcsBefore, placesBefore,
             transitionsBefore
<1>8. \A i \in DOMAIN segments : segments[i] \in Segments
  BY <1>4, SequenceOf
<1>9. \A i \in DOMAIN segments :
        /\ more[i] \in Arcs /\ places[i] \in STRING /\ transitions[i] \in STRING
        /\ more[i].place = places[i] /\ more[i].transition = transitions[i]
        /\ more[i].color # ""
  <2>1. SUFFICES ASSUME NEW i \in DOMAIN segments
        PROVE /\ more[i] \in Arcs /\ places[i] \in STRING /\ transitions[i] \in STRING
              /\ more[i].place = places[i] /\ more[i].transition = transitions[i]
              /\ more[i].color # ""
    OBVIOUS
  <2> DEFINE g == segments[i]
  <2>2. g \in Segments /\ g.color # ""
    BY <1>4, <1>8
  <2> HIDE DEF g
  <2>3. /\ ArcOf(run, g) \in Arcs /\ g.place \in STRING /\ g.transition \in STRING
        /\ ArcOf(run, g).place = g.place /\ ArcOf(run, g).transition = g.transition
        /\ ArcOf(run, g).color # ""
    BY <2>2 DEF Segments, Arcs, ArcOf
  <2>4. more[i] = ArcOf(run, g) /\ places[i] = g.place /\ transitions[i] = g.transition
    BY <1>5, <1>6, <1>7 DEF g
  <2>5. QED
    BY <2>3, <2>4
<1>10. more \in Seq(Arcs)
  BY <1>4, <1>5, <1>9, ReplacedIsSequence
<1>11. places \in Seq(STRING)
  BY <1>4, <1>6, <1>9, ReplacedIsSequence
<1>12. transitions \in Seq(STRING)
  BY <1>4, <1>7, <1>9, ReplacedIsSequence
<1>13. Elements(c.arcs) = Elements(arcsBefore) \cup Elements(more)
  <2>1. Elements(arcsBefore \o more) = Elements(arcsBefore) \cup Elements(more)
    BY <1>2, <1>10, ConcatDistinct
  <2>2. c.arcs = arcsBefore \o more
    BY <1>1
  <2>3. QED
    BY <2>1, <2>2
<1>14. /\ Elements(c.places) = Elements(placesBefore) \cup Elements(places)
       /\ Elements(c.transitions) =
            Elements(transitionsBefore) \cup Elements(transitions)
  <2>1. Elements(FirstOf(placesBefore \o places)) =
          Elements(placesBefore) \cup Elements(places)
    BY <1>2, <1>11, TakenIn
  <2>2. Elements(FirstOf(transitionsBefore \o transitions)) =
          Elements(transitionsBefore) \cup Elements(transitions)
    BY <1>2, <1>12, TakenIn
  <2>3. /\ c.places = FirstOf(placesBefore \o places)
        /\ c.transitions = FirstOf(transitionsBefore \o transitions)
    BY <1>1
  <2>4. QED
    BY <2>1, <2>2, <2>3
<1>15. \A a \in Elements(more) : a.color # ""
  <2>1. \A a \in Elements(more) : \E i \in DOMAIN more : a = more[i]
    BY DEF Elements
  <2>2. \A i \in DOMAIN more : more[i].color # ""
    BY <1>5, <1>9
  <2>3. QED
    BY <2>1, <2>2
<1>16. /\ "" \in Elements(places) => \E a \in Elements(more) : a.place = ""
       /\ "" \in Elements(transitions) => \E a \in Elements(more) : a.transition = ""
  <2>1. ASSUME "" \in Elements(places)
        PROVE  \E a \in Elements(more) : a.place = ""
    <3>1. PICK i \in DOMAIN places : places[i] = ""
      BY <2>1 DEF Elements
    <3>2. more[i] \in Elements(more) /\ more[i].place = ""
      BY <1>5, <1>6, <1>9, <3>1 DEF Elements
    <3>3. QED
      BY <3>2
  <2>2. ASSUME "" \in Elements(transitions)
        PROVE  \E a \in Elements(more) : a.transition = ""
    <3>1. PICK i \in DOMAIN transitions : transitions[i] = ""
      BY <2>2 DEF Elements
    <3>2. more[i] \in Elements(more) /\ more[i].transition = ""
      BY <1>5, <1>7, <1>9, <3>1 DEF Elements
    <3>3. QED
      BY <3>2
  <2>3. QED
    BY <2>1, <2>2
<1>17. /\ \A a \in Elements(c.arcs) : a.color # ""
       /\ "" \in Elements(c.places) => \E a \in Elements(c.arcs) : a.place = ""
       /\ "" \in Elements(c.transitions) => \E a \in Elements(c.arcs) : a.transition = ""
  BY <1>3, <1>13, <1>14, <1>15, <1>16
<1>18. Filled(c)
  BY <1>1, <1>17 DEF Filled
<1>19. QED
  BY <1>18 DEF c

LEMMA AppearAdds ==
  ASSUME NEW S, NEW listed \in Seq(S), NEW name \in S, NEW other, name # other,
         NEW after, after \in {listed, Appear(listed, name)}, other \in Elements(after)
  PROVE  other \in Elements(listed)
<1> DEFINE added == Appear(listed, name)
<1>1. Elements(added) = Elements(listed) \cup {name}
  <2>1. Seqs!ToSet(listed) = Elements(listed)
    BY ToSetIsElements
  <2>2. CASE name \in Elements(listed)
    <3>1. added = listed
      BY <2>1, <2>2 DEF Appear
    <3>2. QED
      BY <2>2, <3>1
  <2>3. CASE name \notin Elements(listed)
    <3>1. added = Append(listed, name)
      BY <2>1, <2>3 DEF Appear
    <3>2. Elements(Append(listed, name)) = Elements(listed) \cup {name}
      BY AppendDistinct
    <3>3. QED
      BY <3>1, <3>2
  <2>4. QED
    BY <2>2, <2>3
<1> HIDE DEF added
<1>2. after = listed \/ after = added
  BY DEF added
<1>3. QED
  BY <1>1, <1>2

(* A statement that is not refused leaves filled tables filled.            *)
LEMMA CollectingFills ==
  ASSUME NEW tb, DOMAIN tb = Fields, ~tb.refused, NamesListed(tb), Filled(tb),
         NEW run \in Nat \X Nat, NEW s, IsStatement(s)
  PROVE  LET c == Collect(tb, run, s)
         IN  c = Refused(tb) \/ Filled(c)
<1> DEFINE c == Collect(tb, run, s)
<1>1. SUFFICES ASSUME c # Refused(tb) PROVE Filled(c)
  OBVIOUS
<1>2. /\ OfAComposition(s) = (KindOf(tb.header) = "composition")
      /\ ContributionAllowed(s)
  BY <1>1 DEF Collect
<1>3. tb.places \in Seq(STRING) /\ Distinct(tb.places)
      /\ tb.transitions \in Seq(STRING) /\ Distinct(tb.transitions)
  BY DEF NamesListed
<1>4. CASE s.kind \in {"place", "transition"} /\ s.name \in STRING
  <2>1. c = CollectDeclaration(tb, s) /\ s.name # ""
    BY <1>2, <1>4 DEF Collect, ContributionAllowed
  <2>2. /\ c.arcs = tb.arcs /\ c.markings = tb.markings
        /\ c.places \in {tb.places, Appear(tb.places, s.name)}
        /\ c.transitions \in {tb.transitions, Appear(tb.transitions, s.name)}
    BY <2>1 DEF CollectDeclaration, Fields
  <2> HIDE DEF c
  <2>3. "" \in Elements(c.places) => "" \in Elements(tb.places)
    BY <1>3, <1>4, <2>1, <2>2, AppearAdds
  <2>4. "" \in Elements(c.transitions) => "" \in Elements(tb.transitions)
    BY <1>3, <1>4, <2>1, <2>2, AppearAdds
  <2>5. Filled(c)
    BY <2>2, <2>3, <2>4, FilledStays
  <2>6. QED
    BY <2>5 DEF c
<1>5. CASE s.kind = "chain" /\ s.segments \in Seq(Segments)
  <2>1. c = CollectChain(tb, run, s)
    BY <1>2, <1>5 DEF Collect
  <2>2. \A i \in DOMAIN s.segments : s.segments[i].color # ""
    BY <1>2, <1>5 DEF ContributionAllowed
  <2> HIDE DEF c
  <2>3. Filled(c)
    BY <1>1, <1>5, <2>1, <2>2, ChainFills
  <2>4. QED
    BY <2>3 DEF c
<1>6. CASE IsFact(s)
  <2>1. s.kind = "fact" /\ s.about[2][2] \in STRING
    BY <1>6 DEF IsFact
  <2>2. c = CollectFact(tb, s) /\ ValueAllowed(s)
    BY <1>2, <2>1 DEF Collect, ContributionAllowed
  <2> DEFINE p == s.about[2][2]
  <2>3. s.about[1] = "place.accepts" => p # ""
    BY <2>2 DEF ValueAllowed, NamingMembers
  <2>4. /\ c.arcs = tb.arcs /\ c.markings = tb.markings
        /\ c.transitions = tb.transitions
        /\ \/ c.places = tb.places
           \/ s.about[1] = "place.accepts" /\ c.places = Appear(tb.places, p)
    BY <1>1, <2>2 DEF CollectFact, Fields
  <2> HIDE DEF c
  <2>5. p \in STRING
    BY <2>1
  <2> HIDE DEF p
  <2>6. "" \in Elements(c.places) => "" \in Elements(tb.places)
    BY <1>3, <2>3, <2>4, <2>5, AppearAdds
  <2>7. Filled(c)
    BY <2>4, <2>6, FilledStays
  <2>8. QED
    BY <2>7 DEF c
<1>7. CASE s.kind = "order"
  <2>1. c = CollectOrder(tb, s)
    BY <1>2, <1>7 DEF Collect
  <2>2. /\ c.arcs = tb.arcs /\ c.markings = tb.markings
        /\ c.places = tb.places /\ c.transitions = tb.transitions
    BY <1>1, <2>1 DEF CollectOrder, Fields
  <2> HIDE DEF c
  <2>3. Filled(c)
    BY <2>2, FilledStays
  <2>4. QED
    BY <2>3 DEF c
<1>8. CASE s.kind \in {"marking", "named"}
  <2>1. c = CollectMarking(tb, s)
    BY <1>1, <1>2, <1>8 DEF Collect, CollectNamedMarking
  <2>2. s.count \in Nat
    <3>1. s.count \in 1..SafeInteger
      BY <1>2, <1>8 DEF ContributionAllowed
    <3>2. SafeInteger \in Nat
      BY JsonAssumption
    <3>3. QED
      BY <3>1, <3>2
  <2>3. /\ c.arcs = tb.arcs /\ c.markings = Append(tb.markings, s)
        /\ c.places = tb.places /\ c.transitions = tb.transitions
    BY <2>1 DEF CollectMarking, Fields
  <2> HIDE DEF c
  <2> DEFINE before == tb.markings
             S == Elements(before) \cup {s}
  <2>4. before \in Seq(S)
    <3>1. before \in Seq(Elements(before))
      BY DEF Filled
    <3> HIDE DEF before
    <3>2. QED
      BY <3>1
  <2>5. s \in S
    OBVIOUS
  <2> HIDE DEF before, S
  <2>6. Append(before, s) \in Seq(S) /\ Elements(Append(before, s)) = Elements(before) \cup {s}
    BY <2>4, <2>5, AppendDistinct
  <2>7. c.markings \in Seq(Elements(c.markings))
    BY <2>3, <2>6 DEF before, S
  <2>8. \A m \in Elements(c.markings) : m.count \in Nat
    BY <2>2, <2>3, <2>6 DEF before, Filled
  <2>9. Filled(c)
    BY <2>3, <2>7, <2>8 DEF Filled
  <2>10. QED
    BY <2>9 DEF c
<1>9. CASE s.kind \in {"use", "wire"}
  <2>1. c \in {CollectUse(tb, s), CollectWire(tb, s)}
    BY <1>2, <1>9 DEF Collect
  <2>2. /\ c.arcs = tb.arcs /\ c.markings = tb.markings
        /\ c.places = tb.places /\ c.transitions = tb.transitions
    <3>1. CASE c = CollectUse(tb, s)
      BY <1>1, <3>1 DEF CollectUse, Fields
    <3>2. CASE c = CollectWire(tb, s)
      BY <1>1, <3>2 DEF CollectWire, Fields
    <3>3. QED
      BY <2>1, <3>1, <3>2
  <2> HIDE DEF c
  <2>3. Filled(c)
    BY <2>2, FilledStays
  <2>4. QED
    BY <2>3 DEF c
<1>10. QED
  BY <1>4, <1>5, <1>6, <1>7, <1>8, <1>9 DEF IsStatement

(* Tables that have not been refused are filled, always.                   *)
LEMMA TablesAreFilled == Spec => [](tables.refused \/ Filled(tables))
<1>1. Init => tables.refused \/ Filled(tables)
  <2>1. SUFFICES ASSUME Init PROVE tables.refused \/ Filled(tables)
    OBVIOUS
  <2>2. Filled(EmptyTables)
    <3>1. /\ EmptyTables.arcs = <<>> /\ EmptyTables.places = <<>>
          /\ EmptyTables.transitions = <<>> /\ EmptyTables.markings = <<>>
      BY DEF EmptyTables
    <3>2. <<>> \in Seq({}) /\ Elements(<<>>) = {}
      BY EmptyIsDistinct
    <3>3. QED
      BY <3>1, <3>2 DEF Filled
  <2>3. /\ tables.arcs = EmptyTables.arcs /\ tables.markings = EmptyTables.markings
        /\ tables.places = EmptyTables.places
        /\ tables.transitions = EmptyTables.transitions
    BY <2>1 DEF Init, CollectHeader, Refused, EmptyTables
  <2>4. QED
    BY <2>2, <2>3, FilledStays
<1>2. DocumentInv /\ (tables.refused \/ Filled(tables)) /\ [Next]_vars =>
        (tables.refused \/ Filled(tables))'
  <2>1. SUFFICES ASSUME DocumentInv, tables.refused \/ Filled(tables), [Next]_vars
        PROVE  tables'.refused \/ Filled(tables')
    BY DEF Filled
  <2>2. /\ sources \in Seq(SourceRecords) /\ sources # <<>>
        /\ DOMAIN tables = Fields
        /\ tables.refused \/ NamesListed(tables)
    BY <2>1 DEF DocumentInv, Collected, Sound
  <2>3. Script \in Scripts
    BY <2>1 DEF DocumentInv, Script
  <2>4. Refused(tables).refused
    BY <2>2 DEF Refused, Fields
  <2>5. ASSUME NEW s \in Upcoming(Script), Write(s)
        PROVE  tables'.refused \/ Filled(tables')
    <3> DEFINE run == RunIdentity(Len(sources), Len(sources[Len(sources)].statements) + 1)
    <3>1. s \in Statements
      BY <2>2, <2>3, <2>5, UpcomingIsStatement
    <3>2. run \in Nat \X Nat
      BY <2>2, <3>1, StatementIsAdded DEF Extends
    <3>3. tables' = Collect(tables, run, s)
      BY <2>5 DEF Write
    <3> HIDE DEF run
    <3>4. CASE tables.refused
      BY <3>3, <3>4 DEF Collect
    <3>5. CASE ~tables.refused
      <4>1. tables' = Refused(tables) \/ Filled(tables')
        BY <2>1, <2>2, <3>1, <3>2, <3>3, <3>5, CollectingFills, ScriptsAssumption
      <4>2. QED
        BY <2>4, <4>1
    <3>6. QED
      BY <3>4, <3>5
  <2>6. ASSUME NEW header \in Script.further, NextSource(header)
        PROVE  tables'.refused \/ Filled(tables')
    <3>1. tables' = CollectHeader(tables, sources[1].header, header)
      BY <2>6 DEF NextSource
    <3>2. CASE tables' = Refused(tables)
      BY <2>4, <3>2
    <3>3. CASE tables' # Refused(tables)
      <4>1. /\ tables'.arcs = tables.arcs /\ tables'.markings = tables.markings
            /\ tables'.places = tables.places
            /\ tables'.transitions = tables.transitions
            /\ tables'.refused = tables.refused
        BY <2>2, <3>1, <3>3 DEF CollectHeader, Fields
      <4>2. QED
        BY <2>1, <4>1, FilledStays
    <3>4. QED
      BY <3>2, <3>3
  <2>7. CASE UNCHANGED tables
    BY <2>1, <2>7
  <2>8. QED
    BY <2>1, <2>5, <2>6, <2>7 DEF Next, Resolve, vars
<1>3. QED
  BY <1>1, <1>2, DocumentIsSound, PTL DEF Spec

-----------------------------------------------------------------------------
(* Refusals.                                                                *)

(* What is said of a run's arcs is said of the run's handle.               *)
Says(tb, h, f, member, a, value) ==
  /\ h \in tb.handles /\ h.run = a.run
  /\ f \in tb.facts /\ f.given = value
  /\ f.about[1] = member /\ f.about[2] = <<"arcHandle", h.name>>

(* A value an arc is given was told of the handle of its run.               *)
LEMMA ArcValueIsTold ==
  ASSUME NEW tb, NEW member, NEW a, NEW value \in ArcValues(tb, member, a)
  PROVE  \E h, f : Says(tb, h, f, member, a, value)
BY DEF ArcValues, ValuesOf, Says

(* A value an object is given was told of that object.                      *)
LEMMA ValueIsTold ==
  ASSUME NEW tb, NEW member, NEW object, NEW value \in ValuesOf(tb, member, object)
  PROVE  \E f \in tb.facts :
           f.given = value /\ f.about[1] = member /\ f.about[2] = object
BY DEF ValuesOf

(* A fact about a handle fits the mode of its arc.                          *)
LEMMA ArcFactsFit ==
  ASSUME NEW tb, Consistent(tb), NEW f \in tb.facts, NEW name,
         f.about[2] = <<"arcHandle", name>>
  PROVE  ArcFactFits(tb, f) /\ f.about[2][2] = name
BY DEF Consistent

(* Transitions keep their names, whatever order they are put in.           *)
LEMMA TransitionsAreNamed ==
  ASSUME NEW srcs, NEW tb, Sound(srcs, tb), Consistent(tb)
  PROVE  /\ NamesUnique(Resolved(tb).transitions)
         /\ NamesIn(Resolved(tb).transitions) = Elements(tb.transitions)
<1> DEFINE names == Elements(tb.transitions)
           ordered == OrderedTransitions(tb)
           resolved == Resolved(tb).transitions
<1>1. /\ tb.transitions \in Seq(STRING) /\ Distinct(tb.transitions) /\ RanksApart(tb)
      /\ RanksComplete(tb, "transition", names)
  BY ToSetIsElements DEF Sound, NamesListed, Consistent
<1>2. IsFiniteSet(names) /\ Cardinality(names) = Len(tb.transitions)
  BY <1>1, DistinctCounts
<1>3. DOMAIN tb.transitions = 1..Len(tb.transitions)
  BY <1>1
<1>4. /\ \A i \in DOMAIN tb.transitions : ordered[i] \in names
      /\ \A n \in names : \E i \in DOMAIN tb.transitions : ordered[i] = n
      /\ \A i, j \in DOMAIN tb.transitions : ordered[i] = ordered[j] => i = j
  <2>1. CASE Ranked(tb, "transition") = {}
    <3>1. ordered = tb.transitions
      BY <2>1 DEF OrderedTransitions
    <3>2. QED
      BY <1>1, <3>1 DEF Elements, Distinct
  <2>2. CASE Ranked(tb, "transition") # {}
    <3>1. \A i \in DOMAIN tb.transitions : ordered[i] = Named(tb, "transition", i)
      BY <2>2 DEF OrderedTransitions
    <3> HIDE DEF names, ordered
    <3>2. /\ \A i \in 1..Cardinality(names) : Named(tb, "transition", i) \in names
          /\ \A n \in names : \E i \in 1..Cardinality(names) : Named(tb, "transition", i) = n
          /\ \A i, j \in 1..Cardinality(names) :
               Named(tb, "transition", i) = Named(tb, "transition", j) => i = j
      BY <1>1, <1>2, <2>2, RanksAreOrdinals
    <3>3. QED
      BY <1>2, <1>3, <3>1, <3>2
  <2>3. QED
    BY <2>1, <2>2
<1>5. /\ DOMAIN resolved = DOMAIN tb.transitions
      /\ \A i \in DOMAIN resolved : resolved[i].name = ordered[i]
  BY DEF Resolved, ResolvedTransition
<1> HIDE DEF names, ordered, resolved
<1>6. NamesUnique(resolved)
  BY <1>4, <1>5 DEF NamesUnique
<1>7. NamesIn(resolved) = names
  BY <1>4, <1>5 DEF NamesIn
<1>8. QED
  BY <1>6, <1>7 DEF resolved, names

(* Places keep their names, and markings of ports name places that exist.   *)
LEMMA PlacesAreNamed ==
  ASSUME NEW srcs, NEW tb, Sound(srcs, tb), Consistent(tb)
  PROVE  /\ NamesUnique(Resolved(tb).places)
         /\ NamesIn(Resolved(tb).places) = Elements(tb.places)
         /\ \A p \in Elements(tb.places) :
              Seqs!ToSet(Accepts(tb, p)) \subseteq AcceptedBy(Resolved(tb), p)
         /\ PortsAccepted(Resolved(tb))
<1> DEFINE net == Resolved(tb)
           resolved == net.places
<1>1. Distinct(tb.places)
  BY DEF Sound, NamesListed
<1>2. /\ DOMAIN resolved = DOMAIN tb.places
      /\ \A i \in DOMAIN tb.places :
           /\ resolved[i].name = tb.places[i]
           /\ resolved[i].accepts = Accepts(tb, tb.places[i])
           /\ resolved[i].port = ValuesOf(tb, "place.port", <<"place", tb.places[i]>>)
  BY DEF Resolved, ResolvedPlace
<1> HIDE DEF net
<1>3. NamesUnique(resolved)
  <2>1. SUFFICES ASSUME NEW i \in DOMAIN tb.places, NEW j \in DOMAIN tb.places,
                        resolved[i].name = resolved[j].name
        PROVE  i = j
    BY <1>2 DEF NamesUnique
  <2>2. tb.places[i] = tb.places[j]
    BY <1>2, <2>1
  <2>3. QED
    BY <1>1, <2>2 DEF Distinct
<1>4. NamesIn(resolved) = Elements(tb.places)
  BY <1>2 DEF NamesIn, Elements
<1>5. \A p \in Elements(tb.places) :
        Seqs!ToSet(Accepts(tb, p)) \subseteq AcceptedBy(net, p)
  <2>1. SUFFICES ASSUME NEW p \in Elements(tb.places)
        PROVE  Seqs!ToSet(Accepts(tb, p)) \subseteq AcceptedBy(net, p)
    OBVIOUS
  <2>2. PICK i \in DOMAIN tb.places : tb.places[i] = p
    BY DEF Elements
  <2>3. resolved[i].name = p /\ resolved[i].accepts = Accepts(tb, p) /\ i \in DOMAIN resolved
    BY <1>2, <2>2
  <2>4. QED
    BY <2>3 DEF AcceptedBy
<1>6. PortsAccepted(net)
  <2>1. SUFFICES ASSUME NEW i \in DOMAIN resolved, NEW port \in resolved[i].port
        PROVE  port.type \in Seqs!ToSet(resolved[i].accepts)
    BY DEF PortsAccepted
  <2> DEFINE p == tb.places[i]
  <2>2. /\ port \in ValuesOf(tb, "place.port", <<"place", p>>)
        /\ resolved[i].accepts = Accepts(tb, p)
    BY <1>2, <2>1
  <2> HIDE DEF p
  <2>3. PICK f \in tb.facts : /\ f.given = port /\ f.about[1] = "place.port"
                              /\ f.about[2] = <<"place", p>>
    BY <2>2, ValueIsTold
  <2>4. f.given.type \in Seqs!ToSet(Accepts(tb, f.about[2][2])) /\ f.about[2][2] = p
    BY <2>3 DEF Consistent, PortColorsAccepted
  <2>5. QED
    BY <2>2, <2>3, <2>4
<1>7. QED
  BY <1>3, <1>4, <1>5, <1>6 DEF net

(* The names and the color of an arc are known wherever it stands.         *)
LEMMA ArcIsPlaced ==
  ASSUME NEW srcs, NEW tb, Sound(srcs, tb), Consistent(tb),
         NEW a \in Elements(tb.arcs)
  PROVE  /\ a \in Arcs
         /\ a.place \in NamesIn(Resolved(tb).places)
         /\ a.transition \in NamesIn(Resolved(tb).transitions)
         /\ a.color \in AcceptedBy(Resolved(tb), a.place)
<1>1. PICK i \in DOMAIN tb.arcs : a = tb.arcs[i]
  BY DEF Elements
<1>2. /\ tb.arcs \in Seq(Arcs)
      /\ a.place \in Elements(tb.places) /\ a.transition \in Elements(tb.transitions)
  BY <1>1 DEF Sound, NamesListed
<1>3. a \in Arcs
  BY <1>1, <1>2
<1>4. a.color \in Seqs!ToSet(Accepts(tb, a.place))
  BY <1>1 DEF Consistent, ColorsDeclared
<1>5. QED
  BY <1>2, <1>3, <1>4, TransitionsAreNamed, PlacesAreNamed

(* An input arc of consistent tables is one _validate_net takes.            *)
LEMMA InputIsValid ==
  ASSUME NEW srcs, NEW tb, Sound(srcs, tb), Consistent(tb), FactsTold(tb),
         NEW a \in Elements(tb.arcs), IsInput(a)
  PROVE  ValidConsumeArc(Resolved(tb), ResolvedArc(tb, a))
<1> DEFINE arc == ResolvedArc(tb, a)
           net == Resolved(tb)
<1>1. /\ a.place \in NamesIn(net.places) /\ a.transition \in NamesIn(net.transitions)
      /\ a.color \in AcceptedBy(net, a.place)
  BY ArcIsPlaced
<1>2. /\ arc.from = <<"place", a.place>> /\ arc.to = <<"transition", a.transition>>
      /\ arc.color = a.color /\ arc.mode = a.mode
      /\ arc.weight = IF ArcValues(tb, "arc.weight", a) # {}
                      THEN CHOOSE n \in ArcValues(tb, "arc.weight", a) : TRUE ELSE 1
      /\ arc.filter = ArcValues(tb, "arc.predicate", a)
      /\ arc.correlate = IF a.mode = "inhibit" THEN ArcValues(tb, "arc.correlate", a)
                         ELSE {}
  BY DEF ResolvedArc
<1> HIDE DEF arc, net
<1>3. HandlesTell(srcs, tb) /\ tb.arcs \in Seq(Arcs)
  BY DEF Sound, NamesListed
<1>4. arc.weight >= 1 /\ (a.mode = "inhibit" => arc.weight = 1)
  <2>1. CASE ArcValues(tb, "arc.weight", a) = {}
    BY <1>2, <2>1
  <2>2. CASE ArcValues(tb, "arc.weight", a) # {}
    <3>1. arc.weight \in ArcValues(tb, "arc.weight", a)
      BY <1>2, <2>2
    <3>2. PICK h, f : Says(tb, h, f, "arc.weight", a, arc.weight)
      BY <3>1, ArcValueIsTold
    <3>3. arc.weight >= 1
      BY <3>2, ToldFactIs DEF FactsTold, Says
    <3> DEFINE inputs == InputsOf(tb, h.name)
    <3>4. Len(inputs) = 1 /\ (inputs[1].mode = "inhibit" => arc.weight = 1)
      <4>1. ArcFactFits(tb, f) /\ f.about[2][2] = h.name
        BY <3>2, ArcFactsFit DEF Says
      <4>2. f.about[1] = "arc.weight" /\ f.given = arc.weight
        BY <3>2 DEF Says
      <4>3. QED
        BY <4>1, <4>2 DEF ArcFactFits
    <3>5. inputs[1] = a
      <4> DEFINE runArcs == RunArcs(tb, h.name)
                 c == {i \in DOMAIN runArcs : IsInput(runArcs[i])}
      <4>1. runArcs \in Seq(Arcs) /\ a \in Elements(runArcs)
        BY <1>3, <3>2, RunArcsAre DEF Says
      <4>2. inputs = Subsequence(runArcs, c)
        BY DEF InputsOf
      <4>3. PICK i \in DOMAIN runArcs : a = runArcs[i]
        BY <4>1 DEF Elements
      <4>4. i \in c /\ c \in SUBSET DOMAIN runArcs
        BY <4>3
      <4> HIDE DEF runArcs, c, inputs
      <4>5. /\ Len(inputs) = Cardinality(c)
            /\ \A k \in c : Rank(c, k) \in 1..Cardinality(c) /\ inputs[Rank(c, k)] = runArcs[k]
        BY <4>1, <4>2, <4>4, SubsequenceAt
      <4>6. Rank(c, i) \in 1..1 /\ inputs[Rank(c, i)] = a
        BY <3>4, <4>3, <4>4, <4>5
      <4>7. QED
        BY <4>6
    <3>6. QED
      BY <3>3, <3>4, <3>5
  <2>3. QED
    BY <2>1, <2>2
<1>5. Compiles(CelOf(arc.filter))
  <2>1. SUFFICES ASSUME NEW value \in ArcValues(tb, "arc.predicate", a), value[1] = "cel"
        PROVE  value[2] \notin Uncompilable
    BY <1>2 DEF Compiles, CelOf
  <2>2. PICK h, f : Says(tb, h, f, "arc.predicate", a, value)
    BY ArcValueIsTold
  <2>3. Compiles(CelOf({value}))
    BY <2>2, ArcFactsFit DEF ArcFactFits, Says
  <2>4. QED
    BY <2>1, <2>3 DEF Compiles, CelOf
<1>6. Compiles(arc.correlate)
  <2>1. SUFFICES ASSUME NEW value \in ArcValues(tb, "arc.correlate", a)
        PROVE  value \notin Uncompilable
    BY <1>2 DEF Compiles
  <2>2. PICK h, f : Says(tb, h, f, "arc.correlate", a, value)
    BY ArcValueIsTold
  <2>3. Compiles({value})
    BY <2>2, ArcFactsFit DEF ArcFactFits, Says
  <2>4. QED
    BY <2>3 DEF Compiles
<1>7. Compiles(CelOf(arc.filter) \cup arc.correlate)
  BY <1>5, <1>6 DEF Compiles
<1>8. /\ arc.from \in {"place"} \X NamesIn(net.places)
      /\ arc.to \in {"transition"} \X NamesIn(net.transitions)
      /\ arc.color \in AcceptedBy(net, arc.from[2])
      /\ arc.mode = "inhibit" => arc.weight = 1
      /\ arc.correlate # {} => arc.mode = "inhibit"
  BY <1>1, <1>2, <1>4
<1>9. ValidConsumeArc(net, arc)
  BY <1>4, <1>7, <1>8 DEF ValidConsumeArc
<1>10. QED
  BY <1>9 DEF net, arc

(* So is an output arc.                                                     *)
LEMMA OutputIsValid ==
  ASSUME NEW srcs, NEW tb, Sound(srcs, tb), Consistent(tb),
         NEW a \in Elements(tb.arcs), ~IsInput(a)
  PROVE  ValidProduceArc(Resolved(tb), ResolvedArc(tb, a))
<1> DEFINE arc == ResolvedArc(tb, a)
           net == Resolved(tb)
<1>1. /\ a.place \in NamesIn(net.places) /\ a.transition \in NamesIn(net.transitions)
      /\ a.color \in AcceptedBy(net, a.place)
  BY ArcIsPlaced
<1>2. /\ arc.from = <<"transition", a.transition>> /\ arc.to = <<"place", a.place>>
      /\ arc.color = a.color /\ arc.destination = a.place
      /\ arc.data = ArcValues(tb, "arc.produce-data", a)
      /\ arc.cel = ArcValues(tb, "arc.produce-cel", a)
  BY DEF ResolvedArc
<1> HIDE DEF arc, net
<1>3. arc.data = {} \/ arc.cel = {}
  <2>1. SUFFICES ASSUME NEW data \in arc.data, NEW cel \in arc.cel PROVE FALSE
    OBVIOUS
  <2>2. PICK h, f : Says(tb, h, f, "arc.produce-data", a, data)
    BY <1>2, ArcValueIsTold
  <2>3. PICK g, e : Says(tb, g, e, "arc.produce-cel", a, cel)
    BY <1>2, ArcValueIsTold
  <2>4. h = g
    BY <2>2, <2>3 DEF Sound, HandlesTell, Says
  <2>5. ValuesOf(tb, "arc.produce-data", e.about[2]) = {}
    <3>1. ArcFactFits(tb, e) /\ e.about[1] = "arc.produce-cel"
      BY <2>3, ArcFactsFit DEF Says
    <3>2. QED
      BY <3>1 DEF ArcFactFits
  <2>6. data \in ValuesOf(tb, "arc.produce-data", e.about[2])
    BY <2>2, <2>3, <2>4 DEF ValuesOf, Says
  <2>7. QED
    BY <2>5, <2>6
<1>4. Compiles(arc.cel)
  <2>1. SUFFICES ASSUME NEW value \in ArcValues(tb, "arc.produce-cel", a)
        PROVE  value \notin Uncompilable
    BY <1>2 DEF Compiles
  <2>2. PICK h, f : Says(tb, h, f, "arc.produce-cel", a, value)
    BY ArcValueIsTold
  <2>3. Compiles({value})
    BY <2>2, ArcFactsFit DEF ArcFactFits, Says
  <2>4. QED
    BY <2>3 DEF Compiles
<1>5. /\ arc.from \in {"transition"} \X NamesIn(net.transitions)
      /\ arc.to \in {"place"} \X NamesIn(net.places)
      /\ arc.destination = arc.to[2]
      /\ arc.color \in AcceptedBy(net, arc.to[2])
  BY <1>1, <1>2
<1>6. ValidProduceArc(net, arc)
  BY <1>3, <1>4, <1>5 DEF ValidProduceArc
<1>7. QED
  BY <1>6 DEF net, arc

(* Consistent tables resolve to a net _validate_net takes, but for timers.  *)
LEMMA ConsistentIsValid ==
  ASSUME NEW srcs, NEW tb, Sound(srcs, tb), Consistent(tb), FactsTold(tb)
  PROVE  StructureValid(Resolved(tb))
<1> DEFINE net == Resolved(tb)
           arcs == OrderedArcs(tb)
<1>1. net.arcs = [i \in DOMAIN arcs |-> ResolvedArc(tb, arcs[i])]
  BY DEF Resolved
<1>2. Elements(arcs) = Elements(tb.arcs)
  BY OrderedArcsAre
<1> HIDE DEF net, arcs
<1>3. \A i \in DOMAIN net.arcs :
        IF IsInput(net.arcs[i]) THEN ValidConsumeArc(net, net.arcs[i])
                                ELSE ValidProduceArc(net, net.arcs[i])
  <2>1. SUFFICES ASSUME NEW i \in DOMAIN net.arcs
        PROVE  IF IsInput(net.arcs[i]) THEN ValidConsumeArc(net, net.arcs[i])
                                       ELSE ValidProduceArc(net, net.arcs[i])
    OBVIOUS
  <2> DEFINE a == arcs[i]
  <2>2. a \in Elements(tb.arcs) /\ net.arcs[i] = ResolvedArc(tb, a)
    BY <1>1, <1>2, <2>1 DEF Elements
  <2> HIDE DEF a
  <2>3. IsInput(net.arcs[i]) = IsInput(a)
    BY <2>2 DEF IsInput, ResolvedArc
  <2>4. CASE IsInput(a)
    BY <2>2, <2>3, <2>4, InputIsValid DEF net
  <2>5. CASE ~IsInput(a)
    BY <2>2, <2>3, <2>5, OutputIsValid DEF net
  <2>6. QED
    BY <2>4, <2>5
<1>4. NamesUnique(net.places) /\ NamesUnique(net.transitions) /\ PortsAccepted(net)
  BY TransitionsAreNamed, PlacesAreNamed DEF net
<1>5. StructureValid(net)
  BY <1>3, <1>4 DEF StructureValid
<1>6. QED
  BY <1>5 DEF net

(* What a fact was told of has a name, and what it tells is not empty,     *)
(* where the resolver looks.                                               *)
LEMMA ToldFactIsFilled ==
  ASSUME NEW f, IsTold(f)
  PROVE  /\ f.about[1] \in NamingMembers => f.about[2][2] # ""
         /\ f.about[1] \in ExpressionMembers => f.given # ""
         /\ f.about[1] = "place.accepts" =>
              IsList(f.given) /\ f.given # <<>> /\ "" \notin Elements(f.given)
         /\ f.about[1] = "place.port" => f.given.type # ""
         /\ f.about[1] = "transition.timer" => "" \notin {f.given.clock, f.given.cel}
         /\ f.about[1] = "arc.predicate" => f.given[2] # ""
<1>1. PICK s : /\ IsFact(s) /\ ValueAllowed(s)
               /\ f = [about |-> s.about, given |-> Given(s)]
  BY DEF IsTold
<1>2. f.about = s.about /\ f.given = Given(s)
  BY <1>1
<1> DEFINE member == s.about[1]
           unread == {"place.accepts", "place.port", "transition.timer", "arc.predicate"}
                     \cup ExpressionMembers
<1>3. member \in unread => Given(s) = s.given
  BY DEF Given, JsonMembers, ExpressionMembers
<1>4. /\ member \in NamingMembers => s.about[2][2] # ""
      /\ member \in ExpressionMembers => s.given # ""
  BY <1>1 DEF ValueAllowed
<1>5. /\ member = "place.accepts" =>
           IsList(s.given) /\ s.given # <<>> /\ "" \notin Seqs!ToSet(s.given)
      /\ member = "place.port" => s.given.type # ""
      /\ member = "transition.timer" => "" \notin {s.given.clock, s.given.cel}
      /\ member = "arc.predicate" => s.given[2] # ""
  BY <1>1 DEF ValueAllowed, IsFact
<1>6. Seqs!ToSet(s.given) = Elements(s.given)
  BY ToSetIsElements
<1>7. QED
  BY <1>2, <1>3, <1>4, <1>5, <1>6

(* A sequence is one of its own elements.                                  *)
LEMMA ListOfItsOwn ==
  ASSUME NEW S, NEW s \in Seq(S)
  PROVE  s \in Seq({s[i] : i \in DOMAIN s})
<1> DEFINE T == {s[i] : i \in DOMAIN s}
<1>1. DOMAIN s = 1..Len(s) /\ Len(s) \in Nat /\ s = [i \in DOMAIN s |-> s[i]]
  OBVIOUS
<1>2. \A i \in DOMAIN s : s[i] \in T
  OBVIOUS
<1> HIDE DEF T
<1>3. s \in Seq(T)
  BY <1>2, <1>1, ReplacedIsSequence
<1>4. QED
  BY <1>3 DEF T

LEMMA OnlyOneIsElement ==
  ASSUME NEW s, IsList(s), Len(s) = 1
  PROVE  s[1] \in Elements(s)
<1>1. s \in Seq({s[i] : i \in DOMAIN s})
  BY DEF IsList
<1>2. 1 \in DOMAIN s
  BY <1>1, SequenceOf
<1>3. QED
  BY <1>2 DEF Elements

(* A place accepts something, and no color of no name.                     *)
LEMMA AcceptedIsFilled ==
  ASSUME NEW tb, NamesListed(tb), FactsTold(tb), Filled(tb), NEW p
  PROVE  /\ Accepts(tb, p) # <<>> /\ "" \notin Elements(Accepts(tb, p))
         /\ Len(Accepts(tb, p)) = 1 => Accepts(tb, p)[1] # ""
<1> DEFINE declared == ValuesOf(tb, "place.accepts", <<"place", p>>)
           seen == ColorsSeen(tb, p)
           colors == Accepts(tb, p)
<1>1. SUFFICES IsList(colors) /\ colors # <<>> /\ "" \notin Elements(colors)
  <2> HIDE DEF colors
  <2>1. SUFFICES ASSUME IsList(colors), "" \notin Elements(colors), Len(colors) = 1
        PROVE  colors[1] # ""
    BY DEF colors
  <2>2. colors[1] \in Elements(colors)
    BY <2>1, OnlyOneIsElement
  <2>3. QED
    BY <2>1, <2>2
<1>2. CASE declared # {}
  <2>1. colors \in declared
    BY <1>2 DEF Accepts
  <2> HIDE DEF colors
  <2>2. PICK f \in tb.facts : f.given = colors /\ f.about[1] = "place.accepts"
    BY <2>1, ValueIsTold
  <2>3. QED
    BY <2>2, ToldFactIsFilled DEF FactsTold
<1>3. CASE declared = {} /\ seen # <<>>
  <2> DEFINE arcs == tb.arcs
             c == {i \in DOMAIN arcs : arcs[i].place = p}
             here == Subsequence(arcs, c)
             shown == [i \in DOMAIN here |-> here[i].color]
             first == FirstOf(shown)
             S == STRING \ {""}
  <2>1. colors = first /\ colors # <<>>
    BY <1>3 DEF Accepts, ColorsSeen
  <2>2. arcs \in Seq(Arcs) /\ c \in SUBSET DOMAIN arcs
    BY DEF NamesListed
  <2>3. \A i \in DOMAIN arcs : arcs[i].color \in S
    <3>1. SUFFICES ASSUME NEW i \in DOMAIN arcs PROVE arcs[i].color \in S
      OBVIOUS
    <3>2. arcs[i] \in Elements(arcs) /\ arcs[i] \in Arcs
      BY <2>2 DEF Elements
    <3>3. QED
      BY <3>2 DEF Filled, Arcs
  <2> HIDE DEF arcs, c, here, colors
  <2>4. /\ here \in Seq(Arcs) /\ Len(here) = Cardinality(c)
        /\ \A n \in 1..Cardinality(c) : \E i \in c : Rank(c, i) = n /\ here[n] = arcs[i]
    BY <2>2, SubsequenceAt DEF here
  <2>5. DOMAIN here = 1..Len(here) /\ Len(here) \in Nat
    BY <2>4
  <2>6. \A n \in DOMAIN here : here[n].color \in S
    BY <2>2, <2>3, <2>4, <2>5
  <2>7. /\ DOMAIN shown = DOMAIN here /\ shown = [i \in DOMAIN shown |-> shown[i]]
        /\ \A n \in DOMAIN shown : shown[n] = here[n].color
    OBVIOUS
  <2> HIDE DEF shown
  <2>8. \A n \in DOMAIN shown : shown[n] \in S
    BY <2>6, <2>7
  <2> HIDE DEF S
  <2>9. shown \in Seq(S)
    BY <2>4, <2>7, <2>8, ReplacedIsSequence
  <2>10. first \in Seq(S)
    BY <2>9, FirstOfDistinct DEF first
  <2> HIDE DEF first
  <2>11. first \in Seq({first[i] : i \in DOMAIN first}) /\ \A i \in DOMAIN first : first[i] \in S
    BY <2>10, ListOfItsOwn, SequenceOf
  <2>12. IsList(first) /\ "" \notin Elements(first)
    BY <2>11 DEF IsList, Elements, S
  <2>13. QED
    BY <2>1, <2>12
<1>4. CASE declared = {} /\ seen = <<>>
  <2>1. colors = <<"token">>
    BY <1>4 DEF Accepts
  <2> HIDE DEF colors
  <2>2. colors \in Seq({"token"})
    BY <2>1
  <2>3. colors \in Seq({colors[i] : i \in DOMAIN colors})
    BY <2>2, ListOfItsOwn
  <2>4. colors # <<>> /\ "" \notin Elements(colors)
    <3>1. colors # <<>>
      BY <2>1
    <3>2. \A i \in DOMAIN colors : colors[i] \in {"token"}
      BY <2>2, SequenceOf
    <3>3. QED
      BY <3>1, <3>2 DEF Elements
  <2>5. QED
    BY <2>3, <2>4 DEF IsList
<1>5. QED
  BY <1>2, <1>3, <1>4

(* Tokens have a color, and their data are an object.                      *)
LEMMA MarkedIsFilled ==
  ASSUME NEW tb, NamesListed(tb), FactsTold(tb), Filled(tb), Consistent(tb),
         NEW p \in DOMAIN Marked(tb, "initial"),
         NEW i \in DOMAIN Marked(tb, "initial")[p]
  PROVE  FilledToken(Marked(tb, "initial")[p][i])
<1> DEFINE all == tb.markings
           T == {TokenOf(tb, m) : m \in Elements(all)}
           c == {k \in DOMAIN all : all[k].marking = "initial" /\ all[k].place = p}
           said == Subsequence(all, c)
           ss == [k \in DOMAIN said |-> [n \in 1..said[k].count |-> TokenOf(tb, said[k])]]
<1>1. Marked(tb, "initial")[p] = Seqs!FlattenSeq(ss)
  BY DEF Marked, MarkedAt
<1>2. /\ all \in Seq(Elements(all)) /\ c \in SUBSET DOMAIN all
      /\ \A m \in Elements(all) : m.count \in Nat
  BY DEF Filled
<1>3. \A m \in Elements(all) : FilledToken(TokenOf(tb, m))
  <2>1. SUFFICES ASSUME NEW m \in Elements(all) PROVE FilledToken(TokenOf(tb, m))
    OBVIOUS
  <2>2. MarkingFits(tb, m)
    BY <2>1 DEF Elements, Consistent
  <2>3. CASE m.template = {}
    <3>1. TokenOf(tb, m) = <<"token", EmptyObject>> /\ EmptyObject[1] = "object"
      BY <2>3 DEF TokenOf, EmptyObject
    <3>2. QED
      BY <3>1 DEF FilledToken
  <2>4. CASE m.template # {}
    <3> DEFINE data == CHOOSE x \in TemplateData(tb, m) : TRUE
    <3>1. /\ Len(Accepts(tb, m.place)) = 1
          /\ TemplateData(tb, m) # {}
          /\ \A x \in TemplateData(tb, m) : x[1] = "object"
      BY <2>2, <2>4 DEF MarkingFits
    <3>2. data[1] = "object"
      BY <3>1
    <3>3. Accepts(tb, m.place)[1] # ""
      BY <3>1, AcceptedIsFilled
    <3> DEFINE color == Accepts(tb, m.place)[1]
               token == TokenOf(tb, m)
    <3>4. token = <<color, data>>
      BY <2>4 DEF TokenOf
    <3>5. color # ""
      BY <3>3
    <3> HIDE DEF data, color, token
    <3>6. token[1] # "" /\ token[2][1] = "object"
      <4>1. token[1] = color /\ token[2] = data
        BY <3>4
      <4>2. QED
        BY <3>2, <3>5, <4>1
    <3>7. FilledToken(token)
      BY <3>6 DEF FilledToken
    <3>8. QED
      BY <3>7 DEF token
  <2>5. QED
    BY <2>3, <2>4
<1> HIDE DEF c, all
<1>4. said \in Seq(Elements(all))
  BY <1>2, SubsequenceAt
<1> HIDE DEF said
<1>5. DOMAIN said = 1..Len(said) /\ Len(said) \in Nat
      /\ \A k \in DOMAIN said : said[k] \in Elements(all)
  BY <1>4
<1>6. \A k \in DOMAIN said : ss[k] \in Seq(T)
  <2>1. SUFFICES ASSUME NEW k \in DOMAIN said PROVE ss[k] \in Seq(T)
    OBVIOUS
  <2> DEFINE n == said[k].count
             t == TokenOf(tb, said[k])
  <2>2. n \in Nat /\ t \in T
    BY <1>2, <1>5
  <2>3. ss[k] = [j \in 1..n |-> t]
    OBVIOUS
  <2> HIDE DEF n, t, T, ss
  <2>4. QED
    BY <2>2, <2>3
<1>7. ss \in Seq(Seq(T))
  <2>1. DOMAIN ss = 1..Len(said) /\ ss = [k \in 1..Len(said) |-> ss[k]]
    BY <1>5
  <2> HIDE DEF ss, T
  <2>2. QED
    BY <1>5, <1>6, <2>1
<1> HIDE DEF ss
<1>8. Seqs!FlattenSeq(ss) \in Seq(T)
  <2> HIDE DEF T
  <2>1. QED
    BY <1>7, FlattenedElements
<1>9. Marked(tb, "initial")[p][i] \in T
  <2> HIDE DEF T
  <2>1. QED
    BY <1>1, <1>8
<1>10. QED
  BY <1>3, <1>9

(* Places and transitions, resolved, are as the schema wants them unless   *)
(* an arc's end or a handler is empty, which nobody has looked at.         *)
LEMMA NodesAreFilled ==
  ASSUME NEW srcs, NEW tb, Sound(srcs, tb), Consistent(tb), FactsTold(tb),
         Filled(tb), ~UnreadFault(tb)
  PROVE  /\ \A p \in Elements(tb.places) : FilledPlace(ResolvedPlace(tb, p))
         /\ \A t \in Elements(tb.transitions) : FilledTransition(ResolvedTransition(tb, t))
<1>1. "" \notin Elements(tb.places) /\ "" \notin Elements(tb.transitions)
  <2>1. \A a \in Elements(tb.arcs) : a.place # "" /\ a.transition # ""
    BY DEF UnreadFault, Elements
  <2>2. QED
    BY <2>1 DEF Filled
<1>2. NamesListed(tb)
  BY DEF Sound
<1>3. ASSUME NEW p \in Elements(tb.places) PROVE FilledPlace(ResolvedPlace(tb, p))
  <2> DEFINE place == ResolvedPlace(tb, p)
  <2>1. /\ place.name = p /\ place.accepts = Accepts(tb, p)
        /\ place.port = ValuesOf(tb, "place.port", <<"place", p>>)
    BY DEF ResolvedPlace
  <2> HIDE DEF place
  <2>2. place.accepts # <<>> /\ "" \notin Seqs!ToSet(place.accepts)
    BY <1>2, <2>1, AcceptedIsFilled, ToSetIsElements
  <2>3. \A port \in place.port : port.type # ""
    <3>1. SUFFICES ASSUME NEW port \in ValuesOf(tb, "place.port", <<"place", p>>)
          PROVE  port.type # ""
      BY <2>1
    <3>2. PICK f \in tb.facts : f.given = port /\ f.about[1] = "place.port"
      BY ValueIsTold
    <3>3. QED
      BY <3>2, ToldFactIsFilled DEF FactsTold
  <2>4. FilledPlace(place)
    BY <1>1, <1>3, <2>1, <2>2, <2>3 DEF FilledPlace
  <2>5. QED
    BY <2>4 DEF place
<1>4. ASSUME NEW t \in Elements(tb.transitions)
      PROVE  FilledTransition(ResolvedTransition(tb, t))
  <2> DEFINE transition == ResolvedTransition(tb, t)
             maturity == ValuesOf(tb, "transition.timer-maturity", <<"transition", t>>)
             bind == {<<f.about[3], f.given>> :
                        f \in {g \in tb.facts : /\ g.about[1] = "transition.timer-bind"
                                                /\ g.about[2] = <<"transition", t>>}}
             timers == ValuesOf(tb, "transition.timer", <<"transition", t>>)
  <2>1. /\ transition.name = t
        /\ transition.attributes = Carried(tb, {<<"transition", t>>})
        /\ transition.timer = {[clock |-> timer.clock, cel |-> timer.cel,
                                maturity |-> maturity, bind |-> bind] : timer \in timers}
    BY DEF ResolvedTransition
  <2> HIDE DEF transition
  <2>2. ASSUME NEW a \in transition.attributes, a[1] \in References PROVE a[3] # ""
    <3>1. PICK f \in tb.facts : a = <<f.about[1], f.about[3], f.given>>
      BY <2>1, <2>2 DEF Carried
    <3>2. a[1] = f.about[1] /\ a[3] = f.given
      BY <3>1
    <3>3. CASE f.about[1] = "transition.handler"
      BY <3>2, <3>3 DEF UnreadFault
    <3>4. CASE f.about[1] = "transition.guard"
      BY <3>2, <3>4, ToldFactIsFilled DEF FactsTold, ExpressionMembers
    <3>5. QED
      BY <2>2, <3>2, <3>3, <3>4 DEF References
  <2>3. "" \notin maturity
    <3>1. SUFFICES ASSUME NEW m \in maturity PROVE m # ""
      OBVIOUS
    <3>2. PICK f \in tb.facts : f.given = m /\ f.about[1] = "transition.timer-maturity"
      BY <3>1, ValueIsTold
    <3>3. QED
      BY <3>2, ToldFactIsFilled DEF FactsTold, ExpressionMembers
  <2>4. \A b \in bind : b[2] # ""
    <3>1. SUFFICES ASSUME NEW b \in bind PROVE b[2] # ""
      OBVIOUS
    <3>2. PICK f \in tb.facts : b = <<f.about[3], f.given>> /\ f.about[1] = "transition.timer-bind"
      OBVIOUS
    <3>3. QED
      BY <3>2, ToldFactIsFilled DEF FactsTold, ExpressionMembers
  <2>5. \A timer \in timers : "" \notin {timer.clock, timer.cel}
    <3>1. SUFFICES ASSUME NEW timer \in timers PROVE "" \notin {timer.clock, timer.cel}
      OBVIOUS
    <3>2. PICK f \in tb.facts : f.given = timer /\ f.about[1] = "transition.timer"
      BY <3>1, ValueIsTold
    <3>3. QED
      BY <3>2, ToldFactIsFilled DEF FactsTold
  <2> HIDE DEF maturity, bind, timers
  <2>6. ASSUME NEW timer \in transition.timer
        PROVE  "" \notin {timer.clock, timer.cel} \cup timer.maturity
                         \cup {b[2] : b \in timer.bind}
    <3>1. PICK given \in timers : timer = [clock |-> given.clock, cel |-> given.cel,
                                           maturity |-> maturity, bind |-> bind]
      BY <2>1, <2>6
    <3>2. /\ timer.clock = given.clock /\ timer.cel = given.cel
          /\ timer.maturity = maturity /\ timer.bind = bind
      BY <3>1
    <3>3. QED
      BY <2>3, <2>4, <2>5, <3>2
  <2>7. FilledTransition(transition)
    BY <1>1, <1>4, <2>1, <2>2, <2>6 DEF FilledTransition
  <2>8. QED
    BY <2>7 DEF transition
<1>5. QED
  BY <1>3, <1>4

(* So are the arcs, unless their data, too, are no object.                 *)
LEMMA ArcIsFilled ==
  ASSUME NEW srcs, NEW tb, Sound(srcs, tb), FactsTold(tb), Filled(tb),
         ~UnreadFault(tb), NEW a \in Elements(tb.arcs)
  PROVE  FilledArc(ResolvedArc(tb, a))
<1> DEFINE arc == ResolvedArc(tb, a)
<1>1. a.place # "" /\ a.transition # "" /\ a.color # ""
  BY DEF UnreadFault, Elements, Filled
<1>2. /\ {arc.from[2], arc.to[2]} = {a.place, a.transition}
      /\ arc.color = a.color /\ arc.destination = a.place
      /\ arc.filter \subseteq ArcValues(tb, "arc.predicate", a)
      /\ arc.correlate \subseteq ArcValues(tb, "arc.correlate", a)
      /\ arc.data \subseteq ArcValues(tb, "arc.produce-data", a)
      /\ arc.cel \subseteq ArcValues(tb, "arc.produce-cel", a)
  <2>1. /\ arc.color = a.color /\ arc.destination = a.place
        /\ arc.from = IF IsInput(a) THEN <<"place", a.place>>
                      ELSE <<"transition", a.transition>>
        /\ arc.to = IF IsInput(a) THEN <<"transition", a.transition>>
                    ELSE <<"place", a.place>>
    BY DEF ResolvedArc
  <2>2. /\ arc.filter \subseteq ArcValues(tb, "arc.predicate", a)
        /\ arc.correlate \subseteq ArcValues(tb, "arc.correlate", a)
        /\ arc.data \subseteq ArcValues(tb, "arc.produce-data", a)
        /\ arc.cel \subseteq ArcValues(tb, "arc.produce-cel", a)
    BY DEF ResolvedArc
  <2> HIDE DEF arc
  <2>3. QED
    BY <2>1, <2>2
<1> HIDE DEF arc
<1>3. \A x \in arc.filter : x[2] # ""
  <2>1. SUFFICES ASSUME NEW x \in ArcValues(tb, "arc.predicate", a) PROVE x[2] # ""
    BY <1>2
  <2>2. PICK h, f : Says(tb, h, f, "arc.predicate", a, x)
    BY ArcValueIsTold
  <2>3. QED
    BY <2>2, ToldFactIsFilled DEF FactsTold, Says
<1>4. "" \notin arc.correlate \cup arc.cel
  <2>1. SUFFICES ASSUME NEW member \in {"arc.correlate", "arc.produce-cel"},
                        NEW x \in ArcValues(tb, member, a)
        PROVE  x # ""
    BY <1>2
  <2>2. PICK h, f : Says(tb, h, f, member, a, x)
    BY ArcValueIsTold
  <2>3. QED
    BY <2>1, <2>2, ToldFactIsFilled DEF FactsTold, Says, ExpressionMembers
<1>5. \A data \in arc.data : data[1] = "object"
  <2>1. SUFFICES ASSUME NEW data \in ArcValues(tb, "arc.produce-data", a)
        PROVE  data[1] = "object"
    BY <1>2
  <2>2. PICK h, f : Says(tb, h, f, "arc.produce-data", a, data)
    BY ArcValueIsTold
  <2>3. QED
    BY <2>2 DEF UnreadFault, Says
<1>6. FilledArc(arc)
  BY <1>1, <1>2, <1>3, <1>4, <1>5 DEF FilledArc
<1>7. QED
  BY <1>6 DEF arc

(* The schema takes what consistent tables describe, but for the faults    *)
(* nobody has looked for.                                                  *)
LEMMA ReadIsSchemaValid ==
  ASSUME NEW srcs, NEW tb, Sound(srcs, tb), Consistent(tb), FactsTold(tb),
         Filled(tb), ~UnreadFault(tb)
  PROVE  SchemaValid(Resolved(tb))
<1> DEFINE net == Resolved(tb)
           arcs == OrderedArcs(tb)
<1>1. /\ net.name = NameOf(tb.header)
      /\ net.places = [i \in DOMAIN tb.places |-> ResolvedPlace(tb, tb.places[i])]
      /\ net.transitions = [i \in DOMAIN tb.transitions |->
                              ResolvedTransition(tb, OrderedTransitions(tb)[i])]
      /\ net.arcs = [i \in DOMAIN arcs |-> ResolvedArc(tb, arcs[i])]
      /\ net.marking = Marked(tb, "initial")
  BY DEF Resolved
<1>2. \A i \in DOMAIN tb.transitions :
        OrderedTransitions(tb)[i] \in Elements(tb.transitions)
  <2>1. NamesIn(net.transitions) = Elements(tb.transitions)
    BY TransitionsAreNamed
  <2>2. \A i \in DOMAIN tb.transitions :
          /\ i \in DOMAIN net.transitions
          /\ net.transitions[i].name = OrderedTransitions(tb)[i]
    BY DEF Resolved, ResolvedTransition
  <2> HIDE DEF net
  <2>3. QED
    BY <2>1, <2>2 DEF NamesIn
<1>3. Elements(arcs) = Elements(tb.arcs)
  BY OrderedArcsAre
<1> HIDE DEF net, arcs
<1>4. net.name # ""
  BY <1>1 DEF UnreadFault
<1>5. \A i \in DOMAIN net.places : FilledPlace(net.places[i])
  BY <1>1, NodesAreFilled DEF Elements
<1>6. \A i \in DOMAIN net.transitions : FilledTransition(net.transitions[i])
  BY <1>1, <1>2, NodesAreFilled
<1>7. \A i \in DOMAIN net.arcs : FilledArc(net.arcs[i])
  <2>1. SUFFICES ASSUME NEW i \in DOMAIN arcs PROVE FilledArc(ResolvedArc(tb, arcs[i]))
    BY <1>1
  <2>2. arcs[i] \in Elements(tb.arcs)
    BY <1>3 DEF Elements
  <2>3. QED
    BY <2>2, ArcIsFilled
<1>8. \A p \in DOMAIN net.marking : \A i \in DOMAIN net.marking[p] :
        FilledToken(net.marking[p][i])
  BY <1>1, MarkedIsFilled DEF Sound
<1>9. QED
  BY <1>4, <1>5, <1>6, <1>7, <1>8 DEF SchemaValid, net

(* And it finds each of those faults: they all reach the net.              *)
LEMMA UnreadIsSchemaInvalid ==
  ASSUME NEW srcs, NEW tb, Sound(srcs, tb), Consistent(tb), FactsTold(tb),
         UnreadFault(tb)
  PROVE  ~SchemaValid(Resolved(tb))
<1> DEFINE net == Resolved(tb)
           arcs == OrderedArcs(tb)
<1>1. /\ net.name = NameOf(tb.header)
      /\ net.transitions = [i \in DOMAIN tb.transitions |->
                              ResolvedTransition(tb, OrderedTransitions(tb)[i])]
      /\ net.arcs = [i \in DOMAIN arcs |-> ResolvedArc(tb, arcs[i])]
  BY DEF Resolved
<1>2. Elements(arcs) = Elements(tb.arcs)
  BY OrderedArcsAre
<1>3. NamesIn(net.transitions) = Elements(tb.transitions)
  BY TransitionsAreNamed
<1> HIDE DEF net, arcs
<1>4. SUFFICES ASSUME SchemaValid(net) PROVE FALSE
  BY DEF net
<1>5. \A a \in Elements(tb.arcs) : FilledArc(ResolvedArc(tb, a))
  <2>1. SUFFICES ASSUME NEW a \in Elements(tb.arcs) PROVE FilledArc(ResolvedArc(tb, a))
    OBVIOUS
  <2>2. PICK i \in DOMAIN arcs : arcs[i] = a
    BY <1>2 DEF Elements
  <2>3. i \in DOMAIN net.arcs /\ net.arcs[i] = ResolvedArc(tb, a)
    BY <1>1, <2>2
  <2>4. QED
    BY <1>4, <2>3 DEF SchemaValid
<1>6. NameOf(tb.header) # ""
  BY <1>1, <1>4 DEF SchemaValid
<1>7. \A i \in DOMAIN tb.arcs : "" \notin {tb.arcs[i].place, tb.arcs[i].transition}
  <2>1. SUFFICES ASSUME NEW i \in DOMAIN tb.arcs
        PROVE  "" \notin {tb.arcs[i].place, tb.arcs[i].transition}
    OBVIOUS
  <2> DEFINE a == tb.arcs[i]
             arc == ResolvedArc(tb, a)
  <2>2. FilledArc(arc)
    BY <1>5 DEF Elements
  <2>3. /\ arc.from = IF IsInput(a) THEN <<"place", a.place>>
                      ELSE <<"transition", a.transition>>
        /\ arc.to = IF IsInput(a) THEN <<"transition", a.transition>>
                    ELSE <<"place", a.place>>
    BY DEF ResolvedArc
  <2> HIDE DEF arc, a
  <2>4. {arc.from[2], arc.to[2]} = {a.place, a.transition}
    BY <2>3
  <2>5. QED
    BY <2>2, <2>4 DEF FilledArc, a
<1>8. \A f \in tb.facts : f.about[1] = "transition.handler" => f.given # ""
  <2>1. SUFFICES ASSUME NEW f \in tb.facts, f.about[1] = "transition.handler"
        PROVE  f.given # ""
    OBVIOUS
  <2>2. /\ f.about \in STRING \X (STRING \X STRING) \X STRING
        /\ f.about[1] \in MembersOf(f.about[2][1])
    BY ToldFactIs DEF FactsTold
  <2>3. f.about[2][1] = "transition"
    BY <2>1, <2>2 DEF MembersOf, PlaceMembers, DocumentationMembers, ArcMembers
  <2>4. f.about[2][2] \in Elements(tb.transitions)
    BY <2>3, ToSetIsElements DEF Consistent, TargetsKnown
  <2>5. f.about[2] = <<"transition", f.about[2][2]>>
    BY <2>2, <2>3
  <2>6. PICK i \in DOMAIN net.transitions : net.transitions[i].name = f.about[2][2]
    BY <1>3, <2>4 DEF NamesIn
  <2>7. net.transitions[i].attributes = Carried(tb, {f.about[2]})
    <3>1. net.transitions[i] = ResolvedTransition(tb, OrderedTransitions(tb)[i])
      BY <1>1, <2>6
    <3>2. \A t : /\ ResolvedTransition(tb, t).name = t
                 /\ ResolvedTransition(tb, t).attributes = Carried(tb, {<<"transition", t>>})
      BY DEF ResolvedTransition
    <3> DEFINE t == OrderedTransitions(tb)[i]
    <3>3. net.transitions[i].name = t
      BY <3>1, <3>2
    <3>4. net.transitions[i].attributes = Carried(tb, {<<"transition", t>>})
      BY <3>1, <3>2
    <3> HIDE DEF t
    <3>5. f.about[2] = <<"transition", t>>
      BY <2>5, <2>6, <3>3
    <3>6. QED
      BY <3>4, <3>5
  <2>8. <<f.about[1], f.about[3], f.given>> \in net.transitions[i].attributes
    BY <2>1, <2>7 DEF Carried, CarriedMembers, TransitionMembers
  <2>9. FilledTransition(net.transitions[i])
    BY <1>4, <2>6 DEF SchemaValid
  <2>10. QED
    BY <2>1, <2>8, <2>9 DEF FilledTransition, References
<1>9. \A f \in tb.facts : f.about[1] = "arc.produce-data" => f.given[1] = "object"
  <2>1. SUFFICES ASSUME NEW f \in tb.facts, f.about[1] = "arc.produce-data"
        PROVE  f.given[1] = "object"
    OBVIOUS
  <2>2. /\ f.about \in STRING \X (STRING \X STRING) \X STRING
        /\ f.about[1] \in MembersOf(f.about[2][1])
    BY ToldFactIs DEF FactsTold
  <2>3. f.about[2][1] = "arcHandle"
    BY <2>1, <2>2 DEF MembersOf, PlaceMembers, DocumentationMembers, TransitionMembers,
                      TimerMembers
  <2>4. PICK h \in tb.handles : h.name = f.about[2][2]
    BY <2>3 DEF Consistent, TargetsKnown, HandleNames
  <2>5. f.about[2] = <<"arcHandle", h.name>>
    BY <2>2, <2>3, <2>4
  <2> DEFINE runArcs == RunArcs(tb, h.name)
             c == {i \in DOMAIN runArcs : ~IsInput(runArcs[i])}
  <2>6. Len(Subsequence(runArcs, c)) = 1
    <3>1. ArcFactFits(tb, f) /\ f.about[2][2] = h.name
      BY <2>5, ArcFactsFit
    <3>2. Len(ProducesOf(tb, h.name)) = 1
      BY <2>1, <3>1 DEF ArcFactFits
    <3>3. QED
      BY <3>2 DEF ProducesOf
  <2>7. /\ runArcs \in Seq(Arcs) /\ c \in SUBSET DOMAIN runArcs
        /\ \A a \in Elements(runArcs) : a \in Elements(tb.arcs) /\ a.run = h.run
    BY RunArcsAre DEF Sound, NamesListed
  <2>8. \A i \in c : i \in DOMAIN runArcs /\ ~IsInput(runArcs[i])
    OBVIOUS
  <2> HIDE DEF runArcs, c
  <2>9. PICK i \in c : TRUE
    <3>1. /\ Len(Subsequence(runArcs, c)) = Cardinality(c)
          /\ \A n \in 1..Cardinality(c) : \E i \in c : Rank(c, i) = n
      BY <2>7, SubsequenceAt
    <3>2. 1 \in 1..Cardinality(c)
      BY <2>6, <3>1
    <3>3. QED
      BY <3>1, <3>2
  <2> DEFINE a == runArcs[i]
  <2>10. a \in Elements(tb.arcs) /\ a.run = h.run /\ ~IsInput(a)
    BY <2>7, <2>8, <2>9 DEF Elements
  <2> HIDE DEF a
  <2>11. f.given \in ArcValues(tb, "arc.produce-data", a)
    <3>1. f.given \in ValuesOf(tb, "arc.produce-data", <<"arcHandle", h.name>>)
      BY <2>1, <2>5 DEF ValuesOf
    <3>2. h \in {g \in tb.handles : g.run = a.run}
      BY <2>4, <2>10
    <3>3. QED
      BY <3>1, <3>2 DEF ArcValues
  <2>12. ResolvedArc(tb, a).data = ArcValues(tb, "arc.produce-data", a)
    BY <2>10 DEF ResolvedArc
  <2>13. FilledArc(ResolvedArc(tb, a))
    BY <1>5, <2>10
  <2>14. QED
    BY <2>11, <2>12, <2>13 DEF FilledArc
<1>10. QED
  BY <1>6, <1>7, <1>8, <1>9 DEF UnreadFault

(* An aggregate that is not refused with a diagnostic makes a net, unless  *)
(* it has one of four faults the compiler hands on unread, and then it     *)
(* makes none (parse_net's refusal, raised again by _validate_projection). *)
THEOREM UndiagnosedIsUnread == Spec => []OnlyTheUnreadIsUndiagnosed
<1>1. DocumentInv /\ (tables.refused \/ Filled(tables)) => OnlyTheUnreadIsUndiagnosed
  <2>1. SUFFICES ASSUME DocumentInv, tables.refused \/ Filled(tables),
                        NEW o \in Outcomes, KindOf(sources[1].header) = "net",
                        o.verdict # "refused"
        PROVE  o.verdict = "undiagnosed" <=> UnreadFault(tables)
    BY DEF OnlyTheUnreadIsUndiagnosed
  <2>2. o = Outcome(tables) /\ Collected(sources, tables)
    BY <2>1 DEF DocumentInv, Outcomes
  <2>3. ~tables.refused
    BY <2>1, <2>2 DEF Outcome, NetOutcome, CompositionOutcome
  <2>4. Sound(sources, tables) /\ FactsTold(tables) /\ Filled(tables)
    BY <2>1, <2>2, <2>3 DEF Collected
  <2>5. o = NetOutcome(tables)
    BY <2>1, <2>2, <2>4 DEF Outcome, Sound, HeaderAgrees
  <2>6. Consistent(tables)
    BY <2>1, <2>5 DEF NetOutcome
  <2>7. StructureValid(Resolved(tables))
    BY <2>4, <2>6, ConsistentIsValid
  <2>8. SchemaValid(Resolved(tables)) <=> ~UnreadFault(tables)
    BY <2>4, <2>6, ReadIsSchemaValid, UnreadIsSchemaInvalid
  <2>9. o.verdict = "undiagnosed" <=> ~SchemaValid(Resolved(tables))
    BY <2>1, <2>3, <2>5, <2>6, <2>7 DEF NetOutcome
  <2>10. QED
    BY <2>8, <2>9
<1>2. QED
  BY <1>1, DocumentIsSound, TablesAreFilled, PTL

-----------------------------------------------------------------------------
(* The account.                                                             *)

(* What collecting the statements of source i one after the other yields.  *)
IsLowering(f, first, i, statements, m) ==
  f = [j \in 0..m |-> IF j = 0 THEN first
                      ELSE Collect(f[j - 1], RunIdentity(i, j), statements[j])]

(* They can be, however many there are.                                    *)
LEMMA LoweringExists ==
  ASSUME NEW first, NEW i, NEW statements, NEW n \in Nat
  PROVE  \E f : IsLowering(f, first, i, statements, n)
<1> DEFINE Is(f, m) == IsLowering(f, first, i, statements, m)
           bad == {m \in 0..n : \A f : ~Is(f, m)}
<1>1. \A m : m \in bad <=> m \in 0..n /\ \A f : ~Is(f, m)
  OBVIOUS
<1>2. Is([j \in 0..0 |-> first], 0)
  BY DEF IsLowering
<1>3. ASSUME NEW m \in Nat, NEW f, Is(f, m) PROVE \E g : Is(g, m + 1)
  <2> DEFINE next == Collect(f[m], RunIdentity(i, m + 1), statements[m + 1])
             g == [j \in 0..(m + 1) |-> IF j <= m THEN f[j] ELSE next]
  <2>1. \A j \in 0..m : f[j] = IF j = 0 THEN first
                               ELSE Collect(f[j - 1], RunIdentity(i, j), statements[j])
    BY <1>3 DEF IsLowering
  <2> HIDE DEF next
  <2>2. \A j \in 0..m : g[j] = f[j]
    OBVIOUS
  <2>3. g[m + 1] = next
    OBVIOUS
  <2>4. \A j \in 0..(m + 1) :
          g[j] = IF j = 0 THEN first
                 ELSE Collect(g[j - 1], RunIdentity(i, j), statements[j])
    <3>1. SUFFICES ASSUME NEW j \in 0..(m + 1)
          PROVE  g[j] = IF j = 0 THEN first
                        ELSE Collect(g[j - 1], RunIdentity(i, j), statements[j])
      OBVIOUS
    <3>2. CASE j \in 0..m
      <4>1. j = 0 \/ j - 1 \in 0..m
        BY <3>2
      <4> HIDE DEF g
      <4>2. QED
        BY <2>1, <2>2, <3>2, <4>1
    <3>3. CASE j = m + 1
      <4>1. j # 0 /\ j - 1 = m /\ m \in 0..m
        BY <3>3
      <4> HIDE DEF g
      <4>2. QED
        BY <2>2, <2>3, <3>3, <4>1 DEF next
    <3>4. QED
      BY <3>2, <3>3
  <2>5. g = [j \in 0..(m + 1) |-> g[j]]
    OBVIOUS
  <2> HIDE DEF g
  <2>6. Is(g, m + 1)
    <3>1. [j \in 0..(m + 1) |-> g[j]] =
            [j \in 0..(m + 1) |-> IF j = 0 THEN first
               ELSE Collect(g[j - 1], RunIdentity(i, j), statements[j])]
      BY <2>4
    <3>2. QED
      BY <2>5, <3>1 DEF IsLowering
  <2>7. QED
    BY <2>6
<1> HIDE DEF bad, Is
<1>4. bad = {}
  <2>1. SUFFICES ASSUME bad # {} PROVE FALSE
    OBVIOUS
  <2>2. bad \in SUBSET Nat
    BY <1>1
  <2>3. PICK m \in bad : \A k \in bad : m <= k
    BY <2>1, <2>2, LeastNatural
  <2>4. m # 0
    BY <1>1, <1>2, <2>3
  <2>5. m - 1 \in 0..n /\ m - 1 \in Nat /\ m - 1 \notin bad
    BY <1>1, <2>3, <2>4
  <2>6. PICK f : Is(f, m - 1)
    BY <1>1, <2>5
  <2>7. m - 1 + 1 = m
    BY <2>2, <2>3
  <2>8. QED
    BY <1>1, <1>3, <2>3, <2>5, <2>6, <2>7
<1>5. QED
  BY <1>1, <1>4 DEF Is

(* The tables of a source on its own: its header, then its statements.      *)
LEMMA SourceIsLowered ==
  ASSUME NEW source, Len(source.statements) \in Nat
  PROVE  \E f : /\ f[0] = CollectHeader(EmptyTables, source.header, source.header)
                /\ \A j \in 1..Len(source.statements) :
                     f[j] = Collect(f[j - 1], RunIdentity(1, j), source.statements[j])
                /\ TablesOf(<<source>>) = f[Len(source.statements)]
<1> DEFINE srcs == <<source>>
           n == Len(source.statements)
           first == CollectHeader(EmptyTables, source.header, source.header)
           Is(f) == f = [j \in 0..n |-> IF j = 0 THEN first
                           ELSE Collect(f[j - 1], RunIdentity(1, j), source.statements[j])]
           f == CHOOSE g : Is(g)
           All(c) == c = [i \in 0..Len(srcs) |-> IF i = 0 THEN EmptyTables
                                                ELSE Lower(srcs, c[i - 1], i)]
           all == CHOOSE c : All(c)
<1>1. srcs[1] = source /\ Len(srcs) = 1
  OBVIOUS
<1>2. Lower(srcs, EmptyTables, 1) = f[n]
  BY <1>1 DEF Lower
<1>3. Is(f)
  <2>1. \E g : Is(g)
    <3> DEFINE statements == source.statements
    <3>1. n \in Nat
      OBVIOUS
    <3> HIDE DEF n, first, statements
    <3>2. PICK g : IsLowering(g, first, 1, statements, n)
      BY <3>1, LoweringExists
    <3>3. Is(g)
      BY <3>2 DEF IsLowering, statements
    <3>4. QED
      BY <3>3
  <2> HIDE DEF Is
  <2>2. QED
    BY <2>1
<1>4. TablesOf(srcs) = all[Len(srcs)]
  BY DEF TablesOf
<1>5. All(all)
  <2> DEFINE c == [i \in 0..1 |-> IF i = 0 THEN EmptyTables
                                 ELSE Lower(srcs, EmptyTables, 1)]
  <2>1. c[0] = EmptyTables
    OBVIOUS
  <2>2. c = [i \in 0..1 |-> IF i = 0 THEN EmptyTables ELSE Lower(srcs, c[i - 1], i)]
    <3>1. \A i \in 0..1 : c[i] = IF i = 0 THEN EmptyTables ELSE Lower(srcs, c[i - 1], i)
      <4>1. \A i \in 0..1 : i = 0 \/ (i = 1 /\ i - 1 = 0)
        OBVIOUS
      <4>2. c[1] = Lower(srcs, EmptyTables, 1)
        OBVIOUS
      <4> HIDE DEF c, srcs
      <4>3. QED
        BY <2>1, <4>1, <4>2
    <3>2. c = [i \in 0..1 |-> c[i]]
      OBVIOUS
    <3> HIDE DEF c, srcs
    <3>3. [i \in 0..1 |-> c[i]] =
            [i \in 0..1 |-> IF i = 0 THEN EmptyTables ELSE Lower(srcs, c[i - 1], i)]
      BY <3>1
    <3>4. QED
      BY <3>2, <3>3
  <2> HIDE DEF c, srcs
  <2>3. All(c)
    BY <1>1, <2>2
  <2> HIDE DEF All
  <2>4. QED
    BY <2>3
<1>6. all[1] = Lower(srcs, EmptyTables, 1)
  <2> HIDE DEF all, srcs
  <2>1. /\ 0 \in 0..Len(srcs) /\ 1 \in 0..Len(srcs) /\ 1 - 1 = 0 /\ 1 # 0
    BY <1>1
  <2>2. \A i \in 0..Len(srcs) : all[i] = IF i = 0 THEN EmptyTables
                                         ELSE Lower(srcs, all[i - 1], i)
    BY <1>5
  <2>3. QED
    BY <2>1, <2>2
<1> HIDE DEF f, all, srcs
<1>7. /\ f[0] = first
      /\ \A j \in 1..n :
           f[j] = Collect(f[j - 1], RunIdentity(1, j), source.statements[j])
  <2>1. \A j \in 0..n : f[j] = IF j = 0 THEN first
                        ELSE Collect(f[j - 1], RunIdentity(1, j), source.statements[j])
    BY <1>3
  <2>2. 0 \in 0..n /\ \A j \in 1..n : j \in 0..n /\ j # 0
    OBVIOUS
  <2> HIDE DEF n, first
  <2>3. QED
    BY <2>1, <2>2
<1>8. QED
  BY <1>1, <1>2, <1>4, <1>6, <1>7 DEF srcs

(* What a source on its own is compiled from tells what it says.           *)
LEMMA SourceIsCompiled ==
  ASSUME NEW source \in SourceRecords
  PROVE  Collected(<<source>>, TablesOf(<<source>>))
<1> DEFINE statements == source.statements
           n == Len(statements)
           begun(k) == [header |-> source.header, statements |-> SubSeq(statements, 1, k)]
           written(k) == <<begun(k)>>
<1>1. source.header \in Headers /\ statements \in Seq(Statements)
  BY DEF SourceRecords
<1>2. n \in Nat
  BY <1>1
<1>3. PICK f : /\ f[0] = CollectHeader(EmptyTables, source.header, source.header)
               /\ \A j \in 1..n : f[j] = Collect(f[j - 1], RunIdentity(1, j), statements[j])
               /\ TablesOf(<<source>>) = f[n]
  BY <1>2, SourceIsLowered
<1>4. \A k \in 0..n : SubSeq(statements, 1, k) \in Seq(Statements)
                      /\ Len(SubSeq(statements, 1, k)) = k
  BY <1>1
<1>5. \A k \in 0..n : written(k) \in Seq(SourceRecords)
  <2>1. SUFFICES ASSUME NEW k \in 0..n PROVE written(k) \in Seq(SourceRecords)
    OBVIOUS
  <2>2. begun(k) \in SourceRecords
    BY <1>1, <1>4 DEF SourceRecords
  <2> HIDE DEF begun
  <2>3. QED
    BY <2>2
<1>6. Collected(written(0), f[0])
  <2>1. SubSeq(statements, 1, 0) = <<>>
    BY <1>1
  <2>2. /\ written(0)[1].header = source.header
        /\ written(0)[1].statements = <<>> /\ DOMAIN written(0) = {1}
    BY <2>1
  <2> HIDE DEF written
  <2>3. WrittenSoFar(written(0)) = {}
    BY <2>2 DEF WrittenSoFar, Elements
  <2>4. QED
    BY <1>3, <2>2, <2>3, NothingIsCollected
<1>7. ASSUME NEW k \in 0..n, k # n, Collected(written(k), f[k])
      PROVE  Collected(written(k + 1), f[k + 1])
  <2> DEFINE s == statements[k + 1]
             next == [written(k) EXCEPT ![1].statements = Append(@, s)]
  <2>1. k + 1 \in 1..n /\ k + 1 - 1 = k /\ s \in Statements
    BY <1>1, <1>2, <1>7
  <2>2. SubSeq(statements, 1, k + 1) = Append(SubSeq(statements, 1, k), s)
    BY <1>1, <2>1
  <2>3. /\ Len(written(k)) = 1 /\ written(k) # <<>>
        /\ written(k)[1].statements = SubSeq(statements, 1, k)
        /\ written(k)[1].header = source.header
        /\ DOMAIN written(k) = {1}
    OBVIOUS
  <2>4. /\ next \in Seq(SourceRecords)
        /\ Extends(written(k), next, RunIdentity(1, k + 1), s)
    <3>1. written(k) \in Seq(SourceRecords)
      BY <1>5
    <3> HIDE DEF written
    <3>2. Len(written(k)[1].statements) = k
      BY <1>4, <2>3
    <3>3. QED
      BY <2>1, <2>3, <3>1, <3>2, StatementIsAdded
  <2>5. next = written(k + 1)
    <3>1. DOMAIN next = {1} /\ next[1].header = source.header
          /\ next[1].statements = Append(SubSeq(statements, 1, k), s)
      <4>1. next[1] = [written(k)[1] EXCEPT !.statements = Append(@, s)]
        BY <2>3
      <4>2. DOMAIN written(k)[1] = {"header", "statements"}
        OBVIOUS
      <4>3. DOMAIN next = {1}
        BY <2>3
      <4> HIDE DEF next, written, begun
      <4>4. QED
        BY <2>3, <4>1, <4>2, <4>3
    <3> HIDE DEF next
    <3>2. next[1] \in SourceRecords
      BY <2>4, <3>1
    <3>3. next[1] = [header |-> next[1].header, statements |-> next[1].statements]
      BY <3>2 DEF SourceRecords
    <3>4. next = <<next[1]>>
      <4>1. Len(next) = 1
        BY <2>4, <3>1
      <4>2. QED
        BY <2>4, <4>1
    <3>5. QED
      BY <2>2, <3>1, <3>3, <3>4
  <2>6. IsStatement(s)
    BY <2>1, ScriptsAssumption
  <2>7. f[k + 1] = Collect(f[k], RunIdentity(1, k + 1), s)
    BY <1>3, <2>1
  <2> HIDE DEF s, next, written
  <2>8. QED
    BY <1>7, <2>4, <2>5, <2>6, <2>7, CollectingKeeps
<1>8. written(n) = <<source>>
  <2>1. SubSeq(statements, 1, n) = statements
    BY <1>1
  <2>2. source = [header |-> source.header, statements |-> source.statements]
    BY DEF SourceRecords
  <2>3. QED
    BY <2>1, <2>2
<1> DEFINE Good(k) == Collected(written(k), f[k])
           bad == {k \in 0..n : ~Good(k)}
<1>9. bad = {}
  <2> HIDE DEF Good
  <2>1. SUFFICES ASSUME bad # {} PROVE FALSE
    OBVIOUS
  <2>2. bad \in SUBSET Nat
    OBVIOUS
  <2>3. \A k : k \in bad <=> k \in 0..n /\ ~Good(k)
    OBVIOUS
  <2> HIDE DEF bad
  <2>4. PICK k \in bad : \A l \in bad : k <= l
    BY <2>1, <2>2, LeastNatural
  <2>5. k # 0
    BY <1>6, <2>3, <2>4 DEF Good
  <2>6. /\ k - 1 \in 0..n /\ k - 1 # n /\ k - 1 \notin bad /\ k - 1 + 1 = k
    BY <1>2, <2>2, <2>3, <2>4, <2>5
  <2>7. Good(k - 1)
    BY <2>3, <2>6
  <2>8. Good(k)
    BY <1>7, <2>6, <2>7 DEF Good
  <2>9. QED
    BY <2>3, <2>4, <2>8
<1>10. Good(n)
  <2>1. n \in 0..n
    BY <1>2
  <2> HIDE DEF Good
  <2>2. QED
    BY <1>9, <2>1
<1> HIDE DEF written
<1>11. QED
  BY <1>3, <1>8, <1>10

(* Attributes as an account tells them: a member, a key and a value.       *)
Attributed(x, members) ==
  \A a \in x.attributes : a = <<a[1], a[2], a[3]>> /\ a[1] \in members

PlaceTellable(p) ==
  /\ p = [name |-> p.name, accepts |-> p.accepts, port |-> p.port,
          capacity |-> p.capacity, attributes |-> p.attributes]
  /\ Attributed(p, CarriedMembers)

TransitionTellable(t) ==
  /\ t = [name |-> t.name, timer |-> t.timer, attributes |-> t.attributes]
  /\ Attributed(t, CarriedMembers)
  /\ \A timer \in t.timer :
       timer = [clock |-> timer.clock, cel |-> timer.cel,
                maturity |-> timer.maturity, bind |-> timer.bind]

(* What an arc's clause leaves out is the same for every arc of its sort.  *)
InputTellable(net, a) ==
  /\ a.from = <<"place", a.from[2]>> /\ a.from[2] \in NamesIn(net.places)
  /\ a.to = <<"transition", a.to[2]>> /\ a.to[2] \in NamesIn(net.transitions)
  /\ a.destination = a.from[2] /\ a.data = {} /\ a.cel = {}
  /\ IF a.mode = "inhibit" THEN a.weight = 1 ELSE a.correlate = {}

OutputTellable(net, a) ==
  /\ a.to = <<"place", a.to[2]>> /\ a.to[2] \in NamesIn(net.places)
  /\ a.from = <<"transition", a.from[2]>> /\ a.from[2] \in NamesIn(net.transitions)
  /\ a.weight = 1 /\ a.filter = {} /\ a.correlate = {}
  /\ a.data = {} \/ a.cel = {}

ArcTellable(net, a) ==
  /\ a = [from |-> a.from, to |-> a.to, mode |-> a.mode, color |-> a.color,
          destination |-> a.destination, weight |-> a.weight, filter |-> a.filter,
          correlate |-> a.correlate, data |-> a.data, cel |-> a.cel,
          attributes |-> a.attributes]
  /\ Attributed(a, DocumentationMembers)
  /\ IF IsInput(a) THEN InputTellable(net, a) ELSE OutputTellable(net, a)

(* A net whose account says all there is to it.                            *)
Tellable(net) ==
  /\ net.places \in Seq(Elements(net.places)) /\ NamesUnique(net.places)
  /\ net.transitions \in Seq(Elements(net.transitions))
  /\ net.arcs \in Seq(Elements(net.arcs))
  /\ \A p \in Elements(net.places) : PlaceTellable(p)
  /\ \A t \in Elements(net.transitions) : TransitionTellable(t)
  /\ \A a \in Elements(net.arcs) : ArcTellable(net, a)
  /\ net.marking = [p \in DOMAIN net.marking |-> net.marking[p]]
  /\ DOMAIN net.marking \subseteq NamesIn(net.places)
  /\ \A a \in net.annotations : a = <<"documentation.annotation", a[2], a[3]>>

(* What is told of an object's attributes, member by member, is all there  *)
(* is to know about them.                                                  *)
LEMMA AttributesAreTold ==
  ASSUME NEW members, NEW A, NEW x, Attributed(x, A), NEW B, NEW y, Attributed(y, B),
         \A m \in members : Told(x, m) = Told(y, m)
  PROVE  {a \in x.attributes : a[1] \in members} = {a \in y.attributes : a[1] \in members}
<1>1. ASSUME NEW C, NEW D, NEW v, Attributed(v, C), NEW w, Attributed(w, D),
             \A m \in members : Told(v, m) = Told(w, m),
             NEW a \in v.attributes, a[1] \in members
      PROVE  a \in w.attributes
  <2>1. <<a[2], a[3]>> \in Told(v, a[1])
    BY <1>1 DEF Told
  <2>2. <<a[2], a[3]>> \in Told(w, a[1])
    BY <1>1, <2>1
  <2>3. PICK b \in w.attributes : b[1] = a[1] /\ <<b[2], b[3]>> = <<a[2], a[3]>>
    BY <2>2 DEF Told
  <2>4. a = <<a[1], a[2], a[3]>> /\ b = <<b[1], b[2], b[3]>>
    BY <1>1 DEF Attributed
  <2>5. b[2] = a[2] /\ b[3] = a[3]
    BY <2>3
  <2>6. b = a
    BY <2>3, <2>4, <2>5
  <2>7. QED
    BY <2>6
<1>2. QED
  BY <1>1

(* All attributes, where all members are told.                             *)
LEMMA AllAttributesAreTold ==
  ASSUME NEW members, NEW x, Attributed(x, members), NEW y, Attributed(y, members),
         \A m \in members : Told(x, m) = Told(y, m)
  PROVE  x.attributes = y.attributes
<1>1. {a \in x.attributes : a[1] \in members} = {a \in y.attributes : a[1] \in members}
  BY AttributesAreTold
<1>2. QED
  BY <1>1 DEF Attributed

(* The elements of a part of a list.                                       *)
LEMMA ChosenAre ==
  ASSUME NEW s, s \in Seq(Elements(s)), NEW c \in SUBSET DOMAIN s
  PROVE  /\ Subsequence(s, c) \in Seq(Elements(s))
         /\ Elements(Subsequence(s, c)) = {s[i] : i \in c}
<1> DEFINE t == Subsequence(s, c)
<1>1. /\ t \in Seq(Elements(s)) /\ Len(t) = Cardinality(c) /\ Cardinality(c) \in Nat
      /\ \A i \in c : Rank(c, i) \in 1..Cardinality(c) /\ t[Rank(c, i)] = s[i]
      /\ \A n \in 1..Cardinality(c) : \E i \in c : Rank(c, i) = n /\ t[n] = s[i]
  BY SubsequenceAt
<1> HIDE DEF t
<1>2. DOMAIN t = 1..Cardinality(c)
  BY <1>1
<1>3. Elements(t) = {s[i] : i \in c}
  BY <1>1, <1>2 DEF Elements
<1>4. QED
  BY <1>1, <1>3 DEF t

(* The place of a name is the one that has it.                             *)
LEMMA PlaceHasItsName ==
  ASSUME NEW net, NamesUnique(net.places), NEW p \in Elements(net.places)
  PROVE  PlaceOf(net, p.name) = p
<1>1. \A q \in Elements(net.places) : q.name = p.name => q = p
  BY DEF NamesUnique, Elements
<1>2. {x \in Seqs!ToSet(net.places) : x.name = p.name} = {p}
  BY <1>1, ToSetIsElements
<1>3. QED
  BY <1>2 DEF PlaceOf, Elem

(* A phrase tells everything about its place.                              *)
LEMMA PhraseTells ==
  ASSUME NEW p, PlaceTellable(p), NEW q, PlaceTellable(q), PlacePhrase(p) = PlacePhrase(q)
  PROVE  p.name = q.name /\ p.accepts = q.accepts /\ p.port = q.port /\ p.capacity = q.capacity
         /\ {a \in p.attributes : a[1] \in DocumentationMembers} =
              {a \in q.attributes : a[1] \in DocumentationMembers}
<1>1. /\ PlacePhrase(p).place = PlacePhrase(q).place
      /\ PlacePhrase(p).accepts = PlacePhrase(q).accepts
      /\ PlacePhrase(p).port = PlacePhrase(q).port
      /\ PlacePhrase(p).capacity = PlacePhrase(q).capacity
      /\ PlacePhrase(p).description = PlacePhrase(q).description
      /\ PlacePhrase(p).annotations = PlacePhrase(q).annotations
  OBVIOUS
<1>2. /\ p.name = q.name /\ p.accepts = q.accepts /\ p.port = q.port /\ p.capacity = q.capacity
      /\ Told(p, "documentation.description") = Told(q, "documentation.description")
      /\ Told(p, "documentation.annotation") = Told(q, "documentation.annotation")
  BY <1>1 DEF PlacePhrase, CoreAnnotations
<1>3. \A m \in DocumentationMembers : Told(p, m) = Told(q, m)
  BY <1>2 DEF DocumentationMembers
<1>4. Attributed(p, CarriedMembers) /\ Attributed(q, CarriedMembers)
  BY DEF PlaceTellable
<1>5. QED
  BY <1>2, <1>3, <1>4, AttributesAreTold

(* The arcs into, and out of, a transition.                                *)
LEMMA ArcsOfTransition ==
  ASSUME NEW net, Tellable(net), NEW name
  PROVE  LET inputs == InputsOfTransition(net, name)
             outputs == OutputsOfTransition(net, name)
         IN  /\ inputs \in Seq(Elements(net.arcs)) /\ outputs \in Seq(Elements(net.arcs))
             /\ \A a : a \in Elements(inputs) <=>
                         a \in Elements(net.arcs) /\ a.to = <<"transition", name>>
             /\ \A a : a \in Elements(outputs) <=>
                         a \in Elements(net.arcs) /\ a.from = <<"transition", name>>
<1> DEFINE s == net.arcs
           c == {i \in DOMAIN s : s[i].to = <<"transition", name>>}
           d == {i \in DOMAIN s : s[i].from = <<"transition", name>>}
<1>1. s \in Seq(Elements(s))
  BY DEF Tellable
<1>2. InputsOfTransition(net, name) = Subsequence(s, c)
  BY DEF InputsOfTransition
<1>3. OutputsOfTransition(net, name) = Subsequence(s, d)
  BY DEF OutputsOfTransition
<1> HIDE DEF s
<1>4. c \in SUBSET DOMAIN s /\ d \in SUBSET DOMAIN s
  OBVIOUS
<1>5. /\ \A a : a \in {s[i] : i \in c} <=> a \in Elements(s) /\ a.to = <<"transition", name>>
      /\ \A a : a \in {s[i] : i \in d} <=> a \in Elements(s) /\ a.from = <<"transition", name>>
  BY DEF Elements
<1> HIDE DEF c, d
<1>6. /\ Subsequence(s, c) \in Seq(Elements(s))
      /\ Elements(Subsequence(s, c)) = {s[i] : i \in c}
      /\ Subsequence(s, d) \in Seq(Elements(s))
      /\ Elements(Subsequence(s, d)) = {s[i] : i \in d}
  BY <1>1, <1>4, ChosenAre
<1>7. QED
  BY <1>2, <1>3, <1>5, <1>6 DEF s

(* The phrases an account has for places.                                  *)
PhrasesIn(account) ==
  {account.standalone[k] : k \in DOMAIN account.standalone}
  \cup UNION {{account.flow[i].inputs[k].source : k \in DOMAIN account.flow[i].inputs}
              \cup {account.flow[i].outputs[k].target : k \in DOMAIN account.flow[i].outputs} :
                i \in DOMAIN account.flow}

(* A paragraph has a clause for each arc.                                  *)
HasClauses(net, name, told) ==
  LET inputs == InputsOfTransition(net, name)
      outputs == OutputsOfTransition(net, name)
  IN  /\ DOMAIN told.inputs = DOMAIN inputs
      /\ \A k \in DOMAIN inputs : told.inputs[k] = InputClause(net, inputs[k])
      /\ DOMAIN told.outputs = DOMAIN outputs
      /\ \A k \in DOMAIN outputs : told.outputs[k] = OutputClause(net, outputs[k])

(* What the flow of an account is.                                         *)
LEMMA FlowIs ==
  ASSUME NEW net
  PROVE  /\ DOMAIN Explained(net).flow = DOMAIN net.transitions
         /\ \A i \in DOMAIN net.transitions :
              /\ Explained(net).flow[i] = TransitionParagraph(net, net.transitions[i])
              /\ HasClauses(net, net.transitions[i].name, Explained(net).flow[i])
<1>1. Explained(net).flow = [i \in DOMAIN net.transitions |->
                               TransitionParagraph(net, net.transitions[i])]
  BY DEF Explained
<1>2. ASSUME NEW t PROVE HasClauses(net, t.name, TransitionParagraph(net, t))
  <2>1. /\ TransitionParagraph(net, t).inputs =
              [k \in DOMAIN InputsOfTransition(net, t.name) |->
                 InputClause(net, InputsOfTransition(net, t.name)[k])]
        /\ TransitionParagraph(net, t).outputs =
              [k \in DOMAIN OutputsOfTransition(net, t.name) |->
                 OutputClause(net, OutputsOfTransition(net, t.name)[k])]
    BY DEF TransitionParagraph
  <2>2. QED
    BY <2>1 DEF HasClauses
<1>3. QED
  BY <1>1, <1>2

(* Every place is told of, and nothing else is told of as a place.         *)
LEMMA PlacesAreTold ==
  ASSUME NEW net, Tellable(net)
  PROVE  PhrasesIn(Explained(net)) = {PlacePhrase(p) : p \in Elements(net.places)}
<1> DEFINE account == Explained(net)
           ends == UNION {{arc.from, arc.to} : arc \in Seqs!ToSet(net.arcs)}
           c == {i \in DOMAIN net.places : <<"place", net.places[i].name>> \notin ends}
           alone == Subsequence(net.places, c)
<1>1. account.standalone = [k \in DOMAIN alone |-> PlacePhrase(alone[k])]
  BY DEF Explained, StandalonePlaces
<1>2. /\ NamesUnique(net.places) /\ net.places \in Seq(Elements(net.places))
      /\ \A a \in Elements(net.arcs) : ArcTellable(net, a)
  BY DEF Tellable
<1>3. Elements(alone) = {net.places[i] : i \in c}
  <2>1. c \in SUBSET DOMAIN net.places
    OBVIOUS
  <2> HIDE DEF c
  <2>2. QED
    BY <1>2, <2>1, ChosenAre
<1>4. \A x : x \in ends <=> \E arc \in Elements(net.arcs) : x \in {arc.from, arc.to}
  BY ToSetIsElements
<1>5. \A p : p \in Elements(alone) <=>
               p \in Elements(net.places) /\ <<"place", p.name>> \notin ends
  <2> HIDE DEF ends, alone
  <2>1. QED
    BY <1>3 DEF Elements
<1> HIDE DEF account, ends, alone, c
<1>6. \A k \in DOMAIN account.standalone :
        \E p \in Elements(net.places) : account.standalone[k] = PlacePhrase(p)
  BY <1>1, <1>5 DEF Elements
<1>7. \A p \in Elements(net.places) :
        <<"place", p.name>> \notin ends => PlacePhrase(p) \in PhrasesIn(account)
  <2>1. SUFFICES ASSUME NEW p \in Elements(net.places), <<"place", p.name>> \notin ends
        PROVE  PlacePhrase(p) \in PhrasesIn(account)
    OBVIOUS
  <2>2. PICK k \in DOMAIN alone : alone[k] = p
    BY <1>5, <2>1 DEF Elements
  <2>3. k \in DOMAIN account.standalone /\ account.standalone[k] = PlacePhrase(p)
    BY <1>1, <2>2
  <2>4. QED
    BY <2>3 DEF PhrasesIn
<1>8. ASSUME NEW i \in DOMAIN account.flow,
             NEW k \in DOMAIN account.flow[i].inputs
      PROVE  \E p \in Elements(net.places) : account.flow[i].inputs[k].source = PlacePhrase(p)
  <2> DEFINE inputs == InputsOfTransition(net, net.transitions[i].name)
  <2>1. k \in DOMAIN inputs /\ account.flow[i].inputs[k] = InputClause(net, inputs[k])
    <3>1. i \in DOMAIN net.transitions
      BY FlowIs DEF account
    <3>2. /\ DOMAIN account.flow[i].inputs = DOMAIN inputs
          /\ \A l \in DOMAIN inputs : account.flow[i].inputs[l] = InputClause(net, inputs[l])
      BY <3>1, FlowIs DEF account, HasClauses
    <3> HIDE DEF inputs
    <3>3. QED
      BY <3>2
  <2>2. inputs[k] \in Elements(net.arcs) /\ inputs[k].to = <<"transition", net.transitions[i].name>>
    <3>1. \A a : a \in Elements(inputs) <=>
            a \in Elements(net.arcs) /\ a.to = <<"transition", net.transitions[i].name>>
      BY ArcsOfTransition
    <3> HIDE DEF inputs
    <3>2. inputs[k] \in Elements(inputs)
      BY <2>1 DEF Elements
    <3>3. QED
      BY <3>1, <3>2
  <2> DEFINE a == inputs[k]
  <2>3. account.flow[i].inputs[k].source = PlacePhrase(PlaceOf(net, a.from[2]))
    BY <2>1 DEF InputClause
  <2> HIDE DEF inputs
  <2>4. a.from[2] \in NamesIn(net.places)
    <3>1. ArcTellable(net, a)
      BY <1>2, <2>2
    <3>2. CASE IsInput(a)
      BY <3>1, <3>2 DEF ArcTellable, InputTellable
    <3>3. CASE ~IsInput(a)
      <4>1. a.to = <<"place", a.to[2]>>
        BY <3>1, <3>3 DEF ArcTellable, OutputTellable
      <4>2. QED
        BY <2>2, <4>1
    <3>4. QED
      BY <3>2, <3>3
  <2>5. PICK p \in Elements(net.places) : p.name = a.from[2]
    BY <2>4 DEF NamesIn, Elements
  <2>6. QED
    BY <1>2, <2>3, <2>5, PlaceHasItsName
<1>9. ASSUME NEW i \in DOMAIN account.flow,
             NEW k \in DOMAIN account.flow[i].outputs
      PROVE  \E p \in Elements(net.places) : account.flow[i].outputs[k].target = PlacePhrase(p)
  <2> DEFINE outputs == OutputsOfTransition(net, net.transitions[i].name)
  <2>1. k \in DOMAIN outputs /\ account.flow[i].outputs[k] = OutputClause(net, outputs[k])
    <3>1. i \in DOMAIN net.transitions
      BY FlowIs DEF account
    <3>2. /\ DOMAIN account.flow[i].outputs = DOMAIN outputs
          /\ \A l \in DOMAIN outputs : account.flow[i].outputs[l] = OutputClause(net, outputs[l])
      BY <3>1, FlowIs DEF account, HasClauses
    <3> HIDE DEF outputs
    <3>3. QED
      BY <3>2
  <2>2. outputs[k] \in Elements(net.arcs) /\ outputs[k].from = <<"transition", net.transitions[i].name>>
    <3>1. \A a : a \in Elements(outputs) <=>
            a \in Elements(net.arcs) /\ a.from = <<"transition", net.transitions[i].name>>
      BY ArcsOfTransition
    <3> HIDE DEF outputs
    <3>2. outputs[k] \in Elements(outputs)
      BY <2>1 DEF Elements
    <3>3. QED
      BY <3>1, <3>2
  <2> DEFINE a == outputs[k]
  <2>3. account.flow[i].outputs[k].target = PlacePhrase(PlaceOf(net, a.to[2]))
    BY <2>1 DEF OutputClause
  <2> HIDE DEF outputs
  <2>4. a.to[2] \in NamesIn(net.places)
    <3>1. ArcTellable(net, a)
      BY <1>2, <2>2
    <3>2. CASE ~IsInput(a)
      BY <3>1, <3>2 DEF ArcTellable, OutputTellable
    <3>3. CASE IsInput(a)
      <4>1. a.from = <<"place", a.from[2]>>
        BY <3>1, <3>3 DEF ArcTellable, InputTellable
      <4>2. QED
        BY <2>2, <4>1
    <3>4. QED
      BY <3>2, <3>3
  <2>5. PICK p \in Elements(net.places) : p.name = a.to[2]
    BY <2>4 DEF NamesIn, Elements
  <2>6. QED
    BY <1>2, <2>3, <2>5, PlaceHasItsName
<1>10. \A p \in Elements(net.places) :
         <<"place", p.name>> \in ends => PlacePhrase(p) \in PhrasesIn(account)
  <2>1. SUFFICES ASSUME NEW p \in Elements(net.places), <<"place", p.name>> \in ends
        PROVE  PlacePhrase(p) \in PhrasesIn(account)
    OBVIOUS
  <2>2. PICK a \in Elements(net.arcs) : <<"place", p.name>> \in {a.from, a.to}
    BY <1>4, <2>1
  <2>3. ArcTellable(net, a)
    BY <1>2
  <2>4. CASE IsInput(a)
    <3>1. /\ a.from = <<"place", a.from[2]>> /\ a.to = <<"transition", a.to[2]>>
          /\ a.to[2] \in NamesIn(net.transitions)
      BY <2>3, <2>4 DEF ArcTellable, InputTellable
    <3>2. a.from[2] = p.name
      BY <2>2, <3>1
    <3>3. PICK i \in DOMAIN net.transitions : net.transitions[i].name = a.to[2]
      BY <3>1 DEF NamesIn
    <3> DEFINE inputs == InputsOfTransition(net, net.transitions[i].name)
    <3>4. a \in Elements(inputs)
      BY <3>1, <3>3, ArcsOfTransition
    <3>5. PICK k \in DOMAIN inputs : inputs[k] = a
      BY <3>4 DEF Elements
    <3>6. /\ i \in DOMAIN account.flow /\ k \in DOMAIN account.flow[i].inputs
          /\ account.flow[i].inputs[k] = InputClause(net, a)
      <4>1. /\ i \in DOMAIN account.flow
            /\ DOMAIN account.flow[i].inputs = DOMAIN inputs
            /\ \A l \in DOMAIN inputs : account.flow[i].inputs[l] = InputClause(net, inputs[l])
        BY <3>3, FlowIs DEF account, HasClauses
      <4> HIDE DEF inputs
      <4>2. QED
        BY <3>5, <4>1
    <3> HIDE DEF inputs
    <3>7. account.flow[i].inputs[k].source = PlacePhrase(p)
      BY <1>2, <3>2, <3>6, PlaceHasItsName DEF InputClause
    <3>8. QED
      BY <3>6, <3>7 DEF PhrasesIn
  <2>5. CASE ~IsInput(a)
    <3>1. /\ a.to = <<"place", a.to[2]>> /\ a.from = <<"transition", a.from[2]>>
          /\ a.from[2] \in NamesIn(net.transitions)
      BY <2>3, <2>5 DEF ArcTellable, OutputTellable
    <3>2. a.to[2] = p.name
      BY <2>2, <3>1
    <3>3. PICK i \in DOMAIN net.transitions : net.transitions[i].name = a.from[2]
      BY <3>1 DEF NamesIn
    <3> DEFINE outputs == OutputsOfTransition(net, net.transitions[i].name)
    <3>4. a \in Elements(outputs)
      BY <3>1, <3>3, ArcsOfTransition
    <3>5. PICK k \in DOMAIN outputs : outputs[k] = a
      BY <3>4 DEF Elements
    <3>6. /\ i \in DOMAIN account.flow /\ k \in DOMAIN account.flow[i].outputs
          /\ account.flow[i].outputs[k] = OutputClause(net, a)
      <4>1. /\ i \in DOMAIN account.flow
            /\ DOMAIN account.flow[i].outputs = DOMAIN outputs
            /\ \A l \in DOMAIN outputs : account.flow[i].outputs[l] = OutputClause(net, outputs[l])
        BY <3>3, FlowIs DEF account, HasClauses
      <4> HIDE DEF outputs
      <4>2. QED
        BY <3>5, <4>1
    <3> HIDE DEF outputs
    <3>7. account.flow[i].outputs[k].target = PlacePhrase(p)
      BY <1>2, <3>2, <3>6, PlaceHasItsName DEF OutputClause
    <3>8. QED
      BY <3>6, <3>7 DEF PhrasesIn
  <2>6. QED
    BY <2>4, <2>5
<1>11. PhrasesIn(account) \subseteq {PlacePhrase(p) : p \in Elements(net.places)}
  BY <1>6, <1>8, <1>9 DEF PhrasesIn
<1>12. QED
  BY <1>7, <1>10, <1>11 DEF account

(* The place a clause names.                                               *)
LEMMA PhraseNamesPlace ==
  ASSUME NEW net, Tellable(net), NEW name \in NamesIn(net.places)
  PROVE  PlacePhrase(PlaceOf(net, name)).place = name
<1>1. PICK p \in Elements(net.places) : p.name = name
  BY DEF NamesIn, Elements
<1>2. PlaceOf(net, name) = p
  BY <1>1, PlaceHasItsName DEF Tellable
<1>3. QED
  BY <1>1, <1>2 DEF PlacePhrase

(* Arcs into a transition are input arcs, arcs out of one are not.         *)
LEMMA ArcsTouchAsTheyShould ==
  ASSUME NEW net, Tellable(net), NEW a \in Elements(net.arcs), NEW name
  PROVE  LET end == <<"transition", name>>
         IN  /\ IsInput(a) /\ end \in {a.from, a.to} <=> a.to = end
             /\ ~IsInput(a) /\ end \in {a.from, a.to} <=> a.from = end
<1>1. ArcTellable(net, a)
  BY DEF Tellable
<1>2. CASE IsInput(a)
  <2>1. a.from = <<"place", a.from[2]>> /\ a.to = <<"transition", a.to[2]>>
    BY <1>1, <1>2 DEF ArcTellable, InputTellable
  <2>2. a.from # <<"transition", name>>
    BY <2>1
  <2>3. QED
    BY <1>2, <2>2
<1>3. CASE ~IsInput(a)
  <2>1. a.to = <<"place", a.to[2]>> /\ a.from = <<"transition", a.from[2]>>
    BY <1>1, <1>3 DEF ArcTellable, OutputTellable
  <2>2. a.to # <<"transition", name>>
    BY <2>1
  <2>3. QED
    BY <1>3, <2>2
<1>4. QED
  BY <1>2, <1>3

(* An input clause tells everything about its arc.                         *)
LEMMA InputClauseTells ==
  ASSUME NEW n, Tellable(n), NEW a \in Elements(n.arcs),
         NEW m, Tellable(m), NEW b \in Elements(m.arcs), NEW name,
         a.to = <<"transition", name>>, b.to = <<"transition", name>>,
         InputClause(n, a) = InputClause(m, b)
  PROVE  a = b
<1>1. IsInput(a) /\ IsInput(b)
  BY ArcsTouchAsTheyShould
<1>2. ArcTellable(n, a) /\ ArcTellable(m, b)
  BY DEF Tellable
<1>3. InputTellable(n, a) /\ InputTellable(m, b)
  BY <1>1, <1>2 DEF ArcTellable
<1> DEFINE c == InputClause(n, a)
           d == InputClause(m, b)
<1>4. /\ c.source = d.source /\ c.mode = d.mode /\ c.type = d.type
      /\ c.predicate = d.predicate /\ c.weight = d.weight
      /\ c.correlate = d.correlate /\ c.metadata = d.metadata
  OBVIOUS
<1>5. /\ c.source = PlacePhrase(PlaceOf(n, a.from[2]))
      /\ c.mode = a.mode /\ c.type = a.color /\ c.predicate = a.filter
      /\ c.weight = IF a.mode = "inhibit" THEN {} ELSE {a.weight}
      /\ c.correlate = IF a.mode = "inhibit" THEN a.correlate ELSE {}
      /\ c.metadata = ArcMetadataClause(a)
  BY DEF InputClause
<1>6. /\ d.source = PlacePhrase(PlaceOf(m, b.from[2]))
      /\ d.mode = b.mode /\ d.type = b.color /\ d.predicate = b.filter
      /\ d.weight = IF b.mode = "inhibit" THEN {} ELSE {b.weight}
      /\ d.correlate = IF b.mode = "inhibit" THEN b.correlate ELSE {}
      /\ d.metadata = ArcMetadataClause(b)
  BY DEF InputClause
<1> HIDE DEF c, d
<1>7. a.from[2] = b.from[2]
  <2>1. a.from[2] \in NamesIn(n.places) /\ b.from[2] \in NamesIn(m.places)
    BY <1>3 DEF InputTellable
  <2>2. c.source.place = a.from[2] /\ d.source.place = b.from[2]
    BY <1>5, <1>6, <2>1, PhraseNamesPlace
  <2>3. QED
    BY <1>4, <2>2
<1>8. /\ a.mode = b.mode /\ a.color = b.color /\ a.filter = b.filter
  BY <1>4, <1>5, <1>6
<1>9. a.weight = b.weight /\ a.correlate = b.correlate
  BY <1>3, <1>4, <1>5, <1>6, <1>8 DEF InputTellable
<1>10. a.attributes = b.attributes
  <2>1. /\ Told(a, "documentation.description") = Told(b, "documentation.description")
        /\ Told(a, "documentation.annotation") = Told(b, "documentation.annotation")
    <3>1. \A x : /\ ArcMetadataClause(x).description = Told(x, "documentation.description")
                 /\ ArcMetadataClause(x).annotations = Told(x, "documentation.annotation")
      BY DEF ArcMetadataClause, CoreAnnotations
    <3>2. ArcMetadataClause(a) = ArcMetadataClause(b)
      BY <1>4, <1>5, <1>6
    <3>3. QED
      BY <3>1, <3>2
  <2>2. \A member \in DocumentationMembers : Told(a, member) = Told(b, member)
    BY <2>1 DEF DocumentationMembers
  <2>3. Attributed(a, DocumentationMembers) /\ Attributed(b, DocumentationMembers)
    BY <1>2 DEF ArcTellable
  <2>4. QED
    BY <2>2, <2>3, AllAttributesAreTold
<1>11. /\ a.from = b.from /\ a.to = b.to /\ a.destination = b.destination
       /\ a.data = b.data /\ a.cel = b.cel
  BY <1>3, <1>7 DEF InputTellable
<1>12. QED
  BY <1>2, <1>8, <1>9, <1>10, <1>11 DEF ArcTellable

(* So does an output clause.                                               *)
LEMMA OutputClauseTells ==
  ASSUME NEW n, Tellable(n), NEW a \in Elements(n.arcs),
         NEW m, Tellable(m), NEW b \in Elements(m.arcs), NEW name,
         a.from = <<"transition", name>>, b.from = <<"transition", name>>,
         OutputClause(n, a) = OutputClause(m, b)
  PROVE  a = b
<1>1. ~IsInput(a) /\ ~IsInput(b)
  BY ArcsTouchAsTheyShould
<1>2. ArcTellable(n, a) /\ ArcTellable(m, b)
  BY DEF Tellable
<1>3. OutputTellable(n, a) /\ OutputTellable(m, b)
  BY <1>1, <1>2 DEF ArcTellable
<1> DEFINE c == OutputClause(n, a)
           d == OutputClause(m, b)
<1>4. /\ c.target = d.target /\ c.type = d.type /\ c.destination = d.destination
      /\ c.data = d.data /\ c.computed = d.computed /\ c.metadata = d.metadata
  OBVIOUS
<1>5. /\ c.target = PlacePhrase(PlaceOf(n, a.to[2]))
      /\ c.type = a.color /\ c.destination = a.destination /\ c.data = a.data
      /\ c.computed = IF a.data = {} THEN a.cel ELSE {}
      /\ c.metadata = ArcMetadataClause(a)
  BY DEF OutputClause
<1>6. /\ d.target = PlacePhrase(PlaceOf(m, b.to[2]))
      /\ d.type = b.color /\ d.destination = b.destination /\ d.data = b.data
      /\ d.computed = IF b.data = {} THEN b.cel ELSE {}
      /\ d.metadata = ArcMetadataClause(b)
  BY DEF OutputClause
<1> HIDE DEF c, d
<1>7. a.to[2] = b.to[2]
  <2>1. a.to[2] \in NamesIn(n.places) /\ b.to[2] \in NamesIn(m.places)
    BY <1>3 DEF OutputTellable
  <2>2. c.target.place = a.to[2] /\ d.target.place = b.to[2]
    BY <1>5, <1>6, <2>1, PhraseNamesPlace
  <2>3. QED
    BY <1>4, <2>2
<1>8. a.color = b.color /\ a.destination = b.destination /\ a.data = b.data
  BY <1>4, <1>5, <1>6
<1>9. a.cel = b.cel
  BY <1>3, <1>4, <1>5, <1>6, <1>8 DEF OutputTellable
<1>10. a.attributes = b.attributes
  <2>1. /\ Told(a, "documentation.description") = Told(b, "documentation.description")
        /\ Told(a, "documentation.annotation") = Told(b, "documentation.annotation")
    <3>1. \A x : /\ ArcMetadataClause(x).description = Told(x, "documentation.description")
                 /\ ArcMetadataClause(x).annotations = Told(x, "documentation.annotation")
      BY DEF ArcMetadataClause, CoreAnnotations
    <3>2. ArcMetadataClause(a) = ArcMetadataClause(b)
      BY <1>4, <1>5, <1>6
    <3>3. QED
      BY <3>1, <3>2
  <2>2. \A member \in DocumentationMembers : Told(a, member) = Told(b, member)
    BY <2>1 DEF DocumentationMembers
  <2>3. Attributed(a, DocumentationMembers) /\ Attributed(b, DocumentationMembers)
    BY <1>2 DEF ArcTellable
  <2>4. QED
    BY <2>2, <2>3, AllAttributesAreTold
<1>11. /\ a.from = b.from /\ a.to = b.to /\ a.mode = b.mode
       /\ a.weight = b.weight /\ a.filter = b.filter /\ a.correlate = b.correlate
  BY <1>1, <1>3, <1>7 DEF OutputTellable, IsInput
<1>12. QED
  BY <1>2, <1>8, <1>9, <1>10, <1>11 DEF ArcTellable

(* A transition as an account is meant to tell it: everything but the      *)
(* maturity of its timer.                                                  *)
TransitionMeant(t) ==
  [t EXCEPT !.timer = {[timer EXCEPT !.maturity = {}] : timer \in @}]

(* A paragraph tells all of that, and the transition's name.               *)
LEMMA ParagraphTells ==
  ASSUME NEW n, NEW t, TransitionTellable(t), NEW m, NEW u, TransitionTellable(u),
         TransitionParagraph(n, t) = TransitionParagraph(m, u)
  PROVE  t.name = u.name /\ TransitionMeant(t) = TransitionMeant(u)
<1> DEFINE c == TransitionParagraph(n, t)
           d == TransitionParagraph(m, u)
           still(timer) == [timer EXCEPT !.maturity = {}]
<1>1. /\ c.heading = d.heading /\ c.handler = d.handler /\ c.guard = d.guard
      /\ c.priority = d.priority /\ c.timer = d.timer
      /\ c.description = d.description /\ c.annotations = d.annotations
  OBVIOUS
<1>2. \A net, x :
        LET told == TransitionParagraph(net, x)
        IN  /\ told.heading = x.name /\ told.timer = TimerSentence(x)
            /\ told.handler = Told(x, "transition.handler")
            /\ told.guard = Told(x, "transition.guard")
            /\ told.priority = Told(x, "transition.priority")
            /\ told.description = Told(x, "documentation.description")
            /\ told.annotations = Told(x, "documentation.annotation")
  BY DEF TransitionParagraph, CoreAnnotations
<1> HIDE DEF c, d
<1>3. /\ t.name = u.name /\ TimerSentence(t) = TimerSentence(u)
      /\ \A member \in CarriedMembers : Told(t, member) = Told(u, member)
  <2>1. \A member \in CarriedMembers :
          member \in {"transition.handler", "transition.guard", "transition.priority",
                      "documentation.description", "documentation.annotation"}
    BY DEF CarriedMembers, TransitionMembers, DocumentationMembers
  <2>2. QED
    BY <1>1, <1>2, <2>1 DEF c, d
<1>4. t.attributes = u.attributes
  BY <1>3, AllAttributesAreTold DEF TransitionTellable
<1>5. ASSUME NEW v, TransitionTellable(v), NEW w, TransitionTellable(w),
             TimerSentence(v) = TimerSentence(w), NEW timer \in v.timer
      PROVE  \E other \in w.timer : still(other) = still(timer)
  <2>1. [clock |-> timer.clock, cel |-> timer.cel, bind |-> timer.bind] \in TimerSentence(v)
    BY DEF TimerSentence
  <2>2. PICK other \in w.timer :
          [clock |-> other.clock, cel |-> other.cel, bind |-> other.bind] =
            [clock |-> timer.clock, cel |-> timer.cel, bind |-> timer.bind]
    BY <1>5, <2>1 DEF TimerSentence
  <2>3. other.clock = timer.clock /\ other.cel = timer.cel /\ other.bind = timer.bind
    BY <2>2
  <2>4. /\ timer = [clock |-> timer.clock, cel |-> timer.cel,
                    maturity |-> timer.maturity, bind |-> timer.bind]
        /\ other = [clock |-> other.clock, cel |-> other.cel,
                    maturity |-> other.maturity, bind |-> other.bind]
    BY <1>5, <2>2 DEF TransitionTellable
  <2>5. \A x : x = [clock |-> x.clock, cel |-> x.cel, maturity |-> x.maturity, bind |-> x.bind]
          => still(x) = [clock |-> x.clock, cel |-> x.cel, maturity |-> {}, bind |-> x.bind]
    OBVIOUS
  <2> HIDE DEF still
  <2>6. QED
    BY <2>3, <2>4, <2>5
<1> HIDE DEF still
<1>6. {still(timer) : timer \in t.timer} = {still(timer) : timer \in u.timer}
  <2>1. \A timer \in t.timer : \E other \in u.timer : still(other) = still(timer)
    BY <1>3, <1>5
  <2>2. \A timer \in u.timer : \E other \in t.timer : still(other) = still(timer)
    BY <1>3, <1>5
  <2>3. QED
    BY <2>1, <2>2
<1>7. t = [name |-> t.name, timer |-> t.timer, attributes |-> t.attributes]
  BY DEF TransitionTellable
<1>8. u = [name |-> u.name, timer |-> u.timer, attributes |-> u.attributes]
  BY DEF TransitionTellable
<1>9. \A x, S : x = [name |-> x.name, timer |-> x.timer, attributes |-> x.attributes]
        => [x EXCEPT !.timer = S] = [name |-> x.name, timer |-> S, attributes |-> x.attributes]
  OBVIOUS
<1>10. [t EXCEPT !.timer = {still(timer) : timer \in @}] =
         [u EXCEPT !.timer = {still(timer) : timer \in @}]
  BY <1>3, <1>4, <1>6, <1>7, <1>8, <1>9
<1>11. QED
  BY <1>3, <1>10 DEF still, TransitionMeant

(* The arcs of an end as Meant picks them.                                 *)
Touching(net, end, input) ==
  Subsequence(net.arcs, {k \in DOMAIN net.arcs :
                           /\ IsInput(net.arcs[k]) = input
                           /\ end \in {net.arcs[k].from, net.arcs[k].to}})

(* Touching an end is being an arc into it, or out of it.                  *)
LEMMA TouchingAre ==
  ASSUME NEW net, Tellable(net), NEW name
  PROVE  LET end == <<"transition", name>>
         IN  /\ Touching(net, end, TRUE) = InputsOfTransition(net, name)
             /\ Touching(net, end, FALSE) = OutputsOfTransition(net, name)
<1> DEFINE end == <<"transition", name>>
           touched(input) == {k \in DOMAIN net.arcs :
                                /\ IsInput(net.arcs[k]) = input
                                /\ end \in {net.arcs[k].from, net.arcs[k].to}}
           c == {i \in DOMAIN net.arcs : net.arcs[i].to = end}
           d == {i \in DOMAIN net.arcs : net.arcs[i].from = end}
<1>1. \A k \in DOMAIN net.arcs : net.arcs[k] \in Elements(net.arcs)
  BY DEF Elements
<1>2. \A k \in DOMAIN net.arcs :
        /\ IsInput(net.arcs[k]) /\ end \in {net.arcs[k].from, net.arcs[k].to}
             <=> net.arcs[k].to = end
        /\ ~IsInput(net.arcs[k]) /\ end \in {net.arcs[k].from, net.arcs[k].to}
             <=> net.arcs[k].from = end
  BY <1>1, ArcsTouchAsTheyShould
<1>3. \A k : IsInput(net.arcs[k]) \in BOOLEAN
  BY DEF IsInput
<1>4. touched(TRUE) = c
  <2>1. \A k \in DOMAIN net.arcs : k \in touched(TRUE) <=> k \in c
    <3> HIDE DEF end
    <3>1. QED
      BY <1>2, <1>3
  <2>2. QED
    BY <2>1
<1>5. touched(FALSE) = d
  <2>1. \A k \in DOMAIN net.arcs : k \in touched(FALSE) <=> k \in d
    <3> HIDE DEF end
    <3>1. QED
      BY <1>2, <1>3
  <2>2. QED
    BY <2>1
<1>6. /\ Touching(net, end, TRUE) = Subsequence(net.arcs, touched(TRUE))
      /\ Touching(net, end, FALSE) = Subsequence(net.arcs, touched(FALSE))
  BY DEF Touching
<1>7. /\ InputsOfTransition(net, name) = Subsequence(net.arcs, c)
      /\ OutputsOfTransition(net, name) = Subsequence(net.arcs, d)
  BY DEF InputsOfTransition, OutputsOfTransition
<1> HIDE DEF touched, c, d
<1>8. QED
  BY <1>4, <1>5, <1>6, <1>7

(* Lists of the same elements in the same places are the same.             *)
LEMMA ListsAgree ==
  ASSUME NEW S, NEW s \in Seq(S), NEW T, NEW t \in Seq(T), DOMAIN s = DOMAIN t,
         \A i \in DOMAIN s : s[i] = t[i]
  PROVE  s = t
<1>1. s = [i \in DOMAIN s |-> s[i]] /\ t = [i \in DOMAIN t |-> t[i]]
  OBVIOUS
<1>2. [i \in DOMAIN s |-> s[i]] = [i \in DOMAIN t |-> t[i]]
  OBVIOUS
<1>3. QED
  BY <1>1, <1>2

(* Two transitions told of in one paragraph have the same arcs, in the     *)
(* same order.                                                             *)
LEMMA SameArcs ==
  ASSUME NEW n, Tellable(n), NEW m, Tellable(m), NEW name, NEW told,
         HasClauses(n, name, told), HasClauses(m, name, told)
  PROVE  /\ InputsOfTransition(n, name) = InputsOfTransition(m, name)
         /\ OutputsOfTransition(n, name) = OutputsOfTransition(m, name)
<1> DEFINE inN == InputsOfTransition(n, name)
           inM == InputsOfTransition(m, name)
           outN == OutputsOfTransition(n, name)
           outM == OutputsOfTransition(m, name)
<1>1. /\ inN \in Seq(Elements(n.arcs)) /\ outN \in Seq(Elements(n.arcs))
      /\ inM \in Seq(Elements(m.arcs)) /\ outM \in Seq(Elements(m.arcs))
  BY ArcsOfTransition
<1>2. /\ \A a \in Elements(inN) : a \in Elements(n.arcs) /\ a.to = <<"transition", name>>
      /\ \A a \in Elements(inM) : a \in Elements(m.arcs) /\ a.to = <<"transition", name>>
      /\ \A a \in Elements(outN) : a \in Elements(n.arcs) /\ a.from = <<"transition", name>>
      /\ \A a \in Elements(outM) : a \in Elements(m.arcs) /\ a.from = <<"transition", name>>
  BY ArcsOfTransition
<1>3. /\ DOMAIN inN = DOMAIN inM /\ DOMAIN outN = DOMAIN outM
      /\ \A k \in DOMAIN inN : InputClause(n, inN[k]) = InputClause(m, inM[k])
      /\ \A k \in DOMAIN outN : OutputClause(n, outN[k]) = OutputClause(m, outM[k])
  <2>1. /\ DOMAIN told.inputs = DOMAIN inN
        /\ \A k \in DOMAIN inN : told.inputs[k] = InputClause(n, inN[k])
        /\ DOMAIN told.outputs = DOMAIN outN
        /\ \A k \in DOMAIN outN : told.outputs[k] = OutputClause(n, outN[k])
    BY DEF HasClauses
  <2>2. /\ DOMAIN told.inputs = DOMAIN inM
        /\ \A k \in DOMAIN inM : told.inputs[k] = InputClause(m, inM[k])
        /\ DOMAIN told.outputs = DOMAIN outM
        /\ \A k \in DOMAIN outM : told.outputs[k] = OutputClause(m, outM[k])
    BY DEF HasClauses
  <2> HIDE DEF inN, inM, outN, outM
  <2>3. QED
    BY <2>1, <2>2
<1> HIDE DEF inN, inM, outN, outM
<1>4. \A k \in DOMAIN inN : inN[k] = inM[k]
  <2>1. SUFFICES ASSUME NEW k \in DOMAIN inN PROVE inN[k] = inM[k]
    OBVIOUS
  <2>2. inN[k] \in Elements(inN) /\ inM[k] \in Elements(inM)
    BY <1>3 DEF Elements
  <2> DEFINE a == inN[k]
             b == inM[k]
  <2>3. /\ a \in Elements(n.arcs) /\ a.to = <<"transition", name>>
        /\ b \in Elements(m.arcs) /\ b.to = <<"transition", name>>
        /\ InputClause(n, a) = InputClause(m, b)
    BY <1>2, <1>3, <2>2
  <2> HIDE DEF a, b
  <2>4. a = b
    BY <2>3, InputClauseTells
  <2>5. QED
    BY <2>4 DEF a, b
<1>5. \A k \in DOMAIN outN : outN[k] = outM[k]
  <2>1. SUFFICES ASSUME NEW k \in DOMAIN outN PROVE outN[k] = outM[k]
    OBVIOUS
  <2>2. outN[k] \in Elements(outN) /\ outM[k] \in Elements(outM)
    BY <1>3 DEF Elements
  <2> DEFINE a == outN[k]
             b == outM[k]
  <2>3. /\ a \in Elements(n.arcs) /\ a.from = <<"transition", name>>
        /\ b \in Elements(m.arcs) /\ b.from = <<"transition", name>>
        /\ OutputClause(n, a) = OutputClause(m, b)
    BY <1>2, <1>3, <2>2
  <2> HIDE DEF a, b
  <2>4. a = b
    BY <2>3, OutputClauseTells
  <2>5. QED
    BY <2>4 DEF a, b
<1>6. inN = inM
  BY <1>1, <1>3, <1>4, ListsAgree
<1>7. outN = outM
  BY <1>1, <1>3, <1>5, ListsAgree
<1>8. QED
  BY <1>6, <1>7 DEF inN, inM, outN, outM

(* A place as an account is meant to tell it.                              *)
PlaceMeant(p) ==
  [p EXCEPT !.attributes = {a \in @ : a[1] \in DocumentationMembers}]

(* Nets with one account have the same places.                             *)
LEMMA SamePlaces ==
  ASSUME NEW n, Tellable(n), NEW m, Tellable(m), Explained(n) = Explained(m)
  PROVE  {PlaceMeant(p) : p \in Elements(n.places)} =
           {PlaceMeant(p) : p \in Elements(m.places)}
<1>1. {PlacePhrase(p) : p \in Elements(n.places)} = {PlacePhrase(p) : p \in Elements(m.places)}
  BY PlacesAreTold
<1>2. ASSUME NEW p, PlaceTellable(p), NEW q, PlaceTellable(q),
             PlacePhrase(p) = PlacePhrase(q)
      PROVE  PlaceMeant(p) = PlaceMeant(q)
  <2> DEFINE about(x) == {a \in x.attributes : a[1] \in DocumentationMembers}
  <2>1. /\ p.name = q.name /\ p.accepts = q.accepts /\ p.port = q.port
        /\ p.capacity = q.capacity /\ about(p) = about(q)
    BY <1>2, PhraseTells
  <2>2. /\ p = [name |-> p.name, accepts |-> p.accepts, port |-> p.port,
                capacity |-> p.capacity, attributes |-> p.attributes]
        /\ q = [name |-> q.name, accepts |-> q.accepts, port |-> q.port,
                capacity |-> q.capacity, attributes |-> q.attributes]
    BY <1>2 DEF PlaceTellable
  <2>3. \A x, S : x = [name |-> x.name, accepts |-> x.accepts, port |-> x.port,
                       capacity |-> x.capacity, attributes |-> x.attributes]
          => [x EXCEPT !.attributes = S] =
               [name |-> x.name, accepts |-> x.accepts, port |-> x.port,
                capacity |-> x.capacity, attributes |-> S]
    OBVIOUS
  <2>4. \A x : PlaceMeant(x) = [x EXCEPT !.attributes = about(x)]
    BY DEF PlaceMeant
  <2> HIDE DEF about
  <2>5. QED
    BY <2>1, <2>2, <2>3, <2>4
<1>3. /\ \A p \in Elements(n.places) : PlaceTellable(p)
      /\ \A p \in Elements(m.places) : PlaceTellable(p)
  BY DEF Tellable
<1>4. \A p \in Elements(n.places) : \E q \in Elements(m.places) : PlaceMeant(p) = PlaceMeant(q)
  BY <1>1, <1>2, <1>3
<1>5. \A q \in Elements(m.places) : \E p \in Elements(n.places) : PlaceMeant(p) = PlaceMeant(q)
  BY <1>1, <1>2, <1>3
<1>6. QED
  BY <1>4, <1>5

(* What an account tells of a net's marking.                               *)
LEMMA MarkingIsTold ==
  ASSUME NEW net, Tellable(net)
  PROVE  \A p, x : (\E k \in DOMAIN MarkingTold(net) : MarkingTold(net)[k] = <<p, x>>) <=>
                     p \in DOMAIN net.marking /\ x = net.marking[p]
<1> DEFINE c == {i \in DOMAIN net.places : net.places[i].name \in DOMAIN net.marking}
           marked == Subsequence(net.places, c)
<1>1. MarkingTold(net) = [k \in DOMAIN marked |-> <<marked[k].name, net.marking[marked[k].name]>>]
  BY DEF MarkingTold
<1>2. /\ net.places \in Seq(Elements(net.places))
      /\ DOMAIN net.marking \subseteq NamesIn(net.places)
  BY DEF Tellable
<1>3. Elements(marked) = {net.places[i] : i \in c}
  <2>1. c \in SUBSET DOMAIN net.places
    OBVIOUS
  <2> HIDE DEF c
  <2>2. QED
    BY <1>2, <2>1, ChosenAre
<1>4. /\ \A p \in Elements(marked) : p.name \in DOMAIN net.marking
      /\ \A p \in DOMAIN net.marking : \E q \in Elements(marked) : q.name = p
  <2> HIDE DEF marked
  <2>1. \A p \in Elements(marked) : p.name \in DOMAIN net.marking
    BY <1>3
  <2>2. ASSUME NEW p \in DOMAIN net.marking PROVE \E q \in Elements(marked) : q.name = p
    <3>1. PICK i \in DOMAIN net.places : net.places[i].name = p
      BY <1>2 DEF NamesIn
    <3>2. net.places[i] \in Elements(marked)
      BY <1>3, <3>1
    <3>3. QED
      BY <3>1, <3>2
  <2>3. QED
    BY <2>1, <2>2
<1> HIDE DEF marked, c
<1>5. /\ \A k \in DOMAIN marked : marked[k].name \in DOMAIN net.marking
      /\ \A p \in DOMAIN net.marking : \E k \in DOMAIN marked : marked[k].name = p
  BY <1>4 DEF Elements
<1>6. /\ DOMAIN MarkingTold(net) = DOMAIN marked
      /\ \A k \in DOMAIN marked :
           MarkingTold(net)[k] = <<marked[k].name, net.marking[marked[k].name]>>
  BY <1>1
<1>7. QED
  BY <1>5, <1>6

(* Nets with one account are marked alike.                                 *)
LEMMA SameMarking ==
  ASSUME NEW n, Tellable(n), NEW m, Tellable(m), Explained(n) = Explained(m)
  PROVE  n.marking = m.marking
<1>1. MarkingTold(n) = MarkingTold(m)
  <2>1. Explained(n).marking = Explained(m).marking
    OBVIOUS
  <2>2. QED
    BY <2>1 DEF Explained
<1> DEFINE Tells(told, p, x) == \E k \in DOMAIN told : told[k] = <<p, x>>
<1>2. /\ \A p, x : Tells(MarkingTold(n), p, x) <=> p \in DOMAIN n.marking /\ x = n.marking[p]
      /\ \A p, x : Tells(MarkingTold(m), p, x) <=> p \in DOMAIN m.marking /\ x = m.marking[p]
  BY MarkingIsTold
<1> HIDE DEF Tells
<1>3. \A p, x : p \in DOMAIN n.marking /\ x = n.marking[p] <=>
                  p \in DOMAIN m.marking /\ x = m.marking[p]
  BY <1>1, <1>2
<1>4. /\ DOMAIN n.marking = DOMAIN m.marking
      /\ \A p \in DOMAIN n.marking : n.marking[p] = m.marking[p]
  BY <1>3
<1>5. /\ n.marking = [p \in DOMAIN n.marking |-> n.marking[p]]
      /\ m.marking = [p \in DOMAIN m.marking |-> m.marking[p]]
  BY DEF Tellable
<1>6. [p \in DOMAIN n.marking |-> n.marking[p]] = [p \in DOMAIN m.marking |-> m.marking[p]]
  BY <1>4
<1>7. QED
  BY <1>5, <1>6

(* Nets with one account are annotated alike.                              *)
LEMMA SameAnnotations ==
  ASSUME NEW n, Tellable(n), NEW m, Tellable(m), Explained(n) = Explained(m)
  PROVE  n.name = m.name /\ n.description = m.description /\ n.annotations = m.annotations
<1>1. Explained(n).name = Explained(m).name /\ Explained(n).overview = Explained(m).overview
  OBVIOUS
<1>2. n.name = m.name /\ Overview(n) = Overview(m)
  BY <1>1 DEF Explained
<1>3. /\ Overview(n).description = Overview(m).description
      /\ Overview(n).annotations = Overview(m).annotations
  BY <1>2
<1>4. /\ n.description = m.description
      /\ {<<a[2], a[3]>> : a \in n.annotations} = {<<a[2], a[3]>> : a \in m.annotations}
  BY <1>3 DEF Overview
<1>5. /\ \A a \in n.annotations : a = <<"documentation.annotation", a[2], a[3]>>
      /\ \A a \in m.annotations : a = <<"documentation.annotation", a[2], a[3]>>
  BY DEF Tellable
<1>6. ASSUME NEW a \in n.annotations
      PROVE  \E b \in m.annotations : a[2] = b[2] /\ a[3] = b[3]
  <2>1. <<a[2], a[3]>> \in {<<b[2], b[3]>> : b \in m.annotations}
    BY <1>4
  <2>2. PICK b \in m.annotations : <<a[2], a[3]>> = <<b[2], b[3]>>
    BY <2>1
  <2>3. QED
    BY <2>2
<1>7. ASSUME NEW a \in m.annotations
      PROVE  \E b \in n.annotations : a[2] = b[2] /\ a[3] = b[3]
  <2>1. <<a[2], a[3]>> \in {<<b[2], b[3]>> : b \in n.annotations}
    BY <1>4
  <2>2. PICK b \in n.annotations : <<a[2], a[3]>> = <<b[2], b[3]>>
    BY <2>1
  <2>3. QED
    BY <2>2
<1>8. n.annotations = m.annotations
  BY <1>5, <1>6, <1>7
<1>9. QED
  BY <1>2, <1>4, <1>8

(* Nets with one account have the same transitions, in the same order, and *)
(* they have the same arcs.                                                *)
LEMMA SameFlow ==
  ASSUME NEW n, Tellable(n), NEW m, Tellable(m), Explained(n) = Explained(m)
  PROVE  /\ DOMAIN n.transitions = DOMAIN m.transitions
         /\ \A i \in DOMAIN n.transitions :
              LET t == n.transitions[i]
                  u == m.transitions[i]
              IN  /\ t.name = u.name
                  /\ TransitionMeant(t) = TransitionMeant(u)
                  /\ InputsOfTransition(n, t.name) = InputsOfTransition(m, t.name)
                  /\ OutputsOfTransition(n, t.name) = OutputsOfTransition(m, t.name)
<1> DEFINE flow == Explained(n).flow
<1>1. /\ DOMAIN flow = DOMAIN n.transitions
      /\ \A i \in DOMAIN n.transitions :
           /\ flow[i] = TransitionParagraph(n, n.transitions[i])
           /\ HasClauses(n, n.transitions[i].name, flow[i])
  BY FlowIs
<1>2. /\ DOMAIN flow = DOMAIN m.transitions
      /\ \A i \in DOMAIN m.transitions :
           /\ flow[i] = TransitionParagraph(m, m.transitions[i])
           /\ HasClauses(m, m.transitions[i].name, flow[i])
  BY FlowIs
<1> HIDE DEF flow
<1>3. ASSUME NEW i \in DOMAIN n.transitions
      PROVE  LET t == n.transitions[i]
                 u == m.transitions[i]
             IN  /\ t.name = u.name
                 /\ TransitionMeant(t) = TransitionMeant(u)
                 /\ InputsOfTransition(n, t.name) = InputsOfTransition(m, t.name)
                 /\ OutputsOfTransition(n, t.name) = OutputsOfTransition(m, t.name)
  <2> DEFINE t == n.transitions[i]
             u == m.transitions[i]
  <2>1. i \in DOMAIN m.transitions
    BY <1>1, <1>2
  <2>2. TransitionTellable(t) /\ TransitionTellable(u)
    BY <2>1 DEF Tellable, Elements
  <2>3. /\ TransitionParagraph(n, t) = TransitionParagraph(m, u)
        /\ HasClauses(n, t.name, flow[i]) /\ HasClauses(m, u.name, flow[i])
    BY <1>1, <1>2, <2>1
  <2> HIDE DEF t, u
  <2>4. t.name = u.name /\ TransitionMeant(t) = TransitionMeant(u)
    BY <2>2, <2>3, ParagraphTells
  <2>5. /\ InputsOfTransition(n, t.name) = InputsOfTransition(m, t.name)
        /\ OutputsOfTransition(n, t.name) = OutputsOfTransition(m, t.name)
    BY <2>3, <2>4, SameArcs
  <2>6. QED
    BY <2>4, <2>5 DEF t, u
<1>4. QED
  BY <1>1, <1>2, <1>3

(* What a net means, part by part.                                         *)
LEMMA MeantIs ==
  ASSUME NEW net, Tellable(net)
  PROVE  Meant(net) =
           [name |-> net.name, description |-> net.description,
            annotations |-> net.annotations, marking |-> net.marking,
            places |-> {PlaceMeant(p) : p \in Elements(net.places)},
            transitions |-> [i \in DOMAIN net.transitions |->
                               TransitionMeant(net.transitions[i])],
            arcs |-> [i \in DOMAIN net.transitions |->
                        <<InputsOfTransition(net, net.transitions[i].name),
                          OutputsOfTransition(net, net.transitions[i].name)>>]]
<1>1. Meant(net) =
           [name |-> net.name, description |-> net.description,
            annotations |-> net.annotations, marking |-> net.marking,
            places |-> {PlaceMeant(p) : p \in Seqs!ToSet(net.places)},
            transitions |-> [i \in DOMAIN net.transitions |->
                               TransitionMeant(net.transitions[i])],
            arcs |-> [i \in DOMAIN net.transitions |->
                        <<Touching(net, <<"transition", net.transitions[i].name>>, TRUE),
                          Touching(net, <<"transition", net.transitions[i].name>>, FALSE)>>]]
  BY DEF Meant, PlaceMeant, TransitionMeant, Touching
<1>2. QED
  BY <1>1, TouchingAre, ToSetIsElements

(* Nets with one account mean the same.                                    *)
LEMMA AccountsTell ==
  ASSUME NEW n, Tellable(n), NEW m, Tellable(m), Explained(n) = Explained(m)
  PROVE  Meant(n) = Meant(m)
<1> DEFINE transitions(net) ==
             [i \in DOMAIN net.transitions |-> TransitionMeant(net.transitions[i])]
           arcs(net) ==
             [i \in DOMAIN net.transitions |->
                <<InputsOfTransition(net, net.transitions[i].name),
                  OutputsOfTransition(net, net.transitions[i].name)>>]
<1>1. transitions(n) = transitions(m) /\ arcs(n) = arcs(m)
  BY SameFlow
<1>2. {PlaceMeant(p) : p \in Elements(n.places)} = {PlaceMeant(p) : p \in Elements(m.places)}
  BY SamePlaces
<1>3. n.name = m.name /\ n.description = m.description /\ n.annotations = m.annotations
  BY SameAnnotations
<1>4. n.marking = m.marking
  BY SameMarking
<1>5. \A net : Tellable(net) => Meant(net) =
           [name |-> net.name, description |-> net.description,
            annotations |-> net.annotations, marking |-> net.marking,
            places |-> {PlaceMeant(p) : p \in Elements(net.places)},
            transitions |-> transitions(net), arcs |-> arcs(net)]
  BY MeantIs
<1> HIDE DEF transitions, arcs
<1>6. QED
  BY <1>1, <1>2, <1>3, <1>4, <1>5

(* What is carried along is a member of what it is carried by.             *)
LEMMA CarriedIs ==
  ASSUME NEW tb, NEW objects, NEW x \in Carried(tb, objects)
  PROVE  /\ x = <<x[1], x[2], x[3]>> /\ x[1] \in CarriedMembers
         /\ \E f \in tb.facts : f.about[1] = x[1] /\ f.about[2] \in objects
<1>1. PICK f \in tb.facts : /\ f.about[1] \in CarriedMembers /\ f.about[2] \in objects
                            /\ x = <<f.about[1], f.about[3], f.given>>
  BY DEF Carried
<1>2. x[1] = f.about[1] /\ x[2] = f.about[3] /\ x[3] = f.given
  BY <1>1
<1>3. QED
  BY <1>1, <1>2

(* A list made from another, element by element, is a list.                *)
LEMMA ListOfItsElements ==
  ASSUME NEW S, NEW s \in Seq(S), NEW t, DOMAIN t = DOMAIN s,
         t = [i \in DOMAIN t |-> t[i]]
  PROVE  t \in Seq(Elements(t))
<1>1. DOMAIN s = 1..Len(s) /\ Len(s) \in Nat
  OBVIOUS
<1>2. \A i \in DOMAIN t : t[i] \in Elements(t)
  BY DEF Elements
<1>3. t \in [1..Len(s) -> Elements(t)]
  BY <1>1, <1>2
<1>4. QED
  BY <1>1, <1>3

(* A place is resolved to what an account tells of it.                     *)
LEMMA ResolvedPlaceIsTellable ==
  ASSUME NEW tb, NEW p
  PROVE  PlaceTellable(ResolvedPlace(tb, p))
<1> DEFINE x == ResolvedPlace(tb, p)
<1>1. x = [name |-> x.name, accepts |-> x.accepts, port |-> x.port,
           capacity |-> x.capacity, attributes |-> x.attributes]
  BY DEF ResolvedPlace
<1>2. x.attributes = Carried(tb, {<<"place", p>>})
  BY DEF ResolvedPlace
<1> HIDE DEF x
<1>3. Attributed(x, CarriedMembers)
  BY <1>2, CarriedIs DEF Attributed
<1>4. QED
  BY <1>1, <1>3 DEF PlaceTellable, x

(* A transition is resolved to what an account tells of it.                *)
LEMMA ResolvedTransitionIsTellable ==
  ASSUME NEW tb, NEW t
  PROVE  TransitionTellable(ResolvedTransition(tb, t))
<1> DEFINE x == ResolvedTransition(tb, t)
<1>1. x = [name |-> x.name, timer |-> x.timer, attributes |-> x.attributes]
  BY DEF ResolvedTransition
<1>2. x.attributes = Carried(tb, {<<"transition", t>>})
  BY DEF ResolvedTransition
<1>3. \A timer \in x.timer :
        timer = [clock |-> timer.clock, cel |-> timer.cel,
                 maturity |-> timer.maturity, bind |-> timer.bind]
  BY DEF ResolvedTransition
<1> HIDE DEF x
<1>4. Attributed(x, CarriedMembers)
  BY <1>2, CarriedIs DEF Attributed
<1>5. QED
  BY <1>1, <1>3, <1>4 DEF TransitionTellable, x

(* What is carried along of an arc is its documentation.                   *)
LEMMA ArcsCarryDocumentation ==
  ASSUME NEW tb, FactsTold(tb), NEW names,
         NEW x \in Carried(tb, {<<"arcHandle", name>> : name \in names})
  PROVE  x = <<x[1], x[2], x[3]>> /\ x[1] \in DocumentationMembers
<1>1. /\ x = <<x[1], x[2], x[3]>> /\ x[1] \in CarriedMembers
      /\ \E f \in tb.facts : /\ f.about[1] = x[1]
                             /\ f.about[2] \in {<<"arcHandle", name>> : name \in names}
  BY CarriedIs
<1>2. PICK f \in tb.facts, name \in names :
        f.about[1] = x[1] /\ f.about[2] = <<"arcHandle", name>>
  BY <1>1
<1>3. f.about[2][1] = "arcHandle"
  BY <1>2
<1>4. f.about[1] \in MembersOf(f.about[2][1])
  BY ToldFactIs DEF FactsTold
<1>5. x[1] \in MembersOf("arcHandle")
  BY <1>2, <1>3, <1>4
<1>6. MembersOf("arcHandle") = ArcMembers \cup DocumentationMembers \cup {"view.route"}
  BY DEF MembersOf
<1>7. x[1] \in DocumentationMembers
  BY <1>1, <1>5, <1>6 DEF CarriedMembers, TransitionMembers, ArcMembers, DocumentationMembers
<1>8. QED
  BY <1>1, <1>7

(* So are arcs: an inhibit check weighs 1, another input has no correlate, *)
(* and an output has no filter and one kind of data.                       *)
LEMMA ResolvedArcIsTellable ==
  ASSUME NEW srcs, NEW tb, Sound(srcs, tb), Consistent(tb), FactsTold(tb),
         StructureValid(Resolved(tb)),
         NEW i \in DOMAIN Resolved(tb).arcs
  PROVE  ArcTellable(Resolved(tb), Resolved(tb).arcs[i])
<1> DEFINE net == Resolved(tb)
           arcs == OrderedArcs(tb)
           a == arcs[i]
           x == ResolvedArc(tb, a)
<1>1. DOMAIN net.arcs = DOMAIN arcs /\ net.arcs[i] = x
  BY DEF Resolved
<1>2. a \in Elements(tb.arcs)
  <2>1. Elements(arcs) = Elements(tb.arcs)
    BY OrderedArcsAre
  <2> HIDE DEF net, arcs
  <2>2. a \in Elements(arcs)
    BY <1>1 DEF Elements, net
  <2>3. QED
    BY <2>1, <2>2
<1>3. /\ a.place \in NamesIn(net.places)
      /\ a.transition \in NamesIn(net.transitions)
  BY <1>2, ArcIsPlaced
<1>4. IF IsInput(x) THEN ValidConsumeArc(net, x) ELSE ValidProduceArc(net, x)
  <2>1. \A k \in DOMAIN net.arcs :
          IF IsInput(net.arcs[k]) THEN ValidConsumeArc(net, net.arcs[k])
                                  ELSE ValidProduceArc(net, net.arcs[k])
    BY DEF StructureValid
  <2> HIDE DEF net, x
  <2>2. QED
    BY <1>1, <2>1 DEF net
<1> HIDE DEF net, arcs, a
<1>5. /\ x = [from |-> x.from, to |-> x.to, mode |-> x.mode, color |-> x.color,
              destination |-> x.destination, weight |-> x.weight, filter |-> x.filter,
              correlate |-> x.correlate, data |-> x.data, cel |-> x.cel,
              attributes |-> x.attributes]
      /\ x.mode = a.mode /\ x.destination = a.place
      /\ x.attributes = Carried(tb, {<<"arcHandle", h.name>> :
                                       h \in {g \in tb.handles : g.run = a.run}})
  BY DEF ResolvedArc
<1>6. IsInput(x) = IsInput(a)
  BY <1>5 DEF IsInput
<1>7. Attributed(x, DocumentationMembers)
  <2> DEFINE names == {h.name : h \in {g \in tb.handles : g.run = a.run}}
  <2>1. {<<"arcHandle", h.name>> : h \in {g \in tb.handles : g.run = a.run}} =
          {<<"arcHandle", name>> : name \in names}
    OBVIOUS
  <2>2. x.attributes = Carried(tb, {<<"arcHandle", name>> : name \in names})
    BY <1>5, <2>1
  <2> HIDE DEF names, x
  <2>3. \A y \in x.attributes : y = <<y[1], y[2], y[3]>> /\ y[1] \in DocumentationMembers
    <3>1. SUFFICES ASSUME NEW y \in x.attributes
          PROVE  y = <<y[1], y[2], y[3]>> /\ y[1] \in DocumentationMembers
      OBVIOUS
    <3>2. y \in Carried(tb, {<<"arcHandle", name>> : name \in names})
      BY <2>2
    <3>3. QED
      BY <3>2, ArcsCarryDocumentation
  <2>4. QED
    BY <2>3 DEF Attributed
<1>8. ASSUME IsInput(x) PROVE InputTellable(net, x)
  <2>1. /\ x.from = <<"place", a.place>> /\ x.to = <<"transition", a.transition>>
        /\ x.data = {} /\ x.cel = {}
        /\ x.correlate = IF a.mode = "inhibit" THEN ArcValues(tb, "arc.correlate", a) ELSE {}
    BY <1>6, <1>8 DEF ResolvedArc
  <2>2. x.mode = "inhibit" => x.weight = 1
    BY <1>4, <1>8 DEF ValidConsumeArc
  <2> HIDE DEF x
  <2>3. IF x.mode = "inhibit" THEN x.weight = 1 ELSE x.correlate = {}
    BY <1>5, <2>1, <2>2
  <2>4. x.from[2] = a.place /\ x.to[2] = a.transition
    BY <2>1
  <2>5. QED
    BY <1>3, <1>5, <2>1, <2>3, <2>4 DEF InputTellable
<1>9. ASSUME ~IsInput(x) PROVE OutputTellable(net, x)
  <2>1. /\ x.from = <<"transition", a.transition>> /\ x.to = <<"place", a.place>>
        /\ x.weight = 1 /\ x.filter = {}
        /\ x.correlate = IF a.mode = "inhibit" THEN ArcValues(tb, "arc.correlate", a) ELSE {}
    BY <1>6, <1>9 DEF ResolvedArc
  <2>2. x.data = {} \/ x.cel = {}
    BY <1>4, <1>9 DEF ValidProduceArc
  <2>3. a.mode = "produce"
    BY <1>6, <1>9 DEF IsInput
  <2> HIDE DEF x
  <2>4. x.correlate = {}
    BY <2>1, <2>3
  <2>5. x.from[2] = a.transition /\ x.to[2] = a.place
    BY <2>1
  <2>6. QED
    BY <1>3, <2>1, <2>2, <2>4, <2>5 DEF OutputTellable
<1> HIDE DEF x
<1>10. ArcTellable(net, x)
  BY <1>5, <1>7, <1>8, <1>9 DEF ArcTellable
<1>11. QED
  BY <1>1, <1>10 DEF net

(* Whatever consistent tables describe can be told of.                     *)
LEMMA ResolvedIsTellable ==
  ASSUME NEW srcs, NEW tb, Sound(srcs, tb), Consistent(tb), FactsTold(tb),
         StructureValid(Resolved(tb))
  PROVE  Tellable(Resolved(tb))
<1> DEFINE net == Resolved(tb)
<1>1. tb.places \in Seq(STRING) /\ tb.transitions \in Seq(STRING)
  BY DEF Sound, NamesListed
<1>2. /\ net.places = [i \in DOMAIN tb.places |-> ResolvedPlace(tb, tb.places[i])]
      /\ net.transitions = [i \in DOMAIN tb.transitions |->
                              ResolvedTransition(tb, OrderedTransitions(tb)[i])]
      /\ net.arcs = [i \in DOMAIN OrderedArcs(tb) |-> ResolvedArc(tb, OrderedArcs(tb)[i])]
      /\ net.marking = Marked(tb, "initial")
      /\ net.annotations = {x \in Carried(tb, {<<"document", "">>}) :
                              x[1] = "documentation.annotation"}
  BY DEF Resolved
<1>3. NamesUnique(net.places) /\ NamesUnique(net.transitions)
      /\ NamesIn(net.places) = Elements(tb.places)
  BY PlacesAreNamed, TransitionsAreNamed
<1>4. \A i \in DOMAIN net.arcs : ArcTellable(net, net.arcs[i])
  BY ResolvedArcIsTellable
<1> HIDE DEF net
<1>5. /\ DOMAIN net.places = DOMAIN tb.places
      /\ net.places = [i \in DOMAIN net.places |-> net.places[i]]
      /\ \A i \in DOMAIN net.places : PlaceTellable(net.places[i])
  <2>1. /\ DOMAIN net.places = DOMAIN tb.places
        /\ \A i \in DOMAIN tb.places :
             net.places[i] = ResolvedPlace(tb, tb.places[i])
    BY <1>2
  <2>2. net.places = [i \in DOMAIN net.places |-> net.places[i]]
    BY <1>2
  <2>3. QED
    BY <2>1, <2>2, ResolvedPlaceIsTellable
<1>6. /\ DOMAIN net.transitions = DOMAIN tb.transitions
      /\ net.transitions = [i \in DOMAIN net.transitions |-> net.transitions[i]]
      /\ \A i \in DOMAIN net.transitions : TransitionTellable(net.transitions[i])
  <2>1. /\ DOMAIN net.transitions = DOMAIN tb.transitions
        /\ \A i \in DOMAIN tb.transitions :
             net.transitions[i] = ResolvedTransition(tb, OrderedTransitions(tb)[i])
    BY <1>2
  <2>2. net.transitions = [i \in DOMAIN net.transitions |-> net.transitions[i]]
    BY <1>2
  <2>3. QED
    BY <2>1, <2>2, ResolvedTransitionIsTellable
<1>7. /\ DOMAIN net.arcs = DOMAIN OrderedArcs(tb)
      /\ net.arcs = [i \in DOMAIN net.arcs |-> net.arcs[i]]
      /\ OrderedArcs(tb) \in Seq(Arcs)
  BY <1>2, OrderedArcsAre
<1>8. /\ net.places \in Seq(Elements(net.places))
      /\ net.transitions \in Seq(Elements(net.transitions))
      /\ net.arcs \in Seq(Elements(net.arcs))
  BY <1>1, <1>5, <1>6, <1>7, ListOfItsElements
<1>9. /\ \A p \in Elements(net.places) : PlaceTellable(p)
      /\ \A t \in Elements(net.transitions) : TransitionTellable(t)
      /\ \A a \in Elements(net.arcs) : ArcTellable(net, a)
  BY <1>4, <1>5, <1>6 DEF Elements
<1>10. /\ net.marking = [p \in DOMAIN net.marking |-> net.marking[p]]
       /\ DOMAIN net.marking =
            {m.place : m \in {x \in Seqs!ToSet(tb.markings) : x.marking = "initial"}}
  BY <1>2 DEF Marked
<1>11. DOMAIN net.marking \subseteq NamesIn(net.places)
  <2>1. SUFFICES ASSUME NEW p \in DOMAIN net.marking PROVE p \in Elements(tb.places)
    BY <1>3
  <2>2. PICK m \in Seqs!ToSet(tb.markings) : m.place = p
    BY <1>10
  <2>3. PICK i \in DOMAIN tb.markings : tb.markings[i] = m
    BY ToSetIsElements DEF Elements
  <2>4. MarkingFits(tb, m)
    BY <2>3 DEF Consistent
  <2>5. QED
    BY <2>2, <2>4, ToSetIsElements DEF MarkingFits
<1>12. \A a \in net.annotations : a = <<"documentation.annotation", a[2], a[3]>>
  <2>1. SUFFICES ASSUME NEW a \in net.annotations
        PROVE  a = <<"documentation.annotation", a[2], a[3]>>
    OBVIOUS
  <2>2. a \in Carried(tb, {<<"document", "">>}) /\ a[1] = "documentation.annotation"
    BY <1>2
  <2>3. a = <<a[1], a[2], a[3]>>
    BY <2>2, CarriedIs
  <2>4. QED
    BY <2>2, <2>3
<1>13. Tellable(net)
  BY <1>3, <1>8, <1>9, <1>10, <1>11, <1>12 DEF Tellable
<1>14. QED
  BY <1>13 DEF net

(* So is whatever the compiler resolves.                                   *)
LEMMA OutcomeIsTellable ==
  ASSUME NEW srcs, NEW tb, Collected(srcs, tb), NEW net \in NetOutcome(tb).result
  PROVE  Tellable(net)
<1>1. /\ ~tb.refused /\ Consistent(tb) /\ net = Resolved(tb)
      /\ StructureValid(Resolved(tb))
  BY DEF NetOutcome
<1>2. Sound(srcs, tb) /\ FactsTold(tb)
  BY <1>1 DEF Collected
<1>3. QED
  BY <1>1, <1>2, ResolvedIsTellable

(* An account leaves out nothing that it is meant to tell: whichever       *)
(* statement a source is written without, the net that results means the   *)
(* same where it has the same account (explain_net, sentence by sentence). *)
THEOREM AccountsTellAll == Spec => []AccountTellsNetsApart
<1>1. DocumentInv => AccountTellsNetsApart
  <2>1. SUFFICES ASSUME DocumentInv, InOneSource("net"), NEW net \in ResolvedNets,
                        NEW i \in DOMAIN sources[1].statements,
                        NEW other \in NetOutcome(TablesOf(<<WithoutStatement(i)>>)).result,
                        Explained(net) = Explained(other)
        PROVE  Meant(net) = Meant(other)
    BY DEF AccountTellsNetsApart
  <2>2. /\ sources \in Seq(SourceRecords) /\ sources # <<>>
        /\ Collected(sources, tables) /\ document \subseteq {Outcome(tables)}
    BY <2>1 DEF DocumentInv
  <2>3. Tellable(net)
    <3>1. PICK o \in document : KindOf(sources[1].header) = "net" /\ net \in o.result
      BY <2>1 DEF ResolvedNets, Outcomes
    <3>2. o = Outcome(tables)
      BY <2>2, <3>1
    <3>3. CASE tables.refused
      BY <3>1, <3>2, <3>3 DEF Outcome, NetOutcome, CompositionOutcome
    <3>4. CASE ~tables.refused
      <4>1. KindOf(tables.header) = KindOf(sources[1].header)
        BY <2>2, <3>4 DEF Collected, Sound, HeaderAgrees
      <4>2. net \in NetOutcome(tables).result
        BY <3>1, <3>2, <4>1 DEF Outcome
      <4>3. QED
        BY <2>2, <4>2, OutcomeIsTellable
    <3>5. QED
      BY <2>2, <3>3, <3>4
  <2>4. WithoutStatement(i) \in SourceRecords
    <3> DEFINE source == sources[1]
               statements == source.statements
               rest == Seqs!RemoveAt(statements, i)
    <3>1. source \in SourceRecords
      BY <2>2
    <3> HIDE DEF source
    <3>2. source = [header |-> source.header, statements |-> statements]
          /\ source.header \in Headers /\ statements \in Seq(Statements)
      BY <3>1 DEF SourceRecords
    <3>3. i \in 1..Len(statements) /\ Len(statements) \in Nat
      BY <3>2 DEF source
    <3> HIDE DEF statements
    <3>4. rest \in Seq(Statements)
      <4>1. rest = SubSeq(statements, 1, i - 1) \o SubSeq(statements, i + 1, Len(statements))
        BY DEF Seqs!RemoveAt
      <4>2. /\ SubSeq(statements, 1, i - 1) \in Seq(Statements)
            /\ SubSeq(statements, i + 1, Len(statements)) \in Seq(Statements)
        BY <3>2, <3>3
      <4>3. QED
        BY <4>1, <4>2
    <3>5. WithoutStatement(i) = [source EXCEPT !.statements = rest]
      BY DEF WithoutStatement, source, statements
    <3> HIDE DEF rest
    <3>6. WithoutStatement(i) = [header |-> source.header, statements |-> rest]
      BY <3>2, <3>5
    <3>7. QED
      BY <3>2, <3>4, <3>6 DEF SourceRecords
  <2>5. Tellable(other)
    BY <2>1, <2>4, SourceIsCompiled, OutcomeIsTellable
  <2>6. QED
    BY <2>1, <2>3, <2>5, AccountsTell
<1>2. QED
  BY <1>1, DocumentIsSound, PTL
=============================================================================
