-------------------------- MODULE SubsequenceProofs -------------------------
(***************************************************************************)
(* Facts about subsequences, sequences without repetitions, natural numbers*)
(* and loops that the proofs of the components share.                      *)
(***************************************************************************)
EXTENDS Subsequences, Integers, SequenceTheorems, FiniteSetTheorems,
        FunctionTheorems, WellFoundedInduction, TLAPS

NatLess == OpToRel(<, Nat)

LEMMA NatLessIsLess ==
  ASSUME NEW m \in Nat, NEW n \in Nat
  PROVE  <<m, n>> \in NatLess <=> m < n
BY DEF NatLess, OpToRel

(* A nonempty set of naturals has a least element: induction is done by    *)
(* looking at the least counterexample.                                    *)
LEMMA LeastNatural ==
  ASSUME NEW S \in SUBSET Nat, S # {}
  PROVE  \E n \in S : \A m \in S : n <= m
<1>1. IsWellFoundedOn(NatLess, Nat)
  BY NatLessThanWellFounded DEF NatLess
<1>2. PICK n \in S : \A m \in S : ~(<<m, n>> \in NatLess)
  BY <1>1, WFMin
<1>3. \A m \in S : ~(m < n)
  BY <1>2, NatLessIsLess
<1>4. QED
  BY <1>3

-----------------------------------------------------------------------------
(* Ranks.                                                                  *)

LEMMA RankType ==
  ASSUME NEW c \in SUBSET Nat, IsFiniteSet(c), NEW i \in c
  PROVE  Rank(c, i) \in 1..Cardinality(c)
<1> DEFINE upTo == {j \in c : j <= i}
<1>1. upTo \in SUBSET c /\ i \in upTo
  OBVIOUS
<1>2. IsFiniteSet(upTo) /\ Cardinality(upTo) <= Cardinality(c)
  BY <1>1, FS_Subset
<1>3. Cardinality(upTo) \in Nat /\ Cardinality(c) \in Nat
  BY <1>2, FS_CardinalityType
<1>4. Cardinality(upTo) # 0
  BY <1>1, <1>2, FS_EmptySet
<1> HIDE DEF upTo
<1>5. Cardinality(upTo) \in 1..Cardinality(c)
  BY <1>2, <1>3, <1>4
<1>6. QED
  BY <1>5 DEF Rank, upTo

LEMMA RankIncreases ==
  ASSUME NEW c \in SUBSET Nat, IsFiniteSet(c), NEW i \in c, NEW j \in c, i < j
  PROVE  Rank(c, i) < Rank(c, j)
<1> DEFINE upToI == {k \in c : k <= i}
           upToJ == {k \in c : k <= j}
<1>1. upToI \in SUBSET upToJ /\ j \in upToJ /\ j \notin upToI /\ upToJ \in SUBSET c
  <2>1. \A k \in c : k \in Nat
    OBVIOUS
  <2>2. \A k \in upToI : k \in upToJ
    BY <2>1
  <2>3. j \in upToJ /\ ~(j <= i)
    BY <2>1
  <2>4. QED
    BY <2>2, <2>3
<1>2. IsFiniteSet(upToJ)
  BY <1>1, FS_Subset
<1>3. /\ IsFiniteSet(upToI) /\ Cardinality(upToI) <= Cardinality(upToJ)
      /\ Cardinality(upToJ) = Cardinality(upToI) => upToJ = upToI
  BY <1>1, <1>2, FS_Subset
<1>4. Cardinality(upToI) \in Nat /\ Cardinality(upToJ) \in Nat
  BY <1>2, <1>3, FS_CardinalityType
<1>5. upToJ # upToI
  BY <1>1
<1> HIDE DEF upToI, upToJ
<1>6. Cardinality(upToI) < Cardinality(upToJ)
  BY <1>3, <1>4, <1>5
<1>7. QED
  BY <1>6 DEF Rank, upToI, upToJ

(* Each number up to the cardinality is the rank of one position.          *)
LEMMA RankIsOnto ==
  ASSUME NEW c \in SUBSET Nat, IsFiniteSet(c)
  PROVE  /\ Cardinality(c) \in Nat
         /\ \A n \in 1..Cardinality(c) : \E i \in c : Rank(c, i) = n
         /\ \A i \in c, j \in c : Rank(c, i) = Rank(c, j) => i = j
<1> DEFINE N == Cardinality(c)
           f == [i \in c |-> Rank(c, i)]
<1>1. N \in Nat
  BY FS_CardinalityType
<1>2. f \in [c -> 1..N]
  BY RankType
<1>3. \A i \in c, j \in c : Rank(c, i) = Rank(c, j) => i = j
  <2>1. SUFFICES ASSUME NEW i \in c, NEW j \in c, i # j
                 PROVE  Rank(c, i) # Rank(c, j)
    OBVIOUS
  <2>2. Rank(c, i) \in Int /\ Rank(c, j) \in Int
    BY RankType
  <2>3. (i < j => Rank(c, i) < Rank(c, j)) /\ (j < i => Rank(c, j) < Rank(c, i))
    BY RankIncreases
  <2>4. i < j \/ j < i
    BY <2>1
  <2>5. QED
    BY <2>2, <2>3, <2>4
<1>4. f \in Injection(c, 1..N)
  BY <1>2, <1>3 DEF Injection, IsInjective
<1>5. IsFiniteSet(1..N) /\ Cardinality(1..N) = N
  BY <1>1, FS_Interval
<1>6. f \in Surjection(c, 1..N)
  <2> HIDE DEF f
  <2> QED
    BY <1>4, <1>5, FS_Injection
<1>7. \A n \in 1..N : \E i \in c : f[i] = n
  BY <1>6 DEF Surjection
<1>8. QED
  BY <1>1, <1>3, <1>7

-----------------------------------------------------------------------------
(* Subsequences.                                                           *)

(* The n-th element comes from the position of rank n.                     *)
LEMMA SubsequenceAt ==
  ASSUME NEW S, NEW s \in Seq(S), NEW c \in SUBSET DOMAIN s
  PROVE  /\ c \in SUBSET Nat /\ IsFiniteSet(c) /\ Cardinality(c) \in Nat
         /\ Subsequence(s, c) \in Seq(S)
         /\ Len(Subsequence(s, c)) = Cardinality(c)
         /\ \A i \in c : /\ Rank(c, i) \in 1..Cardinality(c)
                         /\ Subsequence(s, c)[Rank(c, i)] = s[i]
         /\ \A n \in 1..Cardinality(c) :
              \E i \in c : Rank(c, i) = n /\ Subsequence(s, c)[n] = s[i]
<1> DEFINE at(n) == CHOOSE i \in c : Rank(c, i) = n
           N == Cardinality(c)
<1>1. DOMAIN s = 1..Len(s) /\ Len(s) \in Nat /\ \A i \in DOMAIN s : s[i] \in S
  OBVIOUS
<1>2. c \in SUBSET Nat /\ IsFiniteSet(1..Len(s)) /\ c \in SUBSET (1..Len(s))
  BY <1>1, FS_Interval
<1>3. IsFiniteSet(c)
  BY <1>2, FS_Subset
<1>4. /\ N \in Nat
      /\ \A n \in 1..N : \E i \in c : Rank(c, i) = n
      /\ \A i \in c, j \in c : Rank(c, i) = Rank(c, j) => i = j
  BY <1>2, <1>3, RankIsOnto
<1>5. \A n \in 1..N : at(n) \in c /\ Rank(c, at(n)) = n
  BY <1>4
<1>6. Subsequence(s, c) = [n \in 1..N |-> s[at(n)]]
  BY DEF Subsequence
<1> HIDE DEF at, N
<1>7. \A n \in 1..N : s[at(n)] \in S
  BY <1>1, <1>5
<1>8. Subsequence(s, c) \in Seq(S) /\ Len(Subsequence(s, c)) = N
  BY <1>4, <1>6, <1>7
<1>9. \A i \in c : Rank(c, i) \in 1..N
  BY <1>2, <1>3, RankType DEF N
<1>10. \A i \in c : Subsequence(s, c)[Rank(c, i)] = s[i]
  BY <1>4, <1>5, <1>6, <1>9
<1>11. \A n \in 1..N : \E i \in c : Rank(c, i) = n /\ Subsequence(s, c)[n] = s[i]
  BY <1>5, <1>6
<1>12. QED
  BY <1>2, <1>3, <1>4, <1>8, <1>9, <1>10, <1>11 DEF N

(* The last of the chosen positions gives the last of the elements.        *)
LEMMA SubsequenceGrows ==
  ASSUME NEW S, NEW s \in Seq(S), NEW n \in 1..Len(s), NEW c \in SUBSET (1..(n - 1))
  PROVE  Subsequence(s, c \cup {n}) = Append(Subsequence(s, c), s[n])
<1> DEFINE d == c \cup {n}
           N == Cardinality(c)
<1>1. DOMAIN s = 1..Len(s) /\ Len(s) \in Nat /\ n \in Nat
  OBVIOUS
<1>2. c \in SUBSET DOMAIN s /\ d \in SUBSET DOMAIN s /\ n \notin c /\ \A i \in c : i \in Nat /\ i < n
  BY <1>1
<1>3. /\ IsFiniteSet(c) /\ N \in Nat
      /\ Subsequence(s, c) \in Seq(S) /\ Len(Subsequence(s, c)) = N
      /\ \A i \in c : /\ Rank(c, i) \in 1..N
                      /\ Subsequence(s, c)[Rank(c, i)] = s[i]
      /\ \A k \in 1..N : \E i \in c : Rank(c, i) = k /\ Subsequence(s, c)[k] = s[i]
  BY <1>2, SubsequenceAt
<1>4. /\ IsFiniteSet(d)
      /\ Subsequence(s, d) \in Seq(S) /\ Len(Subsequence(s, d)) = Cardinality(d)
      /\ \A i \in d : Subsequence(s, d)[Rank(d, i)] = s[i]
  BY <1>2, SubsequenceAt
<1>5. Cardinality(d) = N + 1
  BY <1>2, <1>3, FS_AddElement
<1>6. \A i \in c : Rank(d, i) = Rank(c, i)
  <2>1. SUFFICES ASSUME NEW i \in c PROVE {j \in d : j <= i} = {j \in c : j <= i}
    BY DEF Rank
  <2>2. \A j \in d : j <= i => j \in c
    BY <1>1, <1>2
  <2>3. QED
    BY <2>2
<1>7. Rank(d, n) = N + 1
  <2>1. \A j \in d : j <= n
    BY <1>1, <1>2
  <2>2. {j \in d : j <= n} = d
    BY <2>1
  <2>3. QED
    BY <1>5, <2>2 DEF Rank
<1> DEFINE u == Append(Subsequence(s, c), s[n])
<1>8. /\ u \in Seq(S) /\ Len(u) = N + 1 /\ u[N + 1] = s[n]
      /\ \A k \in 1..N : u[k] = Subsequence(s, c)[k]
  BY <1>1, <1>3
<1> HIDE DEF u, d, N
<1>9. \A k \in 1..(N + 1) : Subsequence(s, d)[k] = u[k]
  <2>1. SUFFICES ASSUME NEW k \in 1..(N + 1) PROVE Subsequence(s, d)[k] = u[k]
    OBVIOUS
  <2>2. CASE k = N + 1
    <3>1. n \in d
      BY DEF d
    <3>2. QED
      BY <1>4, <1>7, <1>8, <2>2, <3>1
  <2>3. CASE k \in 1..N
    <3>1. PICK i \in c : Rank(c, i) = k /\ Subsequence(s, c)[k] = s[i]
      BY <1>3, <2>3
    <3>2. i \in d
      BY DEF d
    <3>3. QED
      BY <1>4, <1>6, <1>8, <2>3, <3>1, <3>2
  <2>4. QED
    BY <1>3, <2>1, <2>2, <2>3
<1>10. Subsequence(s, d) = u
  BY <1>3, <1>4, <1>5, <1>8, <1>9, SeqEqual
<1>11. QED
  BY <1>10 DEF d, u

-----------------------------------------------------------------------------
(* Sequences without repetitions.                                          *)

Elements(s) == {s[i] : i \in DOMAIN s}

Distinct(s) == \A i \in DOMAIN s, j \in DOMAIN s : i # j => s[i] # s[j]

(* Nothing stands twice in two sequences, one after the other.             *)
Apart(s, t) == Distinct(s) /\ Distinct(t) /\ Elements(s) \cap Elements(t) = {}

LEMMA EmptyIsDistinct ==
  <<>> \in Seq({}) /\ Distinct(<<>>) /\ Elements(<<>>) = {}
BY DEF Distinct, Elements

LEMMA AppendDistinct ==
  ASSUME NEW S, NEW s \in Seq(S), NEW x \in S
  PROVE  /\ Append(s, x) \in Seq(S)
         /\ Elements(Append(s, x)) = Elements(s) \cup {x}
         /\ Distinct(s) /\ x \notin Elements(s) => Distinct(Append(s, x))
<1> DEFINE t == Append(s, x)
<1>1. /\ t \in Seq(S) /\ DOMAIN s = 1..Len(s) /\ Len(s) \in Nat
      /\ DOMAIN t = 1..(Len(s) + 1)
      /\ t[Len(s) + 1] = x /\ \A i \in 1..Len(s) : t[i] = s[i]
  OBVIOUS
<1> HIDE DEF t
<1>2. Elements(t) = Elements(s) \cup {x}
  <2>1. \A i \in DOMAIN t : i \in DOMAIN s \/ i = Len(s) + 1
    BY <1>1
  <2>2. DOMAIN s \subseteq DOMAIN t /\ Len(s) + 1 \in DOMAIN t
    BY <1>1
  <2>3. QED
    BY <1>1, <2>1, <2>2 DEF Elements
<1>3. Distinct(s) /\ x \notin Elements(s) => Distinct(t)
  BY <1>1 DEF Distinct, Elements
<1>4. QED
  BY <1>1, <1>2, <1>3 DEF t

LEMMA TailDistinct ==
  ASSUME NEW S, NEW s \in Seq(S), s # <<>>
  PROVE  /\ Tail(s) \in Seq(S) /\ Head(s) \in S /\ Head(s) \in Elements(s)
         /\ Elements(s) = Elements(Tail(s)) \cup {Head(s)}
         /\ Distinct(s) => Distinct(Tail(s)) /\ Head(s) \notin Elements(Tail(s))
<1> DEFINE t == Tail(s)
<1>1. /\ t \in Seq(S) /\ DOMAIN s = 1..Len(s) /\ Len(s) \in Nat \ {0}
      /\ DOMAIN t = 1..(Len(s) - 1)
      /\ Head(s) = s[1] /\ \A i \in 1..(Len(s) - 1) : t[i] = s[i + 1]
  OBVIOUS
<1> HIDE DEF t
<1>2. 1 \in DOMAIN s /\ s[1] \in S
  BY <1>1
<1>3. Elements(s) = Elements(t) \cup {s[1]}
  <2>1. \A i \in DOMAIN s : i = 1 \/ (i - 1 \in DOMAIN t /\ t[i - 1] = s[i])
    BY <1>1
  <2>2. \A i \in DOMAIN t : i + 1 \in DOMAIN s /\ t[i] = s[i + 1]
    BY <1>1
  <2>3. QED
    BY <1>2, <2>1, <2>2 DEF Elements
<1>4. Distinct(s) => Distinct(t) /\ s[1] \notin Elements(t)
  <2>1. \A i \in DOMAIN t : i + 1 \in DOMAIN s /\ t[i] = s[i + 1] /\ i + 1 # 1
    BY <1>1
  <2>2. \A i \in DOMAIN t, j \in DOMAIN t : i # j => i + 1 # j + 1
    BY <1>1
  <2>3. QED
    BY <1>2, <2>1, <2>2 DEF Distinct, Elements
<1>5. QED
  BY <1>1, <1>2, <1>3, <1>4 DEF t, Elements

LEMMA ConcatDistinct ==
  ASSUME NEW S, NEW s \in Seq(S), NEW t \in Seq(S)
  PROVE  /\ s \o t \in Seq(S)
         /\ Elements(s \o t) = Elements(s) \cup Elements(t)
         /\ Apart(s, t) => Distinct(s \o t)
<1> DEFINE u == s \o t
<1>1. /\ u \in Seq(S) /\ DOMAIN s = 1..Len(s) /\ Len(s) \in Nat
      /\ DOMAIN t = 1..Len(t) /\ Len(t) \in Nat /\ DOMAIN u = 1..(Len(s) + Len(t))
      /\ \A i \in 1..(Len(s) + Len(t)) :
           u[i] = IF i <= Len(s) THEN s[i] ELSE t[i - Len(s)]
  OBVIOUS
<1> HIDE DEF u
<1>2. \A i \in DOMAIN s : i \in DOMAIN u /\ u[i] = s[i]
  BY <1>1
<1>3. \A i \in DOMAIN t : i + Len(s) \in DOMAIN u /\ u[i + Len(s)] = t[i]
  BY <1>1
<1>4. \A i \in DOMAIN u : \/ i \in DOMAIN s
                          \/ i - Len(s) \in DOMAIN t /\ u[i] = t[i - Len(s)]
  BY <1>1
<1>5. Elements(u) = Elements(s) \cup Elements(t)
  BY <1>2, <1>3, <1>4 DEF Elements
<1>6. ASSUME Apart(s, t) PROVE Distinct(u)
  <2>1. SUFFICES ASSUME NEW i \in DOMAIN u, NEW j \in DOMAIN u, i # j
                 PROVE  u[i] # u[j]
    BY DEF Distinct
  <2>2. /\ \A k \in DOMAIN s : s[k] \in Elements(s)
        /\ \A k \in DOMAIN t : t[k] \in Elements(t)
    BY DEF Elements
  <2>3. i - Len(s) # j - Len(s)
    BY <1>1, <2>1
  <2>4. CASE i \in DOMAIN s /\ j \in DOMAIN s
    BY <1>2, <1>6, <2>1, <2>4 DEF Apart, Distinct
  <2>5. CASE i \notin DOMAIN s /\ j \notin DOMAIN s
    BY <1>4, <1>6, <2>3, <2>5 DEF Apart, Distinct
  <2>6. CASE i \in DOMAIN s /\ j \notin DOMAIN s
    BY <1>2, <1>4, <1>6, <2>2, <2>6 DEF Apart
  <2>7. CASE i \notin DOMAIN s /\ j \in DOMAIN s
    BY <1>2, <1>4, <1>6, <2>2, <2>7 DEF Apart
  <2>8. QED
    BY <2>4, <2>5, <2>6, <2>7
<1>7. QED
  BY <1>1, <1>5, <1>6 DEF u

(* A part of a sequence without repetitions has none either.               *)
LEMMA AmongDistinct ==
  ASSUME NEW S, NEW s \in Seq(S), NEW T
  PROVE  /\ Among(s, T) \in Seq(S)
         /\ Elements(Among(s, T)) = Elements(s) \cap T
         /\ Distinct(s) => Distinct(Among(s, T))
<1> DEFINE c == {i \in DOMAIN s : s[i] \in T}
           t == Subsequence(s, c)
<1>1. c \in SUBSET DOMAIN s
  OBVIOUS
<1>2. \A i \in DOMAIN s : i \in c <=> s[i] \in T
  OBVIOUS
<1>3. Among(s, T) = t
  BY DEF Among
<1> HIDE DEF c
<1>4. /\ Cardinality(c) \in Nat
      /\ t \in Seq(S) /\ Len(t) = Cardinality(c)
      /\ \A i \in c : Rank(c, i) \in 1..Cardinality(c) /\ t[Rank(c, i)] = s[i]
      /\ \A n \in 1..Cardinality(c) : \E i \in c : Rank(c, i) = n /\ t[n] = s[i]
  BY <1>1, SubsequenceAt
<1> HIDE DEF t
<1>5. DOMAIN t = 1..Cardinality(c)
  BY <1>4
<1>6. Elements(t) = Elements(s) \cap T
  BY <1>1, <1>2, <1>4, <1>5 DEF Elements
<1>7. ASSUME Distinct(s) PROVE Distinct(t)
  <2>1. SUFFICES ASSUME NEW n \in DOMAIN t, NEW m \in DOMAIN t, n # m
                 PROVE  t[n] # t[m]
    BY DEF Distinct
  <2>2. PICK i \in c : Rank(c, i) = n /\ t[n] = s[i]
    BY <1>4, <1>5
  <2>3. PICK j \in c : Rank(c, j) = m /\ t[m] = s[j]
    BY <1>4, <1>5
  <2>4. QED
    BY <1>1, <1>7, <2>1, <2>2, <2>3 DEF Distinct
<1>8. QED
  BY <1>3, <1>4, <1>6, <1>7

-----------------------------------------------------------------------------
(* Loops: what is built up in n steps exists, step for step.               *)

Loops(f, X, x, n, step) ==
  /\ f \in [0..n -> X]
  /\ f[0] = x
  /\ \A k \in 1..n : f[k] = step[k][f[k - 1]]

LEMMA LoopExists ==
  ASSUME NEW X, NEW x \in X, NEW n \in Nat, NEW step \in [1..n -> [X -> X]]
  PROVE  \E f : Loops(f, X, x, n, step)
<1> DEFINE Built(f, l) == f[0] = x /\ \A k \in 1..l : f[k] = step[k][f[k - 1]]
           bad == {l \in 0..n : \A f \in [0..l -> X] : ~Built(f, l)}
<1>1. \A l : l \in bad <=> l \in 0..n /\ \A f \in [0..l -> X] : ~Built(f, l)
  OBVIOUS
<1>2. \A f, l : Built(f, l) <=> f[0] = x /\ \A k \in 1..l : f[k] = step[k][f[k - 1]]
  OBVIOUS
<1> HIDE DEF bad, Built
<1>3. bad = {}
  <2>1. SUFFICES ASSUME bad # {} PROVE FALSE
    OBVIOUS
  <2>2. PICK l \in bad : \A k \in bad : l <= k
    <3>1. bad \in SUBSET Nat
      BY <1>1
    <3>2. QED
      BY <2>1, <3>1, LeastNatural
  <2>3. l \in 0..n /\ \A f \in [0..l -> X] : ~Built(f, l)
    BY <1>1
  <2>4. l # 0
    <3>1. [k \in 0..0 |-> x] \in [0..0 -> X]
      OBVIOUS
    <3>2. Built([k \in 0..0 |-> x], 0)
      BY <1>2
    <3>3. QED
      BY <2>3, <3>1, <3>2
  <2>5. l \in 1..n /\ l - 1 \in 0..n /\ l - 1 \notin bad
    BY <2>2, <2>3, <2>4
  <2>6. PICK f \in [0..(l - 1) -> X] : Built(f, l - 1)
    BY <1>1, <2>5
  <2> DEFINE g == [k \in 0..l |-> IF k = l THEN step[l][f[l - 1]] ELSE f[k]]
  <2>7. step[l] \in [X -> X] /\ f[l - 1] \in X
    BY <2>5, <2>6
  <2>8. /\ g \in [0..l -> X]
        /\ g[l] = step[l][f[l - 1]] /\ \A k \in 0..(l - 1) : g[k] = f[k]
    <3>1. \A k \in 0..l : k = l \/ k \in 0..(l - 1)
      BY <2>5
    <3>2. \A k \in 0..(l - 1) : k \in 0..l /\ k # l /\ f[k] \in X
      BY <2>5, <2>6
    <3>3. l \in 0..l /\ step[l][f[l - 1]] \in X
      BY <2>5, <2>7
    <3>4. QED
      BY <3>1, <3>2, <3>3
  <2> HIDE DEF g
  <2>9. Built(g, l)
    <3>1. g[0] = x
      BY <1>2, <2>5, <2>6, <2>8
    <3>2. \A k \in 1..l : k - 1 \in 0..(l - 1) /\ (k = l \/ (k \in 0..(l - 1) /\ k \in 1..(l - 1)))
      BY <2>5
    <3>3. \A k \in 1..(l - 1) : f[k] = step[k][f[k - 1]]
      BY <1>2, <2>6
    <3>4. \A k \in 1..l : g[k] = step[k][g[k - 1]]
      BY <2>8, <3>2, <3>3
    <3>5. QED
      BY <1>2, <3>1, <3>4
  <2>10. QED
    BY <2>3, <2>8, <2>9
<1>4. PICK f \in [0..n -> X] : Built(f, n)
  <2>1. n \in 0..n
    OBVIOUS
  <2>2. QED
    BY <1>1, <1>3, <2>1
<1>5. Loops(f, X, x, n, step)
  BY <1>2, <1>4 DEF Loops
<1>6. QED
  BY <1>5

(* A function that takes the steps of a loop is one.                       *)
LEMMA LoopUnfolds ==
  ASSUME NEW X, NEW x \in X, NEW n \in Nat, NEW step \in [1..n -> [X -> X]], NEW f,
         f = [k \in 0..n |-> f[k]], f[0] = x,
         \A k \in 1..n : f[k - 1] \in X => f[k] = step[k][f[k - 1]]
  PROVE  Loops(f, X, x, n, step)
<1> DEFINE bad == {k \in 0..n : f[k] \notin X}
<1>1. bad = {}
  <2>1. SUFFICES ASSUME bad # {} PROVE FALSE
    OBVIOUS
  <2>2. PICK k \in bad : \A l \in bad : k <= l
    <3>1. bad \in SUBSET Nat
      OBVIOUS
    <3> HIDE DEF bad
    <3>2. QED
      BY <2>1, <3>1, LeastNatural
  <2>3. k \in 1..n /\ k - 1 \in 0..n /\ k - 1 \notin bad
    BY <2>2
  <2>4. f[k - 1] \in X /\ f[k] = step[k][f[k - 1]]
    BY <2>3
  <2>5. f[k] \in X
    BY <2>3, <2>4
  <2>6. QED
    BY <2>2, <2>5
<1>2. \A k \in 0..n : f[k] \in X
  BY <1>1
<1> HIDE DEF bad
<1>3. f \in [0..n -> X]
  BY <1>2
<1>4. \A k \in 1..n : f[k] = step[k][f[k - 1]]
  <2>1. \A k \in 1..n : k - 1 \in 0..n
    OBVIOUS
  <2>2. QED
    BY <1>2, <2>1
<1>5. QED
  BY <1>3, <1>4 DEF Loops
=============================================================================
