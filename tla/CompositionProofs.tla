-------------------------- MODULE CompositionProofs -------------------------
(***************************************************************************)
(* Proofs about the merge of a composition: that fusion follows the wires, *)
(* that a valid composition merges to a valid net, and that the order of   *)
(* its wires makes no difference to that net.                              *)
(*                                                                         *)
(* The union-find is a forest: climbing from a port ends at a root, to     *)
(* compress a path changes no root, and a wire joins the classes of its    *)
(* ends and no other.  So after all the wires two ports have one root      *)
(* exactly when wires connect them, and the names places are merged under  *)
(* are the same for connected ports and different for others.  From this   *)
(* follow the places of the merged net, the tokens they start with, and    *)
(* that what arcs, timers and ports say of places is true of those places. *)
(***************************************************************************)
EXTENDS DocumentProofs

-----------------------------------------------------------------------------
(* The forest of wired ports.                                              *)

(* The way up from n, of so many steps.                                    *)
WayUp(parent, n, up, steps) ==
  /\ up[0] = n
  /\ \A i \in 1..steps : up[i] = parent[up[i - 1]]

(* An ancestor is where the way up ends.                                   *)
LEMMA AncestorUnfolds ==
  ASSUME NEW W, NEW parent \in [W -> W], NEW n \in W, NEW k \in Nat
  PROVE  \E up \in [0..k -> W] :
           WayUp(parent, n, up, k) /\ Ancestor(parent, n, k) = up[k]
<1> DEFINE Is(f) == f = [i \in 0..k |-> IF i = 0 THEN n ELSE parent[f[i - 1]]]
           step == [i \in 1..k |-> parent]
           up == CHOOSE f : Is(f)
<1>1. Ancestor(parent, n, k) = up[k]
  BY DEF Ancestor
<1>2. step \in [1..k -> [W -> W]]
  OBVIOUS
<1> HIDE DEF step
<1>3. PICK f : Loops(f, W, n, k, step)
  BY <1>2, LoopExists
<1>4. f \in [0..k -> W] /\ f[0] = n /\ \A i \in 1..k : f[i] = parent[f[i - 1]]
  BY <1>3 DEF Loops, step
<1>5. Is(f)
  <2>1. \A i \in 0..k : f[i] = IF i = 0 THEN n ELSE parent[f[i - 1]]
    BY <1>4
  <2>2. QED
    BY <1>4, <2>1
<1>6. Is(up)
  BY <1>5
<1>7. up = [i \in 0..k |-> IF i = 0 THEN n ELSE parent[up[i - 1]]]
  BY <1>6
<1> HIDE DEF up, Is
<1>8. up[0] = n /\ \A i \in 1..k : up[i] = parent[up[i - 1]]
  <2>1. 0 \in 0..k /\ \A i \in 1..k : i \in 0..k /\ i # 0
    OBVIOUS
  <2>2. QED
    BY <1>7, <2>1
<1>9. \A i \in 0..k : up[i] \in W
  <2> DEFINE bad == {i \in 0..k : up[i] \notin W}
  <2>1. SUFFICES ASSUME bad # {} PROVE FALSE
    OBVIOUS
  <2>2. PICK i \in bad : \A j \in bad : i <= j
    <3>1. bad \in SUBSET Nat
      OBVIOUS
    <3> HIDE DEF bad
    <3>2. QED
      BY <2>1, <3>1, LeastNatural
  <2>3. i \in 1..k /\ i - 1 \in 0..k /\ i - 1 \notin bad
    BY <1>8, <2>2
  <2>4. up[i - 1] \in W
    BY <2>3
  <2>5. QED
    BY <1>8, <2>2, <2>3, <2>4
<1>10. up \in [0..k -> W]
  BY <1>7, <1>9
<1>11. QED
  BY <1>1, <1>8, <1>10 DEF WayUp

(* There is one way up.                                                    *)
LEMMA OneWayUp ==
  ASSUME NEW parent, NEW n, NEW k \in Nat, NEW l \in Nat, k <= l, NEW f, NEW g,
         WayUp(parent, n, f, l), WayUp(parent, n, g, k)
  PROVE  \A i \in 0..k : g[i] = f[i]
<1> DEFINE bad == {i \in 0..k : g[i] # f[i]}
<1>1. SUFFICES ASSUME bad # {} PROVE FALSE
  OBVIOUS
<1>2. PICK i \in bad : \A j \in bad : i <= j
  <2>1. bad \in SUBSET Nat
    OBVIOUS
  <2> HIDE DEF bad
  <2>2. QED
    BY <1>1, <2>1, LeastNatural
<1>3. g[0] = f[0]
  BY DEF WayUp
<1>4. i \in 1..k /\ i \in 1..l /\ i - 1 \in 0..k /\ i - 1 \notin bad
  BY <1>2, <1>3
<1>5. g[i - 1] = f[i - 1] /\ f[i] = parent[f[i - 1]] /\ g[i] = parent[g[i - 1]]
  BY <1>4 DEF WayUp
<1>6. QED
  BY <1>2, <1>5

(* Ancestors step by step, from below and from above.                      *)
LEMMA AncestorIs ==
  ASSUME NEW W, NEW parent \in [W -> W], NEW n \in W, NEW k \in Nat
  PROVE  /\ Ancestor(parent, n, k) \in W
         /\ Ancestor(parent, n, 0) = n
         /\ Ancestor(parent, n, k + 1) = parent[Ancestor(parent, n, k)]
         /\ Ancestor(parent, n, k + 1) = Ancestor(parent, parent[n], k)
<1>1. PICK up \in [0..(k + 1) -> W] :
        WayUp(parent, n, up, k + 1) /\ Ancestor(parent, n, k + 1) = up[k + 1]
  BY AncestorUnfolds
<1>2. PICK f \in [0..k -> W] : WayUp(parent, n, f, k) /\ Ancestor(parent, n, k) = f[k]
  BY AncestorUnfolds
<1>3. parent[n] \in W
  OBVIOUS
<1>4. PICK g \in [0..k -> W] :
        WayUp(parent, parent[n], g, k) /\ Ancestor(parent, parent[n], k) = g[k]
  BY <1>3, AncestorUnfolds
<1>5. PICK z : WayUp(parent, n, z, 0) /\ Ancestor(parent, n, 0) = z[0]
  <2>1. 0 \in Nat
    OBVIOUS
  <2>2. \A i \in Nat : \E z \in [0..i -> W] : WayUp(parent, n, z, i) /\ Ancestor(parent, n, i) = z[i]
    BY AncestorUnfolds
  <2>3. QED
    BY <2>1, <2>2
<1>6. up[k] = f[k]
  <2>1. k + 1 \in Nat /\ k <= k + 1 /\ k \in 0..k
    OBVIOUS
  <2>2. \A i \in 0..k : f[i] = up[i]
    BY <1>1, <1>2, <2>1, OneWayUp
  <2>3. QED
    BY <2>1, <2>2
<1>7. up[k + 1] = g[k]
  <2> DEFINE rest == [i \in 0..k |-> up[i + 1]]
  <2>1. \A i \in 1..k : /\ i \in 0..k /\ i - 1 \in 0..k /\ i + 1 \in 1..(k + 1)
                        /\ (i - 1) + 1 = i /\ (i + 1) - 1 = i
    OBVIOUS
  <2>2. 1 \in 1..(k + 1) /\ 1 - 1 = 0 /\ 0 \in 0..k /\ 0 + 1 = 1
    OBVIOUS
  <2>3. up[1] = parent[n]
    BY <1>1, <2>2 DEF WayUp
  <2>4. \A i \in 1..k : up[i + 1] = parent[up[i]]
    BY <1>1, <2>1 DEF WayUp
  <2>5. WayUp(parent, parent[n], rest, k)
    BY <2>1, <2>2, <2>3, <2>4 DEF WayUp
  <2> HIDE DEF rest
  <2>6. k <= k /\ k \in 0..k
    OBVIOUS
  <2>7. \A i \in 0..k : g[i] = rest[i]
    BY <1>4, <2>5, <2>6, OneWayUp
  <2>8. QED
    BY <2>6, <2>7 DEF rest
<1>8. k + 1 \in 1..(k + 1) /\ (k + 1) - 1 = k
  OBVIOUS
<1>9. up[k + 1] = parent[up[k]]
  BY <1>1, <1>8 DEF WayUp
<1>10. Ancestor(parent, n, 0) = n
  BY <1>5 DEF WayUp
<1>11. QED
  BY <1>1, <1>2, <1>4, <1>6, <1>7, <1>9, <1>10

(* A port that is not its own parent is higher than its parent.            *)
Heights(W, parent, h) ==
  /\ h \in [W -> Nat]
  /\ \A n \in W : parent[n] # n => h[parent[n]] < h[n]

(* A forest has such heights: no port is its own ancestor but a root.      *)
IsForest(W, parent) ==
  /\ IsFiniteSet(W) /\ parent \in [W -> W]
  /\ \E h : Heights(W, parent, h)

(* Climbing from anywhere ends at a root, within as many steps as there are *)
(* ports.                                                                  *)
LEMMA RootIsReached ==
  ASSUME NEW W, NEW parent, IsForest(W, parent), NEW n \in W
  PROVE  Root(parent, n) \in W /\ parent[Root(parent, n)] = Root(parent, n)
<1> DEFINE K == Cardinality(W)
           up == [i \in 0..K |-> Ancestor(parent, n, i)]
<1>1. parent \in [W -> W] /\ IsFiniteSet(W) /\ K \in Nat
  BY FS_CardinalityType DEF IsForest
<1>2. PICK h : Heights(W, parent, h)
  BY DEF IsForest
<1>3. Root(parent, n) = Ancestor(parent, n, K)
  BY <1>1 DEF Root
<1> HIDE DEF K
<1>4. \A i \in 0..K : up[i] \in W /\ up[i] = Ancestor(parent, n, i)
  BY <1>1, AncestorIs
<1>5. \A i \in 0..K : i # K => i + 1 \in 0..K /\ up[i + 1] = parent[up[i]]
  BY <1>1, AncestorIs
<1> HIDE DEF up
<1>6. \E i \in 0..K : parent[up[i]] = up[i]
  <2>1. SUFFICES ASSUME \A i \in 0..K : parent[up[i]] # up[i] PROVE FALSE
    OBVIOUS
  <2>2. \A i \in 0..K : i # K => h[up[i + 1]] < h[up[i]]
    BY <1>2, <1>4, <1>5, <2>1 DEF Heights
  <2>3. \A i, j \in 0..K : i < j => h[up[j]] < h[up[i]]
    <3>1. SUFFICES ASSUME NEW i \in 0..K
          PROVE  \A j \in 0..K : i < j => h[up[j]] < h[up[i]]
      OBVIOUS
    <3> DEFINE bad == {j \in 0..K : i < j /\ ~(h[up[j]] < h[up[i]])}
    <3>2. SUFFICES ASSUME bad # {} PROVE FALSE
      OBVIOUS
    <3>3. PICK j \in bad : \A l \in bad : j <= l
      <4>1. bad \in SUBSET Nat
        OBVIOUS
      <4> HIDE DEF bad
      <4>2. QED
        BY <3>2, <4>1, LeastNatural
    <3>4. /\ j \in 0..K /\ j - 1 \in 0..K /\ j - 1 # K /\ (j - 1) + 1 = j
          /\ j - 1 \notin bad /\ i < j
      BY <1>1, <3>3
    <3>5. h[up[j]] < h[up[j - 1]]
      BY <2>2, <3>4
    <3>6. j - 1 = i \/ h[up[j - 1]] < h[up[i]]
      BY <3>4
    <3>7. h[up[i]] \in Nat /\ h[up[j]] \in Nat /\ h[up[j - 1]] \in Nat
      BY <1>2, <1>4, <3>4 DEF Heights
    <3>8. h[up[j]] < h[up[i]]
      BY <3>5, <3>6, <3>7
    <3>9. QED
      BY <3>3, <3>8
  <2>4. \A i, j \in 0..K : i # j => up[i] # up[j]
    <3>1. \A i \in 0..K : h[up[i]] \in Nat
      BY <1>2, <1>4 DEF Heights
    <3>2. QED
      BY <1>1, <2>3, <3>1
  <2>5. [i \in 0..K |-> up[i]] \in Injection(0..K, W)
    BY <1>4, <2>4 DEF Injection, IsInjective
  <2>6. IsFiniteSet(0..K) /\ Cardinality(0..K) = K + 1
    BY <1>1, FS_Interval
  <2>7. Cardinality(0..K) <= Cardinality(W)
    BY <1>1, <2>5, <2>6, FS_Injection
  <2>8. QED
    BY <1>1, <2>6, <2>7 DEF K
<1>7. PICK r \in 0..K : parent[up[r]] = up[r]
  BY <1>6
<1>8. \A i \in 0..K : r <= i => up[i] = up[r]
  <2> DEFINE bad == {i \in 0..K : r <= i /\ up[i] # up[r]}
  <2>1. SUFFICES ASSUME bad # {} PROVE FALSE
    OBVIOUS
  <2>2. PICK i \in bad : \A j \in bad : i <= j
    <3>1. bad \in SUBSET Nat
      OBVIOUS
    <3> HIDE DEF bad
    <3>2. QED
      BY <2>1, <3>1, LeastNatural
  <2>3. /\ i - 1 \in 0..K /\ i - 1 # K /\ (i - 1) + 1 = i /\ r <= i - 1
        /\ i - 1 \notin bad
    BY <1>1, <2>2
  <2>4. up[i] = parent[up[i - 1]] /\ up[i - 1] = up[r]
    BY <1>5, <2>3
  <2>5. QED
    BY <1>7, <2>2, <2>4
<1>9. K \in 0..K /\ r <= K
  BY <1>1
<1>10. QED
  BY <1>3, <1>4, <1>7, <1>8, <1>9

(* What holds of a port, and of the parent wherever it holds, holds all the *)
(* way up.                                                                 *)
LEMMA AncestorsStay ==
  ASSUME NEW W, NEW parent \in [W -> W], NEW S, S \subseteq W, NEW n \in S,
         \A m \in S : parent[m] \in S
  PROVE  \A k \in Nat : Ancestor(parent, n, k) \in S
<1> DEFINE bad == {k \in Nat : Ancestor(parent, n, k) \notin S}
<1>1. SUFFICES ASSUME bad # {} PROVE FALSE
  OBVIOUS
<1>2. PICK k \in bad : \A j \in bad : k <= j
  <2>1. bad \in SUBSET Nat
    OBVIOUS
  <2> HIDE DEF bad
  <2>2. QED
    BY <1>1, <2>1, LeastNatural
<1>3. n \in W /\ 0 \in Nat
  OBVIOUS
<1>4. Ancestor(parent, n, 0) = n
  BY <1>3, AncestorIs
<1>5. k \in Nat /\ k # 0
  BY <1>2, <1>4
<1>6. PICK j \in Nat : k = j + 1
  <2>1. k - 1 \in Nat /\ k = (k - 1) + 1
    BY <1>5
  <2>2. QED
    BY <2>1
<1>7. Ancestor(parent, n, j) \in S
  BY <1>2, <1>6
<1>8. Ancestor(parent, n, j + 1) = parent[Ancestor(parent, n, j)]
  BY <1>3, AncestorIs
<1>9. QED
  BY <1>2, <1>6, <1>7, <1>8

(* So it holds of the root.                                                *)
LEMMA RootStays ==
  ASSUME NEW W, NEW parent, IsForest(W, parent), NEW S, S \subseteq W, NEW n \in S,
         \A m \in S : parent[m] \in S
  PROVE  Root(parent, n) \in S
<1>1. parent \in [W -> W] /\ IsFiniteSet(W) /\ Cardinality(W) \in Nat
  BY FS_CardinalityType DEF IsForest
<1>2. DOMAIN parent = W
  BY <1>1
<1>3. Root(parent, n) = Ancestor(parent, n, Cardinality(W))
  BY <1>2 DEF Root
<1>4. QED
  BY <1>1, <1>3, AncestorsStay

(* A root is its own root, a parent has the root of its child, and a root  *)
(* that is not the port itself is lower.                                   *)
LEMMA RootsAre ==
  ASSUME NEW W, NEW parent, IsForest(W, parent), NEW n \in W
  PROVE  /\ parent[n] = n => Root(parent, n) = n
         /\ Root(parent, parent[n]) = Root(parent, n)
         /\ \A h : Heights(W, parent, h) =>
              Root(parent, n) = n \/ h[Root(parent, n)] < h[n]
<1>1. parent \in [W -> W] /\ Cardinality(W) \in Nat /\ DOMAIN parent = W
  BY FS_CardinalityType DEF IsForest
<1>2. parent[n] = n => Root(parent, n) = n
  <2>1. SUFFICES ASSUME parent[n] = n PROVE Root(parent, n) \in {n}
    OBVIOUS
  <2>2. {n} \subseteq W /\ n \in {n} /\ \A m \in {n} : parent[m] \in {n}
    BY <2>1
  <2>3. QED
    BY <2>2, RootStays
<1>3. Root(parent, parent[n]) = Root(parent, n)
  <2>1. \A m : Root(parent, m) = Ancestor(parent, m, Cardinality(W))
    BY <1>1 DEF Root
  <2>2. /\ Ancestor(parent, n, Cardinality(W) + 1) = parent[Ancestor(parent, n, Cardinality(W))]
        /\ Ancestor(parent, n, Cardinality(W) + 1) = Ancestor(parent, parent[n], Cardinality(W))
    BY <1>1, AncestorIs
  <2>3. parent[Root(parent, n)] = Root(parent, n)
    BY RootIsReached
  <2>4. QED
    BY <2>1, <2>2, <2>3
<1>4. ASSUME NEW h, Heights(W, parent, h)
      PROVE  Root(parent, n) = n \/ h[Root(parent, n)] < h[n]
  <2> DEFINE S == {m \in W : m = n \/ h[m] < h[n]}
  <2>1. /\ h \in [W -> Nat]
        /\ \A m \in W : parent[m] # m => h[parent[m]] < h[m]
    BY <1>4 DEF Heights
  <2>2. \A m \in S : parent[m] \in S
    <3>1. SUFFICES ASSUME NEW m \in S, parent[m] # m PROVE parent[m] \in S
      OBVIOUS
    <3>2. m \in W /\ parent[m] \in W
      BY <1>1
    <3>3. h[m] \in Nat /\ h[parent[m]] \in Nat /\ h[n] \in Nat
      BY <2>1, <3>2
    <3>4. h[parent[m]] < h[m] /\ h[m] <= h[n]
      BY <2>1, <3>1, <3>2, <3>3
    <3>5. h[parent[m]] < h[n]
      BY <3>3, <3>4
    <3>6. QED
      BY <3>2, <3>5
  <2>3. S \subseteq W /\ n \in S
    OBVIOUS
  <2>4. \A m \in S : m = n \/ h[m] < h[n]
    OBVIOUS
  <2> HIDE DEF S
  <2>5. Root(parent, n) \in S
    BY <2>2, <2>3, RootStays
  <2>6. QED
    BY <2>4, <2>5
<1>5. QED
  BY <1>2, <1>3, <1>4

(* What is the same for a port and its parent, and a root at the roots, is *)
(* the root.                                                               *)
LEMMA RootsAreUnique ==
  ASSUME NEW W, NEW parent, IsForest(W, parent), NEW r \in [W -> W],
         \A n \in W : r[n] = r[parent[n]],
         \A n \in W : parent[n] = n => r[n] = n
  PROVE  \A n \in W : Root(parent, n) = r[n]
<1>1. SUFFICES ASSUME NEW n \in W PROVE Root(parent, n) = r[n]
  OBVIOUS
<1> DEFINE S == {m \in W : r[m] = r[n]}
<1>2. parent \in [W -> W]
  BY DEF IsForest
<1>3. \A m \in S : parent[m] \in S
  BY <1>2
<1>4. S \subseteq W /\ n \in S /\ \A m \in S : r[m] = r[n]
  OBVIOUS
<1> HIDE DEF S
<1>5. Root(parent, n) \in S
  BY <1>3, <1>4, RootStays
<1>6. Root(parent, n) \in W /\ parent[Root(parent, n)] = Root(parent, n)
  BY RootIsReached
<1>7. QED
  BY <1>4, <1>5, <1>6

(* To move a port to its root changes no root.                             *)
LEMMA RootsStay ==
  ASSUME NEW W, NEW parent, IsForest(W, parent), NEW next \in [W -> W],
         \A m \in W : next[m] = parent[m] \/ next[m] = Root(parent, m)
  PROVE  IsForest(W, next) /\ \A m \in W : Root(next, m) = Root(parent, m)
<1>1. PICK h : Heights(W, parent, h)
  BY DEF IsForest
<1>2. h \in [W -> Nat] /\ \A m \in W : parent[m] # m => h[parent[m]] < h[m]
  BY <1>1 DEF Heights
<1>3. \A m \in W : Root(parent, m) = m \/ h[Root(parent, m)] < h[m]
  BY <1>1, RootsAre
<1>4. \A m \in W : next[m] # m => h[next[m]] < h[m]
  BY <1>2, <1>3
<1>5. Heights(W, next, h)
  BY <1>2, <1>4 DEF Heights
<1>6. IsForest(W, next)
  BY <1>5 DEF IsForest
<1> DEFINE r == [m \in W |-> Root(parent, m)]
<1>7. \A m \in W : /\ Root(parent, m) \in W
                   /\ parent[Root(parent, m)] = Root(parent, m)
  BY RootIsReached
<1>8. \A m \in W : Root(parent, Root(parent, m)) = Root(parent, m)
  BY <1>7, RootsAre
<1>9. \A m \in W : /\ Root(parent, parent[m]) = Root(parent, m)
                   /\ parent[m] = m => Root(parent, m) = m
  BY RootsAre
<1>10. \A m \in W : Root(parent, m) = Root(parent, next[m])
  BY <1>8, <1>9
<1>11. \A m \in W : next[m] = m => Root(parent, m) = m
  BY <1>9
<1>12. /\ r \in [W -> W]
       /\ \A m \in W : r[m] = r[next[m]]
       /\ \A m \in W : next[m] = m => r[m] = m
  BY <1>7, <1>10, <1>11
<1>13. \A m \in W : r[m] = Root(parent, m)
  OBVIOUS
<1> HIDE DEF r
<1>14. \A m \in W : Root(next, m) = r[m]
  BY <1>6, <1>12, RootsAreUnique
<1>15. QED
  BY <1>6, <1>13, <1>14

(* To compress the path of a port changes no root.                         *)
LEMMA CompressingKeeps ==
  ASSUME NEW W, NEW parent, IsForest(W, parent), NEW n \in W
  PROVE  /\ IsForest(W, Compressed(parent, n))
         /\ \A m \in W : Root(Compressed(parent, n), m) = Root(parent, m)
<1> DEFINE K == Cardinality(W)
           path == {Ancestor(parent, n, i) : i \in 0..K}
           next == [m \in W |-> IF m \in path THEN Root(parent, n) ELSE parent[m]]
<1>1. parent \in [W -> W] /\ K \in Nat /\ DOMAIN parent = W
  BY FS_CardinalityType DEF IsForest
<1>2. Compressed(parent, n) = next
  BY <1>1 DEF Compressed
<1>3. \A m \in path : Root(parent, m) = Root(parent, n)
  <2> DEFINE S == {m \in W : Root(parent, m) = Root(parent, n)}
  <2>1. \A m \in S : parent[m] \in S
    BY <1>1, RootsAre
  <2>2. S \subseteq W /\ n \in S /\ \A m \in S : Root(parent, m) = Root(parent, n)
    OBVIOUS
  <2> HIDE DEF S
  <2>3. \A k \in Nat : Ancestor(parent, n, k) \in S
    BY <1>1, <2>1, <2>2, AncestorsStay
  <2>4. \A k \in 0..K : k \in Nat
    BY <1>1
  <2>5. QED
    BY <2>2, <2>3, <2>4
<1> HIDE DEF path
<1>4. Root(parent, n) \in W
  BY RootIsReached
<1>5. next \in [W -> W]
  BY <1>1, <1>4
<1>6. \A m \in W : next[m] = parent[m] \/ next[m] = Root(parent, m)
  BY <1>3
<1> HIDE DEF next
<1>7. QED
  BY <1>2, <1>5, <1>6, RootsStay

(* A root that gets another root for its parent takes its class along.     *)
LEMMA RootIsMoved ==
  ASSUME NEW W, NEW parent, IsForest(W, parent), NEW a \in W, NEW b \in W,
         parent[a] = a, parent[b] = b, a # b,
         NEW next \in [W -> W], next[a] = b, \A m \in W : m # a => next[m] = parent[m]
  PROVE  /\ IsForest(W, next)
         /\ \A m \in W : Root(next, m) = IF Root(parent, m) = a THEN b ELSE Root(parent, m)
<1>1. PICK h : Heights(W, parent, h)
  BY DEF IsForest
<1>2. h \in [W -> Nat] /\ \A m \in W : parent[m] # m => h[parent[m]] < h[m]
  BY <1>1 DEF Heights
<1>3. parent \in [W -> W] /\ IsFiniteSet(W)
  BY DEF IsForest
<1>4. \A m \in W : /\ Root(parent, m) \in W
                   /\ parent[Root(parent, m)] = Root(parent, m)
  BY RootIsReached
<1>5. \A m \in W : /\ Root(parent, parent[m]) = Root(parent, m)
                   /\ parent[m] = m => Root(parent, m) = m
  BY RootsAre
<1> DEFINE g == [m \in W |-> IF Root(parent, m) = a THEN (h[m] + h[b]) + 1 ELSE h[m]]
           r == [m \in W |-> IF Root(parent, m) = a THEN b ELSE Root(parent, m)]
<1>7. Root(parent, a) = a /\ Root(parent, b) = b
  BY <1>5
<1>8. \A m \in W : h[m] \in Nat
  BY <1>2
<1>9. \A m \in W : next[m] # m => g[next[m]] < g[m]
  <2>1. SUFFICES ASSUME NEW m \in W, next[m] # m PROVE g[next[m]] < g[m]
    OBVIOUS
  <2>2. CASE m = a
    <3>1. g[m] = (h[a] + h[b]) + 1 /\ g[next[m]] = h[b]
      BY <1>7, <2>2
    <3>2. QED
      BY <1>8, <3>1
  <2>3. CASE m # a
    <3>1. next[m] = parent[m] /\ parent[m] \in W /\ parent[m] # m
      BY <1>3, <2>1, <2>3
    <3>2. Root(parent, parent[m]) = Root(parent, m) /\ h[parent[m]] < h[m]
      BY <1>2, <1>5, <3>1
    <3>3. CASE Root(parent, m) = a
      <4>1. g[m] = (h[m] + h[b]) + 1 /\ g[next[m]] = (h[parent[m]] + h[b]) + 1
        BY <3>1, <3>2, <3>3
      <4>2. QED
        BY <1>8, <3>1, <3>2, <4>1
    <3>4. CASE Root(parent, m) # a
      <4>1. g[m] = h[m] /\ g[next[m]] = h[parent[m]]
        BY <3>1, <3>2, <3>4
      <4>2. QED
        BY <3>2, <4>1
    <3>5. QED
      BY <3>3, <3>4
  <2>4. QED
    BY <2>2, <2>3
<1>10. g \in [W -> Nat]
  BY <1>8
<1> HIDE DEF g
<1>11. IsForest(W, next)
  <2>1. Heights(W, next, g)
    BY <1>9, <1>10 DEF Heights
  <2>2. QED
    BY <1>3, <2>1 DEF IsForest
<1>12. \A m \in W : r[m] = r[next[m]]
  <2>1. SUFFICES ASSUME NEW m \in W PROVE r[m] = r[next[m]]
    OBVIOUS
  <2>2. CASE m = a
    BY <1>7, <2>2
  <2>3. CASE m # a
    <3>1. next[m] = parent[m] /\ parent[m] \in W
      BY <1>3, <2>3
    <3>2. Root(parent, parent[m]) = Root(parent, m)
      BY <1>5
    <3>3. QED
      BY <3>1, <3>2
  <2>4. QED
    BY <2>2, <2>3
<1>13. \A m \in W : next[m] = m => r[m] = m
  BY <1>5
<1>14. r \in [W -> W]
  BY <1>4
<1>15. \A m \in W : r[m] = IF Root(parent, m) = a THEN b ELSE Root(parent, m)
  OBVIOUS
<1> HIDE DEF r
<1>16. \A m \in W : Root(next, m) = r[m]
  BY <1>11, <1>12, <1>13, <1>14, RootsAreUnique
<1>17. QED
  BY <1>11, <1>15, <1>16

(* A wire joins the classes of its ends and no other.                      *)
LEMMA UnionJoins ==
  ASSUME NEW W, NEW parent, IsForest(W, parent), NEW w, w.from \in W, w.to \in W
  PROVE  /\ IsForest(W, Union(parent, w))
         /\ \A m \in W : Root(Union(parent, w), m) =
              IF Root(parent, m) = Root(parent, w.from) THEN Root(parent, w.to)
              ELSE Root(parent, m)
<1> DEFINE found == Compressed(Compressed(parent, w.from), w.to)
           a == Root(parent, w.from)
           b == Root(parent, w.to)
<1>1. /\ IsForest(W, Compressed(parent, w.from))
      /\ \A m \in W : Root(Compressed(parent, w.from), m) = Root(parent, m)
  BY CompressingKeeps
<1>2. /\ IsForest(W, found)
      /\ \A m \in W : Root(found, m) = Root(Compressed(parent, w.from), m)
  BY <1>1, CompressingKeeps
<1>3. \A m \in W : Root(found, m) = Root(parent, m)
  BY <1>1, <1>2
<1>4. Union(parent, w) = [found EXCEPT ![a] = b]
  BY DEF Union
<1> HIDE DEF found
<1>5. \A m \in W : Root(found, m) \in W /\ found[Root(found, m)] = Root(found, m)
  BY <1>2, RootIsReached
<1>6. a \in W /\ b \in W /\ found[a] = a /\ found[b] = b
  BY <1>3, <1>5
<1> HIDE DEF a, b
<1>7. CASE a = b
  <2>1. found \in [W -> W]
    BY <1>2 DEF IsForest
  <2>2. [found EXCEPT ![a] = b] = found
    BY <1>6, <1>7, <2>1
  <2>3. QED
    BY <1>2, <1>3, <1>4, <1>7, <2>2 DEF a, b
<1>8. CASE a # b
  <2> DEFINE next == Union(parent, w)
  <2>1. found \in [W -> W]
    BY <1>2 DEF IsForest
  <2>2. next \in [W -> W] /\ next[a] = b /\ \A m \in W : m # a => next[m] = found[m]
    BY <1>4, <1>6, <2>1
  <2> HIDE DEF next
  <2>3. /\ IsForest(W, next)
        /\ \A m \in W : Root(next, m) = IF Root(found, m) = a THEN b ELSE Root(found, m)
    BY <1>2, <1>6, <1>8, <2>2, RootIsMoved
  <2>4. QED
    BY <1>3, <2>3 DEF a, b, next
<1>9. QED
  BY <1>7, <1>8

-----------------------------------------------------------------------------
(* The wires, one after the other.                                         *)

(* Wires between ports of Z.                                               *)
WiresOn(Z) == [from : Z, to : Z]

(* The first k wires lead neither into S nor out of it.                    *)
Closed(wires, k, S) ==
  \A i \in 1..k : wires[i].from \in S <=> wires[i].to \in S

(* Finitely many ports are wired, the ends of every wire among them.       *)
LEMMA WiredIsFinite ==
  ASSUME NEW Z, NEW wires \in Seq(WiresOn(Z))
  PROVE  /\ IsFiniteSet(Wired(wires))
         /\ \A i \in 1..Len(wires) : /\ wires[i].from \in Wired(wires)
                                     /\ wires[i].to \in Wired(wires)
<1> DEFINE from == [i \in 1..Len(wires) |-> wires[i].from]
           to == [i \in 1..Len(wires) |-> wires[i].to]
           F == {wires[i].from : i \in 1..Len(wires)}
           T == {wires[i].to : i \in 1..Len(wires)}
<1>1. Len(wires) \in Nat /\ DOMAIN wires = 1..Len(wires)
  OBVIOUS
<1>2. IsFiniteSet(1..Len(wires))
  BY <1>1, FS_Interval
<1>3. from \in Surjection(1..Len(wires), F) /\ to \in Surjection(1..Len(wires), T)
  BY DEF Surjection
<1> HIDE DEF from, to
<1>4. IsFiniteSet(F) /\ IsFiniteSet(T)
  BY <1>2, <1>3, FS_Surjection
<1>5. Wired(wires) = F \cup T
  BY <1>1 DEF Wired
<1>6. \A i \in 1..Len(wires) : wires[i].from \in F /\ wires[i].to \in T
  OBVIOUS
<1> HIDE DEF F, T
<1>7. QED
  BY <1>4, <1>5, <1>6, FS_Union

(* Joining leaves every wired port with a wired parent.                    *)
LEMMA UnionIsParent ==
  ASSUME NEW W, IsFiniteSet(W), NEW parent \in [W -> W], NEW w, w.from \in W, w.to \in W
  PROVE  Union(parent, w) \in [W -> W]
<1>1. Cardinality(W) \in Nat
  BY FS_CardinalityType
<1>2. ASSUME NEW p \in [W -> W], NEW n \in W
      PROVE  Root(p, n) \in W /\ Compressed(p, n) \in [W -> W]
  <2>1. DOMAIN p = W
    OBVIOUS
  <2>2. Root(p, n) \in W
    BY <1>1, <2>1, AncestorIs DEF Root
  <2>3. QED
    BY <2>1, <2>2 DEF Compressed
<1>3. Compressed(parent, w.from) \in [W -> W]
  BY <1>2
<1>4. Compressed(Compressed(parent, w.from), w.to) \in [W -> W]
  BY <1>2, <1>3
<1>5. Root(parent, w.to) \in W
  BY <1>2
<1>6. QED
  BY <1>4, <1>5 DEF Union

(* The forest of a composition grows by one wire at a time.                *)
LEMMA FusionUnfolds ==
  ASSUME NEW Z, NEW wires \in Seq(WiresOn(Z))
  PROVE  \E joined :
           /\ joined[0] = [n \in Wired(wires) |-> n]
           /\ \A k \in 1..Len(wires) : joined[k] = Union(joined[k - 1], wires[k])
           /\ Fusion(wires) = joined[Len(wires)]
<1> DEFINE W == Wired(wires)
           X == [W -> W]
           start == [n \in W |-> n]
           step == [k \in 1..Len(wires) |-> [p \in X |-> Union(p, wires[k])]]
           Is(f) == f = [k \in 0..Len(wires) |->
                           IF k = 0 THEN start ELSE Union(f[k - 1], wires[k])]
           joined == CHOOSE f : Is(f)
<1>1. Fusion(wires) = joined[Len(wires)]
  BY DEF Fusion
<1>2. Len(wires) \in Nat
  OBVIOUS
<1>3. start \in X
  OBVIOUS
<1>4. step \in [1..Len(wires) -> [X -> X]]
  <2>1. \A k \in 1..Len(wires) : \A p \in X : Union(p, wires[k]) \in X
    BY WiredIsFinite, UnionIsParent
  <2>2. QED
    BY <2>1
<1>5. \A k \in 1..Len(wires) : \A p \in X : step[k][p] = Union(p, wires[k])
  OBVIOUS
<1> HIDE DEF X, start, step
<1>6. PICK f : Loops(f, X, start, Len(wires), step)
  BY <1>2, <1>3, <1>4, LoopExists
<1>7. /\ f \in [0..Len(wires) -> X] /\ f[0] = start
      /\ \A k \in 1..Len(wires) : f[k] = Union(f[k - 1], wires[k])
  <2>1. \A k \in 1..Len(wires) : k - 1 \in 0..Len(wires)
    BY <1>2
  <2>2. /\ f \in [0..Len(wires) -> X] /\ f[0] = start
        /\ \A k \in 1..Len(wires) : f[k] = step[k][f[k - 1]]
    BY <1>6 DEF Loops
  <2>3. QED
    BY <1>5, <2>1, <2>2
<1>8. Is(f)
  <2>1. \A k \in 0..Len(wires) : f[k] = IF k = 0 THEN start ELSE Union(f[k - 1], wires[k])
    BY <1>2, <1>7
  <2>2. QED
    BY <1>7, <2>1
<1>9. Is(joined)
  BY <1>8
<1>10. joined = [k \in 0..Len(wires) |->
                   IF k = 0 THEN start ELSE Union(joined[k - 1], wires[k])]
  BY <1>9
<1> HIDE DEF joined, Is
<1>11. joined[0] = start /\ \A k \in 1..Len(wires) : joined[k] = Union(joined[k - 1], wires[k])
  <2>1. 0 \in 0..Len(wires) /\ \A k \in 1..Len(wires) : k \in 0..Len(wires) /\ k # 0
    BY <1>2
  <2>2. QED
    BY <1>10, <2>1
<1>12. QED
  BY <1>1, <1>11 DEF start

(* After k wires: their ends are in one class, and a set they do not leave *)
(* is made of whole classes.                                               *)
Gathers(W, wires, k, parent) ==
  /\ IsForest(W, parent)
  /\ \A i \in 1..k : Root(parent, wires[i].from) = Root(parent, wires[i].to)
  /\ \A S : Closed(wires, k, S) =>
       \A m, n \in W : Root(parent, m) = Root(parent, n) => (m \in S <=> n \in S)

(* Without wires every port is a class of its own.                         *)
LEMMA NothingIsGathered ==
  ASSUME NEW W, IsFiniteSet(W), NEW wires, NEW start, start = [n \in W |-> n]
  PROVE  Gathers(W, wires, 0, start)
<1>1. start \in [W -> W] /\ \A n \in W : start[n] = n
  OBVIOUS
<1>2. Heights(W, start, [n \in W |-> 0])
  BY <1>1 DEF Heights
<1>3. IsForest(W, start)
  BY <1>1, <1>2 DEF IsForest
<1>4. \A n \in W : Root(start, n) = n
  BY <1>1, <1>3, RootsAre
<1>5. \A i \in 1..0 : FALSE
  OBVIOUS
<1>6. QED
  BY <1>3, <1>4, <1>5 DEF Gathers

(* One wire more.                                                          *)
LEMMA WireGathers ==
  ASSUME NEW W, NEW wires, NEW k \in Nat, NEW parent, Gathers(W, wires, k, parent),
         \A i \in 1..(k + 1) : wires[i].from \in W /\ wires[i].to \in W
  PROVE  Gathers(W, wires, k + 1, Union(parent, wires[k + 1]))
<1> DEFINE w == wires[k + 1]
           next == Union(parent, w)
<1>1. /\ IsForest(W, parent)
      /\ \A i \in 1..k : Root(parent, wires[i].from) = Root(parent, wires[i].to)
      /\ \A S : Closed(wires, k, S) =>
           \A m, n \in W : Root(parent, m) = Root(parent, n) => (m \in S <=> n \in S)
  BY DEF Gathers
<1>2. /\ k + 1 \in 1..(k + 1) /\ \A i \in 1..k : i \in 1..(k + 1)
      /\ \A i \in 1..(k + 1) : i = k + 1 \/ i \in 1..k
  OBVIOUS
<1>3. w.from \in W /\ w.to \in W
  BY <1>2
<1>4. /\ IsForest(W, next)
      /\ \A m \in W : Root(next, m) =
           IF Root(parent, m) = Root(parent, w.from) THEN Root(parent, w.to)
           ELSE Root(parent, m)
  BY <1>1, <1>3, UnionJoins
<1> HIDE DEF next
<1>5. \A i \in 1..(k + 1) : Root(next, wires[i].from) = Root(next, wires[i].to)
  <2>1. \A i \in 1..k : wires[i].from \in W /\ wires[i].to \in W
    BY <1>2
  <2>2. \A i \in 1..k : Root(next, wires[i].from) = Root(next, wires[i].to)
    BY <1>1, <1>4, <2>1
  <2>3. Root(next, w.from) = Root(next, w.to)
    BY <1>3, <1>4
  <2>4. QED
    BY <1>2, <2>2, <2>3
<1>6. ASSUME NEW S, Closed(wires, k + 1, S), NEW m \in W, NEW n \in W,
             Root(next, m) = Root(next, n)
      PROVE  m \in S <=> n \in S
  <2>1. Closed(wires, k, S) /\ (w.from \in S <=> w.to \in S)
    BY <1>2, <1>6 DEF Closed
  <2>2. \A x, y \in W : Root(parent, x) = Root(parent, y) => (x \in S <=> y \in S)
    BY <1>1, <2>1
  <2>3. ASSUME NEW x \in W, Root(parent, x) = Root(parent, w.from)
        PROVE  x \in S <=> w.to \in S
    BY <1>3, <2>1, <2>2, <2>3
  <2>4. QED
    BY <1>3, <1>4, <1>6, <2>2, <2>3
<1>7. QED
  BY <1>4, <1>5, <1>6 DEF Gathers, next

(* So the union-find gathers what the wires connect.                       *)
LEMMA FusionGathers ==
  ASSUME NEW Z, NEW wires \in Seq(WiresOn(Z))
  PROVE  Gathers(Wired(wires), wires, Len(wires), Fusion(wires))
<1> DEFINE W == Wired(wires)
<1>1. PICK joined :
        /\ joined[0] = [n \in W |-> n]
        /\ \A k \in 1..Len(wires) : joined[k] = Union(joined[k - 1], wires[k])
        /\ Fusion(wires) = joined[Len(wires)]
  BY FusionUnfolds
<1>2. /\ IsFiniteSet(W)
      /\ \A i \in 1..Len(wires) : wires[i].from \in W /\ wires[i].to \in W
  BY WiredIsFinite
<1>3. Len(wires) \in Nat
  OBVIOUS
<1> HIDE DEF W
<1> DEFINE bad == {k \in 0..Len(wires) : ~Gathers(W, wires, k, joined[k])}
<1>4. ASSUME bad # {} PROVE FALSE
  <2>1. PICK k \in bad : \A j \in bad : k <= j
    <3>1. bad \in SUBSET Nat
      OBVIOUS
    <3> HIDE DEF bad
    <3>2. QED
      BY <1>4, <3>1, LeastNatural
  <2>2. Gathers(W, wires, 0, joined[0])
    BY <1>1, <1>2, NothingIsGathered
  <2>3. k \in 0..Len(wires) /\ k # 0
    BY <2>1, <2>2
  <2>4. PICK l \in Nat : k = l + 1
    <3>1. k - 1 \in Nat /\ k = (k - 1) + 1
      BY <1>3, <2>3
    <3>2. QED
      BY <3>1
  <2>5. l \in 0..Len(wires) /\ l + 1 \in 1..Len(wires) /\ (l + 1) - 1 = l /\ l \notin bad
    BY <1>3, <2>1, <2>3, <2>4
  <2>6. Gathers(W, wires, l, joined[l])
    BY <2>5
  <2>7. \A i \in 1..(l + 1) : i \in 1..Len(wires)
    BY <1>3, <2>5
  <2>8. Gathers(W, wires, l + 1, Union(joined[l], wires[l + 1]))
    BY <1>2, <2>6, <2>7, WireGathers
  <2>9. joined[l + 1] = Union(joined[l], wires[l + 1])
    BY <1>1, <2>5
  <2>10. QED
    BY <2>1, <2>4, <2>8, <2>9
<1>5. Len(wires) \in 0..Len(wires)
  BY <1>3
<1>6. QED
  BY <1>1, <1>4, <1>5 DEF W

-----------------------------------------------------------------------------
(* The ports that wires connect.                                           *)

(* The ends of a wire.                                                     *)
Ends(wires, i) == {wires[i].from, wires[i].to}

(* The wires that end in S, and their ends.                                *)
EndingIn(wires, S) == {j \in DOMAIN wires : Ends(wires, j) \cap S # {}}

(* S and the ports one wire leads to from it.                              *)
Beyond(wires, S) == S \cup UNION {Ends(wires, i) : i \in EndingIn(wires, S)}

(* Connection grows by one step along the wires at a time.                 *)
LEMMA ConnectedUnfolds ==
  ASSUME NEW Z, NEW wires \in Seq(WiresOn(Z)), NEW n
  PROVE  \E within :
           /\ within[0] = {n}
           /\ \A k \in 1..Len(wires) : within[k] = Beyond(wires, within[k - 1])
           /\ ConnectedTo(wires, n) = within[Len(wires)]
<1> DEFINE X == SUBSET (Z \cup {n})
           step == [k \in 1..Len(wires) |-> [S \in X |-> Beyond(wires, S)]]
           Is(f) == f = [k \in 0..Len(wires) |->
                           IF k = 0 THEN {n} ELSE Beyond(wires, f[k - 1])]
           within == CHOOSE f : Is(f)
<1>1. ConnectedTo(wires, n) = within[Len(wires)]
  BY DEF ConnectedTo, Beyond, EndingIn, Ends
<1>2. Len(wires) \in Nat /\ DOMAIN wires = 1..Len(wires)
  OBVIOUS
<1>3. {n} \in X
  OBVIOUS
<1>4. \A S \in X : Beyond(wires, S) \in X
  <2>1. \A i \in DOMAIN wires : Ends(wires, i) \subseteq Z
    <3>1. \A i \in DOMAIN wires : wires[i] \in WiresOn(Z)
      OBVIOUS
    <3>2. \A w \in WiresOn(Z) : w.from \in Z /\ w.to \in Z
      BY DEF WiresOn
    <3>3. QED
      BY <3>1, <3>2 DEF Ends
  <2>2. QED
    BY <2>1 DEF Beyond, EndingIn
<1>5. step \in [1..Len(wires) -> [X -> X]]
  BY <1>4
<1>6. \A k \in 1..Len(wires) : \A S \in X : step[k][S] = Beyond(wires, S)
  OBVIOUS
<1> HIDE DEF X, step
<1>7. PICK f : Loops(f, X, {n}, Len(wires), step)
  BY <1>2, <1>3, <1>5, LoopExists
<1>8. /\ f \in [0..Len(wires) -> X] /\ f[0] = {n}
      /\ \A k \in 1..Len(wires) : f[k] = Beyond(wires, f[k - 1])
  <2>1. \A k \in 1..Len(wires) : k - 1 \in 0..Len(wires)
    BY <1>2
  <2>2. /\ f \in [0..Len(wires) -> X] /\ f[0] = {n}
        /\ \A k \in 1..Len(wires) : f[k] = step[k][f[k - 1]]
    BY <1>7 DEF Loops
  <2>3. QED
    BY <1>6, <2>1, <2>2
<1>9. Is(f)
  <2>1. \A k \in 0..Len(wires) : f[k] = IF k = 0 THEN {n} ELSE Beyond(wires, f[k - 1])
    BY <1>2, <1>8
  <2>2. QED
    BY <1>8, <2>1
<1>10. Is(within)
  BY <1>9
<1>11. within = [k \in 0..Len(wires) |->
                   IF k = 0 THEN {n} ELSE Beyond(wires, within[k - 1])]
  BY <1>10
<1> HIDE DEF within, Is
<1>12. /\ within[0] = {n}
       /\ \A k \in 1..Len(wires) : within[k] = Beyond(wires, within[k - 1])
  <2>1. 0 \in 0..Len(wires) /\ \A k \in 1..Len(wires) : k \in 0..Len(wires) /\ k # 0
    BY <1>2
  <2>2. QED
    BY <1>11, <2>1
<1>13. QED
  BY <1>1, <1>12

(* A set that nothing leads beyond is closed; so is one that all wires end *)
(* in that end in what it was made from.                                   *)
LEMMA WhenClosed ==
  ASSUME NEW Z, NEW wires \in Seq(WiresOn(Z)), NEW S
  PROVE  /\ Closed(wires, Len(wires), S) <=> Beyond(wires, S) = S
         /\ EndingIn(wires, S) \subseteq EndingIn(wires, Beyond(wires, S))
         /\ EndingIn(wires, Beyond(wires, S)) = EndingIn(wires, S)
              => Closed(wires, Len(wires), Beyond(wires, S))
<1>1. DOMAIN wires = 1..Len(wires)
  OBVIOUS
<1>2. \A T : Closed(wires, Len(wires), T) <=>
        \A i \in EndingIn(wires, T) : Ends(wires, i) \subseteq T
  BY <1>1 DEF Closed, EndingIn, Ends
<1>3. \A T : Beyond(wires, T) = T <=>
        \A i \in EndingIn(wires, T) : Ends(wires, i) \subseteq T
  BY DEF Beyond
<1>4. EndingIn(wires, S) \subseteq EndingIn(wires, Beyond(wires, S))
  BY DEF EndingIn, Beyond
<1>5. \A i \in EndingIn(wires, S) : Ends(wires, i) \subseteq Beyond(wires, S)
  BY DEF Beyond
<1>6. QED
  BY <1>2, <1>3, <1>4, <1>5

(* After as many steps as there are wires no wire leads further.           *)
LEMMA ConnectedIs ==
  ASSUME NEW Z, NEW wires \in Seq(WiresOn(Z)), NEW n
  PROVE  /\ n \in ConnectedTo(wires, n)
         /\ Closed(wires, Len(wires), ConnectedTo(wires, n))
         /\ \A S : n \in S /\ Closed(wires, Len(wires), S) => ConnectedTo(wires, n) \subseteq S
<1> DEFINE L == Len(wires)
<1>1. PICK within :
        /\ within[0] = {n}
        /\ \A k \in 1..L : within[k] = Beyond(wires, within[k - 1])
        /\ ConnectedTo(wires, n) = within[L]
  BY ConnectedUnfolds
<1>2. L \in Nat /\ DOMAIN wires = 1..L /\ L \in 0..L
  OBVIOUS
<1>3. \A S : EndingIn(wires, S) \subseteq 1..L
  BY <1>2 DEF EndingIn
<1>4. \A S : /\ IsFiniteSet(EndingIn(wires, S))
             /\ Cardinality(EndingIn(wires, S)) \in Nat
             /\ Cardinality(EndingIn(wires, S)) <= L
  <2>1. IsFiniteSet(1..L) /\ Cardinality(1..L) = L
    BY <1>2, FS_Interval
  <2>2. QED
    BY <1>3, <2>1, FS_Subset, FS_CardinalityType
<1>5. \A S : Closed(wires, L, S) <=> Beyond(wires, S) = S
  BY WhenClosed
<1> HIDE DEF L
<1> DEFINE Good(k) == /\ n \in within[k]
                      /\ \A S : n \in S /\ Closed(wires, L, S) => within[k] \subseteq S
                      /\ \/ Closed(wires, L, within[k])
                         \/ Cardinality(EndingIn(wires, within[k])) >= k + 1
<1>6. Good(0)
  <2>1. CASE EndingIn(wires, {n}) = {}
    <3>1. Beyond(wires, {n}) = {n}
      BY <2>1 DEF Beyond
    <3>2. QED
      BY <1>1, <1>5, <3>1
  <2>2. CASE EndingIn(wires, {n}) # {}
    <3>1. Cardinality(EndingIn(wires, {n})) # 0
      BY <1>4, <2>2, FS_EmptySet
    <3>2. Cardinality(EndingIn(wires, {n})) >= 0 + 1
      BY <1>4, <3>1
    <3>3. QED
      BY <1>1, <3>2
  <2>3. QED
    BY <2>1, <2>2
<1>7. ASSUME NEW k \in Nat, k + 1 \in 1..L, Good(k)
      PROVE  Good(k + 1)
  <2> DEFINE S == within[k]
  <2>1. within[k + 1] = Beyond(wires, S)
    <3>1. (k + 1) - 1 = k
      OBVIOUS
    <3>2. QED
      BY <1>1, <1>7, <3>1
  <2>2. n \in Beyond(wires, S)
    BY <1>7 DEF Beyond
  <2>3. \A T : n \in T /\ Closed(wires, L, T) => Beyond(wires, S) \subseteq T
    <3>1. SUFFICES ASSUME NEW T, n \in T, Closed(wires, L, T)
          PROVE  Beyond(wires, S) \subseteq T
      OBVIOUS
    <3>2. S \subseteq T
      BY <1>7, <3>1
    <3>3. Beyond(wires, T) = T
      BY <1>5, <3>1
    <3>4. Beyond(wires, S) \subseteq Beyond(wires, T)
      BY <3>2 DEF Beyond, EndingIn
    <3>5. QED
      BY <3>3, <3>4
  <2>4. \/ Closed(wires, L, Beyond(wires, S))
        \/ Cardinality(EndingIn(wires, Beyond(wires, S))) >= (k + 1) + 1
    <3>1. CASE Closed(wires, L, S)
      BY <1>5, <3>1
    <3>2. CASE EndingIn(wires, Beyond(wires, S)) = EndingIn(wires, S)
      BY <3>2, WhenClosed DEF L
    <3>3. CASE /\ ~Closed(wires, L, S)
               /\ EndingIn(wires, Beyond(wires, S)) # EndingIn(wires, S)
      <4>1. EndingIn(wires, S) \subseteq EndingIn(wires, Beyond(wires, S))
        BY WhenClosed
      <4>2. /\ Cardinality(EndingIn(wires, S)) <= Cardinality(EndingIn(wires, Beyond(wires, S)))
            /\ Cardinality(EndingIn(wires, S)) # Cardinality(EndingIn(wires, Beyond(wires, S)))
        BY <1>4, <3>3, <4>1, FS_Subset
      <4>3. Cardinality(EndingIn(wires, S)) >= k + 1
        BY <1>7, <3>3
      <4>4. /\ Cardinality(EndingIn(wires, S)) \in Nat
            /\ Cardinality(EndingIn(wires, Beyond(wires, S))) \in Nat
        BY <1>4
      <4>5. QED
        BY <4>2, <4>3, <4>4
    <3>4. QED
      BY <3>1, <3>2, <3>3
  <2> HIDE DEF S
  <2>5. QED
    BY <2>1, <2>2, <2>3, <2>4
<1> HIDE DEF Good
<1> DEFINE bad == {k \in 0..L : ~Good(k)}
<1>8. ASSUME bad # {} PROVE FALSE
  <2>1. PICK k \in bad : \A j \in bad : k <= j
    <3>1. bad \in SUBSET Nat
      OBVIOUS
    <3> HIDE DEF bad
    <3>2. QED
      BY <1>8, <3>1, LeastNatural
  <2>2. k \in 0..L /\ k # 0
    BY <1>6, <2>1
  <2>3. PICK l \in Nat : k = l + 1
    <3>1. k - 1 \in Nat /\ k = (k - 1) + 1
      BY <1>2, <2>2
    <3>2. QED
      BY <3>1
  <2>4. l \in 0..L /\ l + 1 \in 1..L /\ l \notin bad
    BY <1>2, <2>1, <2>2, <2>3
  <2>5. Good(l + 1)
    BY <1>7, <2>4
  <2>6. QED
    BY <2>1, <2>3, <2>5
<1>9. Good(L)
  BY <1>2, <1>8
<1>10. ~(Cardinality(EndingIn(wires, within[L])) >= L + 1)
  <2>1. /\ Cardinality(EndingIn(wires, within[L])) \in Nat
        /\ Cardinality(EndingIn(wires, within[L])) <= L
    BY <1>4
  <2>2. QED
    BY <1>2, <2>1
<1>11. QED
  BY <1>1, <1>9, <1>10 DEF Good, L

(* The class of a wired port are the ports wires connect it with; one that *)
(* no wire touches stays alone.                                            *)
LEMMA ClassIsConnected ==
  ASSUME NEW Z, NEW wires \in Seq(WiresOn(Z)), NEW n
  PROVE  /\ n \in Wired(wires) => FusedWith(Fusion(wires), n) = ConnectedTo(wires, n)
         /\ n \notin Wired(wires) => ConnectedTo(wires, n) = {n}
<1> DEFINE W == Wired(wires)
           C == ConnectedTo(wires, n)
           parent == Fusion(wires)
<1>1. \A i \in 1..Len(wires) : wires[i].from \in W /\ wires[i].to \in W
  BY WiredIsFinite
<1>2. /\ n \in C /\ Closed(wires, Len(wires), C)
      /\ \A S : n \in S /\ Closed(wires, Len(wires), S) => C \subseteq S
  BY ConnectedIs
<1>3. /\ IsForest(W, parent)
      /\ \A i \in 1..Len(wires) : Root(parent, wires[i].from) = Root(parent, wires[i].to)
      /\ \A S : Closed(wires, Len(wires), S) =>
           \A m, o \in W : Root(parent, m) = Root(parent, o) => (m \in S <=> o \in S)
  BY FusionGathers DEF Gathers
<1> HIDE DEF W, C, parent
<1>4. ASSUME n \notin W PROVE C = {n}
  <2>1. Closed(wires, Len(wires), {n})
    BY <1>1, <1>4 DEF Closed
  <2>2. QED
    BY <1>2, <2>1
<1>5. ASSUME n \in W PROVE FusedWith(parent, n) = C
  <2>1. DOMAIN parent = W
    BY <1>3 DEF IsForest
  <2>2. FusedWith(parent, n) = {m \in W : Root(parent, m) = Root(parent, n)}
    BY <2>1 DEF FusedWith
  <2>3. FusedWith(parent, n) \subseteq C
    BY <1>2, <1>3, <1>5, <2>2
  <2>4. Closed(wires, Len(wires), FusedWith(parent, n))
    BY <1>1, <1>3, <2>2 DEF Closed
  <2>5. n \in FusedWith(parent, n)
    BY <1>5, <2>2
  <2>6. QED
    BY <1>2, <2>3, <2>4, <2>5
<1>6. QED
  BY <1>4, <1>5 DEF W, C, parent

-----------------------------------------------------------------------------
(* What a composition uses and wires.                                      *)

(* The uses that can be written.                                           *)
UseRecords ==
  {[alias |-> s.alias, ref |-> s.ref] : s \in {x \in Statements : x.kind = "use"}}

(* The tables list uses and wires as they are written.                     *)
UsesListed(tb) ==
  /\ tb.uses \in Seq(UseRecords)
  /\ tb.wires \in Seq(WiresOn(STRING \X STRING))

(* A statement adds a use or a wire of its own kind, if any.               *)
LEMMA CollectingListsUses ==
  ASSUME NEW tb, DOMAIN tb = Fields, UsesListed(tb), NEW run, NEW s \in Statements
  PROVE  UsesListed(Collect(tb, run, s))
<1> DEFINE c == Collect(tb, run, s)
<1>1. IsStatement(s)
  BY ScriptsAssumption
<1>2. \A d : d.uses = tb.uses /\ d.wires = tb.wires => UsesListed(d)
  BY DEF UsesListed
<1>3. UsesListed(Refused(tb))
  BY <1>2 DEF Refused, Fields
<1>4. CASE \/ tb.refused
           \/ OfAComposition(s) # (KindOf(tb.header) = "composition")
           \/ ~ContributionAllowed(s)
  BY <1>3, <1>4 DEF Collect
<1>5. CASE /\ ~tb.refused /\ OfAComposition(s) = (KindOf(tb.header) = "composition")
           /\ ContributionAllowed(s)
  <2>1. CASE s.kind \in {"place", "transition"}
    <3>1. c = CollectDeclaration(tb, s)
      BY <1>5, <2>1 DEF Collect
    <3>2. c.uses = tb.uses /\ c.wires = tb.wires
      BY <3>1 DEF CollectDeclaration, Fields
    <3>3. QED
      BY <1>2, <3>2
  <2>2. CASE s.kind = "chain"
    <3>1. c = CollectChain(tb, run, s)
      BY <1>5, <2>2 DEF Collect
    <3>2. c = Refused(tb) \/ (c.uses = tb.uses /\ c.wires = tb.wires)
      BY <3>1 DEF CollectChain, Fields
    <3>3. QED
      BY <1>2, <1>3, <3>2
  <2>3. CASE s.kind = "fact"
    <3>1. c = CollectFact(tb, s)
      BY <1>5, <2>3 DEF Collect
    <3>2. c = Refused(tb) \/ (c.uses = tb.uses /\ c.wires = tb.wires)
      BY <3>1 DEF CollectFact, Fields
    <3>3. QED
      BY <1>2, <1>3, <3>2
  <2>4. CASE s.kind = "order"
    <3>1. c = CollectOrder(tb, s)
      BY <1>5, <2>4 DEF Collect
    <3>2. c = Refused(tb) \/ (c.uses = tb.uses /\ c.wires = tb.wires)
      BY <3>1 DEF CollectOrder, Fields
    <3>3. QED
      BY <1>2, <1>3, <3>2
  <2>5. CASE s.kind \in {"marking", "named"}
    <3>1. c = CollectMarking(tb, s) \/ c = CollectNamedMarking(tb, s)
      BY <1>5, <2>5 DEF Collect
    <3>2. c = Refused(tb) \/ (c.uses = tb.uses /\ c.wires = tb.wires)
      BY <3>1 DEF CollectMarking, CollectNamedMarking, Fields
    <3>3. QED
      BY <1>2, <1>3, <3>2
  <2>6. CASE s.kind = "use" /\ {s.alias, s.ref} \subseteq STRING
    <3> DEFINE use == [alias |-> s.alias, ref |-> s.ref]
    <3>1. c = CollectUse(tb, s)
      BY <1>5, <2>6 DEF Collect
    <3>2. use \in UseRecords
      BY <2>6 DEF UseRecords
    <3>3. Append(tb.uses, use) \in Seq(UseRecords)
      BY <3>2 DEF UsesListed
    <3> HIDE DEF use
    <3>4. UsesListed([tb EXCEPT !.uses = Append(@, use)])
      BY <3>3 DEF UsesListed, Fields
    <3>5. QED
      BY <1>3, <3>1, <3>4 DEF CollectUse, use
  <2>7. CASE s.kind = "wire" /\ {s.from, s.to} \subseteq STRING \X STRING
    <3> DEFINE wire == [from |-> s.from, to |-> s.to]
    <3>1. c = CollectWire(tb, s)
      BY <1>5, <2>7 DEF Collect
    <3>2. wire \in WiresOn(STRING \X STRING)
      BY <2>7 DEF WiresOn
    <3>3. Appear(tb.wires, wire) \in Seq(WiresOn(STRING \X STRING))
      BY <3>2 DEF UsesListed, Appear
    <3> HIDE DEF wire
    <3>4. UsesListed([tb EXCEPT !.wires = Appear(@, wire)])
      BY <3>3 DEF UsesListed, Fields
    <3>5. QED
      BY <1>3, <3>1, <3>4 DEF CollectWire, wire
  <2>8. QED
    BY <1>1, <2>1, <2>2, <2>3, <2>4, <2>5, <2>6, <2>7 DEF IsStatement, IsFact
<1>6. QED
  BY <1>4, <1>5

(* A header adds none.                                                     *)
LEMMA HeaderListsUses ==
  ASSUME NEW tb, DOMAIN tb = Fields, UsesListed(tb), NEW first, NEW header
  PROVE  UsesListed(CollectHeader(tb, first, header))
<1>1. \A d : d.uses = tb.uses /\ d.wires = tb.wires => UsesListed(d)
  BY DEF UsesListed
<1>2. LET c == CollectHeader(tb, first, header)
      IN  c.uses = tb.uses /\ c.wires = tb.wires
  BY DEF CollectHeader, Refused, Fields
<1>3. QED
  BY <1>1, <1>2

(* UsesListed, always: a compiler of compositions lists what it was given. *)
LEMMA UsesAreListed == Spec => []UsesListed(tables)
<1>1. Init => UsesListed(tables)
  <2>1. DOMAIN EmptyTables = Fields /\ EmptyTables.uses = <<>> /\ EmptyTables.wires = <<>>
    BY DEF EmptyTables, Fields
  <2>2. UsesListed(EmptyTables)
    BY <2>1 DEF UsesListed
  <2>3. QED
    BY <2>1, <2>2, HeaderListsUses DEF Init
<1>2. DocumentInv /\ UsesListed(tables) /\ [Next]_vars => UsesListed(tables)'
  <2>1. SUFFICES ASSUME DocumentInv, UsesListed(tables), [Next]_vars
        PROVE  UsesListed(tables')
    OBVIOUS
  <2>2. DOMAIN tables = Fields /\ sources \in Seq(SourceRecords) /\ Script \in Scripts
    BY <2>1 DEF DocumentInv, Collected, Script
  <2>3. ASSUME NEW s \in Upcoming(Script), Write(s) PROVE UsesListed(tables')
    <3>1. s \in Statements
      BY <2>2, UpcomingIsStatement
    <3>2. \E run : tables' = Collect(tables, run, s)
      BY <2>3 DEF Write
    <3>3. QED
      BY <2>1, <2>2, <3>1, <3>2, CollectingListsUses
  <2>4. ASSUME NEW header \in Script.further, NextSource(header)
        PROVE  UsesListed(tables')
    BY <2>1, <2>2, <2>4, HeaderListsUses DEF NextSource
  <2>5. CASE Resolve \/ UNCHANGED vars
    BY <2>1, <2>5 DEF Resolve, vars
  <2>6. QED
    BY <2>1, <2>3, <2>4, <2>5 DEF Next
<1>3. QED
  BY <1>1, <1>2, DocumentIsSound, PTL DEF Spec

(* A resolved composition is one the tables list, and valid.               *)
LEMMA ResolvedIsListed ==
  ASSUME DocumentInv, UsesListed(tables), NEW c \in ResolvedCompositions
  PROVE  /\ c.uses \in Seq(UseRecords)
         /\ c.wires \in Seq(WiresOn(STRING \X STRING))
         /\ ValidComposition(c.uses, c.wires)
<1>1. KindOf(sources[1].header) = "composition" /\ \E o \in document : c \in o.result
  BY DEF ResolvedCompositions, Outcomes
<1>2. c \in Outcome(tables).result
  BY <1>1 DEF DocumentInv
<1>3. ~tables.refused
  BY <1>2 DEF Outcome, NetOutcome, CompositionOutcome
<1>4. KindOf(tables.header) = "composition"
  BY <1>1, <1>3 DEF DocumentInv, Collected, Sound, HeaderAgrees
<1>5. c \in CompositionOutcome(tables).result
  BY <1>2, <1>4 DEF Outcome
<1>6. /\ ValidComposition(tables.uses, tables.wires)
      /\ c = [uses |-> tables.uses, wires |-> tables.wires]
  BY <1>5 DEF CompositionOutcome
<1>7. QED
  BY <1>6 DEF UsesListed

-----------------------------------------------------------------------------
(* The nets a valid composition uses, and their ports.                     *)

(* A composition as ResolvedIsListed says it is.                           *)
Composed(uses, wires) ==
  /\ uses \in Seq(UseRecords)
  /\ wires \in Seq(WiresOn(STRING \X STRING))
  /\ ValidComposition(uses, wires)

(* The net a use stands for, and its ports.                                *)
NetAt(uses, i) == Library[uses[i].ref]

PortAt(uses, i, k) == <<uses[i].alias, NetAt(uses, i).places[k].name>>

(* The only element.                                                       *)
LEMMA ElemOfOne ==
  ASSUME NEW S, NEW x \in S, \A y \in S : y = x
  PROVE  Elem(S) = x
BY DEF Elem

(* What each use stands for.                                               *)
LEMMA UsedNets ==
  ASSUME NEW uses, NEW wires, Composed(uses, wires), NEW i \in DOMAIN uses
  PROVE  /\ IsNet(NetAt(uses, i)) /\ ValidNet(NetAt(uses, i))
         /\ UsedNet(uses, uses[i].alias) = NetAt(uses, i)
         /\ \A j \in DOMAIN uses : uses[j].alias = uses[i].alias => j = i
<1>1. /\ uses[i].ref \in DOMAIN Library /\ ValidNet(Library[uses[i].ref])
      /\ \A k, j \in DOMAIN uses : uses[k].alias = uses[j].alias => k = j
  BY DEF Composed, ValidComposition, Parses
<1>2. IsNet(NetAt(uses, i))
  BY <1>1, LibraryAssumption DEF NetAt
<1>3. Elem({u \in Seqs!ToSet(uses) : u.alias = uses[i].alias}) = uses[i]
  <2> DEFINE U == {u \in Seqs!ToSet(uses) : u.alias = uses[i].alias}
  <2>1. \A u : u \in U <=> (\E j \in DOMAIN uses : u = uses[j]) /\ u.alias = uses[i].alias
    BY ToSetIsElements DEF Elements
  <2> HIDE DEF U
  <2>2. uses[i] \in U /\ \A u \in U : u = uses[i]
    BY <1>1, <2>1
  <2>3. Elem(U) = uses[i]
    BY <2>2, ElemOfOne
  <2>4. QED
    BY <2>3 DEF U
<1>4. UsedNet(uses, uses[i].alias) = NetAt(uses, i)
  BY <1>3 DEF UsedNet, NetAt
<1>5. QED
  BY <1>1, <1>2, <1>4 DEF NetAt

(* The places of a net: lists, each with a name of its own.                *)
LEMMA PlacesOfNet ==
  ASSUME NEW net, IsNet(net), ValidNet(net)
  PROVE  /\ net.places \in Seq(Elements(net.places))
         /\ \A k \in DOMAIN net.places, l \in DOMAIN net.places :
              net.places[k].name = net.places[l].name => k = l
         /\ \A k \in DOMAIN net.places :
              /\ DOMAIN net.places[k] = {"name", "accepts", "port", "capacity", "attributes"}
              /\ net.places[k].accepts \in Seq(Elements(net.places[k].accepts))
              /\ PlaceOf(net, net.places[k].name) = net.places[k]
              /\ PortsOf(net, net.places[k].name) = net.places[k].port
<1>1. /\ net.places \in Seq(Elements(net.places))
      /\ \A place \in Elements(net.places) :
           /\ DOMAIN place = {"name", "accepts", "port", "capacity", "attributes"}
           /\ place.accepts \in Seq(Elements(place.accepts))
  BY ToSetIsElements DEF IsNet, IsList, Elements
<1>2. \A k \in DOMAIN net.places, l \in DOMAIN net.places :
         net.places[k].name = net.places[l].name => k = l
  BY DEF ValidNet, StructureValid, NamesUnique
<1>3. ASSUME NEW k \in DOMAIN net.places
      PROVE  /\ PlaceOf(net, net.places[k].name) = net.places[k]
             /\ PortsOf(net, net.places[k].name) = net.places[k].port
  <2> DEFINE same == {x \in Seqs!ToSet(net.places) : x.name = net.places[k].name}
  <2>1. \A x : x \in same <=>
           (\E l \in DOMAIN net.places : x = net.places[l]) /\ x.name = net.places[k].name
    BY ToSetIsElements DEF Elements
  <2>2. PlaceOf(net, net.places[k].name) = Elem(same)
    BY DEF PlaceOf
  <2>3. PortsOf(net, net.places[k].name) = UNION {x.port : x \in same}
    BY DEF PortsOf
  <2> HIDE DEF same
  <2>4. net.places[k] \in same /\ \A x \in same : x = net.places[k]
    BY <1>2, <2>1
  <2>5. same = {net.places[k]}
    BY <2>4
  <2>6. QED
    BY <2>2, <2>3, <2>4, <2>5, ElemOfOne
<1>4. \A k \in DOMAIN net.places : net.places[k] \in Elements(net.places)
  BY DEF Elements
<1>5. QED
  BY <1>1, <1>2, <1>3, <1>4

(* Every port is a place of one use, and listed in the order of names.     *)
LEMMA PortsAre ==
  ASSUME NEW uses, NEW wires, Composed(uses, wires)
  PROVE  /\ \A n : n \in PortsIn(uses) <=>
              \E i \in DOMAIN uses : \E k \in DOMAIN NetAt(uses, i).places :
                n = PortAt(uses, i, k)
         /\ \A i \in DOMAIN uses, j \in DOMAIN uses :
              \A k \in DOMAIN NetAt(uses, i).places, l \in DOMAIN NetAt(uses, j).places :
                PortAt(uses, i, k) = PortAt(uses, j, l) => i = j /\ k = l
         /\ \A i \in DOMAIN uses : \A k \in DOMAIN NetAt(uses, i).places :
              /\ QPlace(uses, PortAt(uses, i, k)) = NetAt(uses, i).places[k]
              /\ IsOutput(uses, PortAt(uses, i, k)) <=>
                   \E port \in NetAt(uses, i).places[k].port : port.direction = "output"
         /\ PortsIn(uses) \subseteq Elements(PortOrder)
<1>1. \A n : n \in PortsIn(uses) <=>
         \E i \in DOMAIN uses : \E k \in DOMAIN NetAt(uses, i).places :
           n = PortAt(uses, i, k)
  BY DEF PortsIn, NamesIn, NetAt, PortAt
<1>2. \A i \in DOMAIN uses :
         /\ IsNet(NetAt(uses, i)) /\ ValidNet(NetAt(uses, i))
         /\ UsedNet(uses, uses[i].alias) = NetAt(uses, i)
         /\ \A j \in DOMAIN uses : uses[j].alias = uses[i].alias => j = i
  BY UsedNets
<1>3. \A i \in DOMAIN uses : \A k \in DOMAIN NetAt(uses, i).places :
         /\ PortAt(uses, i, k)[1] = uses[i].alias
         /\ PortAt(uses, i, k)[2] = NetAt(uses, i).places[k].name
  BY DEF PortAt
<1>4. ASSUME NEW i \in DOMAIN uses, NEW j \in DOMAIN uses,
             NEW k \in DOMAIN NetAt(uses, i).places,
             NEW l \in DOMAIN NetAt(uses, j).places,
             PortAt(uses, i, k) = PortAt(uses, j, l)
      PROVE  i = j /\ k = l
  <2>1. uses[j].alias = uses[i].alias
    BY <1>3, <1>4
  <2>2. i = j
    BY <1>2, <2>1
  <2>3. NetAt(uses, i).places[k].name = NetAt(uses, i).places[l].name
    BY <1>3, <1>4, <2>2
  <2>4. QED
    BY <1>2, <2>2, <2>3, PlacesOfNet
<1>5. ASSUME NEW i \in DOMAIN uses, NEW k \in DOMAIN NetAt(uses, i).places
      PROVE  /\ QPlace(uses, PortAt(uses, i, k)) = NetAt(uses, i).places[k]
             /\ IsOutput(uses, PortAt(uses, i, k)) <=>
                  \E port \in NetAt(uses, i).places[k].port : port.direction = "output"
             /\ PortAt(uses, i, k) \in Elements(PortOrder)
  <2> DEFINE net == NetAt(uses, i)
             n == PortAt(uses, i, k)
  <2>1. /\ PlaceOf(net, net.places[k].name) = net.places[k]
        /\ PortsOf(net, net.places[k].name) = net.places[k].port
    BY <1>2, PlacesOfNet
  <2>2. UsedNet(uses, n[1]) = net /\ n[2] = net.places[k].name
    BY <1>2, <1>3
  <2>3. n \in Elements(PortOrder)
    <3>1. uses[i] \in UseRecords /\ uses[i].ref \in DOMAIN Library
      BY DEF Composed, ValidComposition
    <3>2. PICK s \in Statements : s.kind = "use" /\ uses[i] = [alias |-> s.alias, ref |-> s.ref]
      BY <3>1 DEF UseRecords
    <3>3. s.ref \in DOMAIN Library /\ net = Library[s.ref] /\ s.alias = uses[i].alias
      BY <3>1, <3>2 DEF NetAt
    <3>4. {s.alias} \X NamesIn(Library[s.ref].places) \subseteq Elements(PortOrder)
      BY <3>2, <3>3, PortsAssumption, ToSetIsElements
    <3>5. net.places[k].name \in NamesIn(net.places)
      BY DEF NamesIn
    <3> HIDE DEF net
    <3>6. <<s.alias, net.places[k].name>> \in {s.alias} \X NamesIn(Library[s.ref].places)
      BY <3>3, <3>5
    <3>7. n = <<s.alias, net.places[k].name>>
      BY <3>3 DEF PortAt, net
    <3>8. QED
      BY <3>4, <3>6, <3>7
  <2> HIDE DEF n, net
  <2>4. /\ QPlace(uses, n) = net.places[k]
        /\ IsOutput(uses, n) <=> \E port \in net.places[k].port : port.direction = "output"
    BY <2>1, <2>2 DEF QPlace, IsOutput
  <2>5. QED
    BY <2>3, <2>4 DEF n, net
<1>6. PortsIn(uses) \subseteq Elements(PortOrder)
  BY <1>1, <1>5
<1>7. QED
  BY <1>1, <1>4, <1>5, <1>6

(* Wires run between ports, and from outputs.                              *)
LEMMA WiresRunBetweenPorts ==
  ASSUME NEW uses, NEW wires, Composed(uses, wires), NEW i \in DOMAIN wires
  PROVE  wires[i].from \in PortsIn(uses) /\ wires[i].to \in PortsIn(uses)
         /\ IsOutput(uses, wires[i].from)
<1> DEFINE w == wires[i]
<1>1. ValidWire(uses, w) /\ w \in WiresOn(STRING \X STRING)
  BY DEF Composed, ValidComposition
<1>2. w.from \in STRING \X STRING /\ w.to \in STRING \X STRING
  BY <1>1 DEF WiresOn
<1> HIDE DEF w
<1>3. ASSUME NEW n \in STRING \X STRING, n[1] \in Aliases(uses),
             NEW direction, WirePort(uses, n, direction) # {}
      PROVE  n \in PortsIn(uses)
  <2>1. PICK j \in DOMAIN uses : n[1] = uses[j].alias
    BY <1>3 DEF Aliases
  <2>2. UsedNet(uses, n[1]) = NetAt(uses, j)
    BY <2>1, UsedNets
  <2>3. \E y \in Seqs!ToSet(NetAt(uses, j).places) : y.name = n[2]
    BY <1>3, <2>2 DEF WirePort, PortsOf
  <2>4. PICK k \in DOMAIN NetAt(uses, j).places : NetAt(uses, j).places[k].name = n[2]
    BY <2>3, ToSetIsElements DEF Elements
  <2>5. n = <<n[1], n[2]>>
    BY <1>3
  <2>6. n = PortAt(uses, j, k)
    BY <2>1, <2>4, <2>5 DEF PortAt
  <2>7. QED
    BY <2>6, PortsAre
<1>4. /\ w.from[1] \in Aliases(uses) /\ w.to[1] \in Aliases(uses)
      /\ WirePort(uses, w.from, "output") # {} /\ WirePort(uses, w.to, "input") # {}
  BY <1>1 DEF ValidWire
<1>5. IsOutput(uses, w.from)
  BY <1>4 DEF IsOutput, WirePort
<1>6. w.from \in PortsIn(uses) /\ w.to \in PortsIn(uses)
  BY <1>2, <1>3, <1>4
<1>7. QED
  BY <1>5, <1>6 DEF w

(* Two ports are renamed to the same place exactly when wires connect them. *)
LEMMA NamesFollowWires ==
  ASSUME NEW uses, NEW wires, Composed(uses, wires),
         NEW rewrite, rewrite = RewriteMap(uses, Fusion(wires))
  PROVE  /\ DOMAIN rewrite = Wired(wires) /\ Wired(wires) \subseteq PortsIn(uses)
         /\ \A n : ConnectedTo(wires, n) \subseteq Wired(wires) \cup {n}
         /\ \A m, n : Renamed(rewrite, m) = Renamed(rewrite, n) <=> m \in ConnectedTo(wires, n)
<1> DEFINE W == Wired(wires)
           parent == Fusion(wires)
<1>1. wires \in Seq(WiresOn(STRING \X STRING)) /\ DOMAIN wires = 1..Len(wires)
  BY DEF Composed
<1>2. /\ DOMAIN parent = W
      /\ \A i \in DOMAIN wires : Root(parent, wires[i].from) = Root(parent, wires[i].to)
  BY <1>1, FusionGathers DEF Gathers, IsForest
<1>3. \A i \in DOMAIN wires : wires[i].from \in W /\ wires[i].to \in W
  BY <1>1, WiredIsFinite
<1>4. \A n \in W : \E i \in DOMAIN wires : n = wires[i].from \/ n = wires[i].to
  BY DEF Wired
<1>5. \A n : /\ n \in W => FusedWith(parent, n) = ConnectedTo(wires, n)
             /\ n \notin W => ConnectedTo(wires, n) = {n}
  BY <1>1, ClassIsConnected
<1>6. \A n \in W : FusedWith(parent, n) = {m \in W : Root(parent, m) = Root(parent, n)}
  BY <1>2 DEF FusedWith
<1>7. /\ DOMAIN rewrite = W
      /\ \A n \in W : rewrite[n] = {m \in FusedWith(parent, n) : IsOutput(uses, m)}
  BY <1>2 DEF RewriteMap
<1>8. \A i \in DOMAIN wires : /\ wires[i].from \in PortsIn(uses) /\ wires[i].to \in PortsIn(uses)
                              /\ IsOutput(uses, wires[i].from)
  BY WiresRunBetweenPorts
<1> HIDE DEF W, parent
<1>9. W \subseteq PortsIn(uses)
  BY <1>4, <1>8
<1>10. \A n \in W : \E m \in W : m \in rewrite[n] /\ Root(parent, m) = Root(parent, n)
  <2>1. SUFFICES ASSUME NEW n \in W
        PROVE  \E m \in W : m \in rewrite[n] /\ Root(parent, m) = Root(parent, n)
    OBVIOUS
  <2>2. PICK i \in DOMAIN wires : n = wires[i].from \/ n = wires[i].to
    BY <1>4
  <2>3. wires[i].from \in W /\ Root(parent, wires[i].from) = Root(parent, n)
    BY <1>2, <1>3, <2>2
  <2>4. wires[i].from \in rewrite[n]
    BY <1>6, <1>7, <1>8, <2>3
  <2>5. QED
    BY <2>3, <2>4
<1>11. \A n \in W : \A m \in rewrite[n] : m \in W /\ Root(parent, m) = Root(parent, n)
  BY <1>6, <1>7
<1>12. \A n : Renamed(rewrite, n) = IF n \in W THEN rewrite[n] ELSE {n}
  BY <1>7 DEF Renamed
<1>13. \A m \in W, n \in W : rewrite[m] = rewrite[n] <=> m \in ConnectedTo(wires, n)
  <2>1. SUFFICES ASSUME NEW m \in W, NEW n \in W
        PROVE  rewrite[m] = rewrite[n] <=> Root(parent, m) = Root(parent, n)
    BY <1>5, <1>6
  <2>2. ASSUME rewrite[m] = rewrite[n] PROVE Root(parent, m) = Root(parent, n)
    BY <1>10, <1>11, <2>2
  <2>3. ASSUME Root(parent, m) = Root(parent, n) PROVE rewrite[m] = rewrite[n]
    BY <1>6, <1>7, <2>3
  <2>4. QED
    BY <2>2, <2>3
<1>14. \A m \in W : \A n : n \notin W => rewrite[m] # {n}
  BY <1>10, <1>11
<1>15. \A n : ConnectedTo(wires, n) \subseteq W \cup {n}
  BY <1>5, <1>6
<1>16. ASSUME NEW m, NEW n
       PROVE  Renamed(rewrite, m) = Renamed(rewrite, n) <=> m \in ConnectedTo(wires, n)
  <2>1. CASE m \in W /\ n \in W
    BY <1>12, <1>13, <2>1
  <2>2. CASE m \notin W /\ n \in W
    <3>1. ConnectedTo(wires, n) \subseteq W
      BY <1>15, <2>2
    <3>2. QED
      BY <1>12, <1>14, <2>2, <3>1
  <2>3. CASE n \notin W
    BY <1>5, <1>12, <1>14, <2>3
  <2>4. QED
    BY <2>1, <2>2, <2>3
<1>17. QED
  BY <1>7, <1>9, <1>15, <1>16 DEF W

-----------------------------------------------------------------------------
(* The places of the merged net.                                           *)

(* What a port's place in the merged net is.                               *)
StandsFor(uses, wires, rewrite, n, place) ==
  /\ place.name = Renamed(rewrite, n)
  /\ Elements(place.accepts) =
       UNION {Elements(QPlace(uses, m).accepts) : m \in ConnectedTo(wires, n)}
  /\ place.port = IF n \in Wired(wires) THEN {} ELSE QPlace(uses, n).port

(* Every unwired place of a used net is kept, and no other.                *)
LEMMA UnwiredStand ==
  ASSUME NEW uses, NEW wires, Composed(uses, wires),
         NEW rewrite, rewrite = RewriteMap(uses, Fusion(wires)),
         NEW i \in DOMAIN uses, NEW kept, kept = UnwiredPlaces(uses[i], rewrite)
  PROVE  /\ kept \in Seq(Elements(kept))
         /\ \A j \in DOMAIN kept : \E k \in DOMAIN NetAt(uses, i).places :
              /\ PortAt(uses, i, k) \notin Wired(wires)
              /\ StandsFor(uses, wires, rewrite, PortAt(uses, i, k), kept[j])
         /\ \A k \in DOMAIN NetAt(uses, i).places : PortAt(uses, i, k) \notin Wired(wires) =>
              \E j \in DOMAIN kept :
                StandsFor(uses, wires, rewrite, PortAt(uses, i, k), kept[j])
         /\ \A j \in DOMAIN kept, l \in DOMAIN kept : kept[j].name = kept[l].name => j = l
<1> DEFINE places == NetAt(uses, i).places
           c == {k \in DOMAIN places : PortAt(uses, i, k) \notin Wired(wires)}
           t == Subsequence(places, c)
           place(k) == QualifiedPlace(uses[i].alias, places[k])
<1>1. IsNet(NetAt(uses, i)) /\ ValidNet(NetAt(uses, i))
  BY UsedNets
<1>2. /\ places \in Seq(Elements(places))
      /\ \A k \in DOMAIN places, l \in DOMAIN places : places[k].name = places[l].name => k = l
      /\ \A k \in DOMAIN places :
           DOMAIN places[k] = {"name", "accepts", "port", "capacity", "attributes"}
  BY <1>1, PlacesOfNet
<1>3. /\ DOMAIN rewrite = Wired(wires)
      /\ \A n : ConnectedTo(wires, n) \subseteq Wired(wires) \cup {n}
      /\ \A m, n : Renamed(rewrite, m) = Renamed(rewrite, n) <=> m \in ConnectedTo(wires, n)
  BY NamesFollowWires
<1>4. \A k \in DOMAIN places : QPlace(uses, PortAt(uses, i, k)) = places[k]
  BY PortsAre
<1>5. kept = [j \in DOMAIN t |-> QualifiedPlace(uses[i].alias, t[j])]
  <2>1. c = {j \in DOMAIN places : <<uses[i].alias, places[j].name>> \notin DOMAIN rewrite}
    BY <1>3 DEF PortAt
  <2>2. kept = LET old == Subsequence(places, {j \in DOMAIN places :
                            <<uses[i].alias, places[j].name>> \notin DOMAIN rewrite})
               IN  [j \in DOMAIN old |-> QualifiedPlace(uses[i].alias, old[j])]
    BY DEF UnwiredPlaces, NetAt
  <2>3. QED
    BY <2>1, <2>2
<1>6. c \in SUBSET DOMAIN places /\ \A k \in DOMAIN places : k \in c <=> PortAt(uses, i, k) \notin Wired(wires)
  OBVIOUS
<1>7. \A k \in DOMAIN places :
         /\ place(k).name = {PortAt(uses, i, k)}
         /\ place(k).accepts = places[k].accepts
         /\ place(k).port = places[k].port
  BY <1>2 DEF QualifiedPlace, PortAt
<1> HIDE DEF places, c, place
<1>8. /\ Cardinality(c) \in Nat
      /\ t \in Seq(Elements(places)) /\ Len(t) = Cardinality(c)
      /\ \A k \in c : Rank(c, k) \in 1..Cardinality(c) /\ t[Rank(c, k)] = places[k]
      /\ \A n \in 1..Cardinality(c) : \E k \in c : Rank(c, k) = n /\ t[n] = places[k]
  BY <1>2, <1>6, SubsequenceAt
<1> HIDE DEF t
<1>9. DOMAIN t = 1..Cardinality(c) /\ DOMAIN kept = DOMAIN t
  BY <1>5, <1>8
<1>10. kept \in Seq(Elements(kept))
  <2>1. \A j \in DOMAIN kept : kept[j] \in Elements(kept)
    BY DEF Elements
  <2>2. QED
    BY <1>5, <1>8, <1>9, <2>1
<1>11. \A k \in c : StandsFor(uses, wires, rewrite, PortAt(uses, i, k), place(k))
  <2>1. SUFFICES ASSUME NEW k \in c
        PROVE  StandsFor(uses, wires, rewrite, PortAt(uses, i, k), place(k))
    OBVIOUS
  <2> DEFINE n == PortAt(uses, i, k)
  <2>2. k \in DOMAIN places /\ n \notin Wired(wires)
    BY <1>6
  <2>3. QPlace(uses, n) = places[k]
    BY <1>4, <2>2
  <2>4. /\ place(k).name = {n} /\ place(k).accepts = places[k].accepts
        /\ place(k).port = places[k].port
    BY <1>7, <2>2
  <2> HIDE DEF n
  <2>5. ConnectedTo(wires, n) = {n}
    BY <1>3, <2>2
  <2>6. Renamed(rewrite, n) = {n}
    BY <1>3, <2>2 DEF Renamed
  <2>7. StandsFor(uses, wires, rewrite, n, place(k))
    BY <2>2, <2>3, <2>4, <2>5, <2>6 DEF StandsFor
  <2>8. QED
    BY <2>7 DEF n
<1>12. \A j \in DOMAIN kept : \E k \in c : Rank(c, k) = j /\ kept[j] = place(k)
  BY <1>5, <1>8, <1>9 DEF place
<1>13. \A k \in c : Rank(c, k) \in DOMAIN kept /\ kept[Rank(c, k)] = place(k)
  BY <1>5, <1>8, <1>9 DEF place
<1>14. ASSUME NEW j \in DOMAIN kept, NEW l \in DOMAIN kept, kept[j].name = kept[l].name
       PROVE  j = l
  <2>1. PICK a \in c : Rank(c, a) = j /\ kept[j] = place(a)
    BY <1>12
  <2>2. PICK b \in c : Rank(c, b) = l /\ kept[l] = place(b)
    BY <1>12
  <2>3. PortAt(uses, i, a) = PortAt(uses, i, b)
    BY <1>6, <1>7, <1>14, <2>1, <2>2
  <2>4. a = b
    BY <1>6, <2>3, PortsAre DEF places
  <2>5. QED
    BY <2>1, <2>2, <2>4
<1>15. QED
  BY <1>6, <1>10, <1>11, <1>12, <1>13, <1>14 DEF places

(* The elements of lists taken together, each once.                        *)
LEMMA AcceptedTogether ==
  ASSUME NEW lists, NEW n \in Nat, DOMAIN lists = 1..n, lists = [i \in 1..n |-> lists[i]],
         \A i \in 1..n : lists[i] \in Seq(Elements(lists[i]))
  PROVE  Elements(FirstOf(Seqs!FlattenSeq(lists))) = UNION {Elements(lists[i]) : i \in 1..n}
<1> DEFINE S == UNION {Elements(lists[i]) : i \in 1..n}
<1>1. \A i \in 1..n : Elements(lists[i]) \subseteq S
  OBVIOUS
<1>2. \A i \in 1..n : lists[i] \in Seq(S)
  <2>1. SUFFICES ASSUME NEW i \in 1..n PROVE lists[i] \in Seq(S)
    OBVIOUS
  <2>2. lists[i] \in Seq(Elements(lists[i]))
    OBVIOUS
  <2>3. QED
    BY <1>1, <2>2
<1> HIDE DEF S
<1>3. lists \in Seq(Seq(S))
  BY <1>2
<1>4. /\ Seqs!FlattenSeq(lists) \in Seq(S)
      /\ Elements(Seqs!FlattenSeq(lists)) = UNION {Elements(lists[i]) : i \in DOMAIN lists}
  BY <1>3, FlattenedElements
<1>5. QED
  BY <1>4, FirstOfDistinct

(* The classes are told once each, with all their members.                 *)
LEMMA ClassesAre ==
  ASSUME NEW W, NEW parent, DOMAIN parent = W, W \subseteq Elements(PortOrder),
         NEW classes, classes = Classes(parent)
  PROVE  /\ classes \in Seq(Seq(Elements(PortOrder))) /\ Distinct(classes)
         /\ \A i \in DOMAIN classes : \E n \in W : classes[i] = Among(PortOrder, FusedWith(parent, n))
         /\ \A n \in W : \E i \in DOMAIN classes : classes[i] = Among(PortOrder, FusedWith(parent, n))
         /\ \A n \in W : Elements(Among(PortOrder, FusedWith(parent, n))) = FusedWith(parent, n)
<1> DEFINE P == Elements(PortOrder)
           wired == Among(PortOrder, W)
           told == [i \in DOMAIN wired |-> Among(PortOrder, FusedWith(parent, wired[i]))]
<1>1. PortOrder \in Seq(P)
  BY PortsAssumption DEF IsList, Elements
<1>2. wired \in Seq(P) /\ Elements(wired) = W
  BY <1>1, AmongDistinct
<1>3. \A T : /\ Among(PortOrder, T) \in Seq(P)
             /\ Elements(Among(PortOrder, T)) = P \cap T
  BY <1>1, AmongDistinct
<1>4. classes = FirstOf(told)
  BY DEF Classes
<1>5. \A n \in W : FusedWith(parent, n) \subseteq P
  BY DEF FusedWith
<1>6. \A i \in DOMAIN told : told[i] = Among(PortOrder, FusedWith(parent, wired[i]))
  OBVIOUS
<1>7. told \in Seq(Seq(P)) /\ DOMAIN told = DOMAIN wired
  BY <1>2, <1>3
<1> HIDE DEF told, wired, P
<1>8. classes \in Seq(Seq(P)) /\ Elements(classes) = Elements(told) /\ Distinct(classes)
  BY <1>4, <1>7, FirstOfDistinct
<1>9. \A c : c \in Elements(classes) <=> \E n \in W : c = Among(PortOrder, FusedWith(parent, n))
  BY <1>2, <1>6, <1>7, <1>8 DEF Elements
<1>10. \A n \in W : Elements(Among(PortOrder, FusedWith(parent, n))) = FusedWith(parent, n)
  BY <1>3, <1>5
<1>11. QED
  BY <1>8, <1>9, <1>10 DEF Elements, P

(* Every class of wired ports is fused to one place, told once.            *)
LEMMA FusedStand ==
  ASSUME NEW uses, NEW wires, Composed(uses, wires),
         NEW rewrite, rewrite = RewriteMap(uses, Fusion(wires)),
         NEW fused,
         fused = [i \in DOMAIN Classes(Fusion(wires)) |->
                    FusedPlace(uses, Classes(Fusion(wires))[i])]
  PROVE  /\ fused \in Seq(Elements(fused))
         /\ \A j \in DOMAIN fused : \E n \in Wired(wires) :
              StandsFor(uses, wires, rewrite, n, fused[j])
         /\ \A n \in Wired(wires) : \E j \in DOMAIN fused :
              StandsFor(uses, wires, rewrite, n, fused[j])
         /\ \A j \in DOMAIN fused, l \in DOMAIN fused : fused[j].name = fused[l].name => j = l
<1> DEFINE W == Wired(wires)
           parent == Fusion(wires)
           classes == Classes(parent)
           members(n) == Among(PortOrder, FusedWith(parent, n))
<1>1. wires \in Seq(WiresOn(STRING \X STRING))
  BY DEF Composed
<1>2. DOMAIN parent = W
  BY <1>1, FusionGathers DEF Gathers, IsForest
<1>3. /\ DOMAIN rewrite = W /\ W \subseteq PortsIn(uses)
      /\ \A m, n : Renamed(rewrite, m) = Renamed(rewrite, n) <=> m \in ConnectedTo(wires, n)
  BY NamesFollowWires
<1>4. \A n \in W : FusedWith(parent, n) = ConnectedTo(wires, n)
  BY <1>1, ClassIsConnected
<1>5. \A n \in W : FusedWith(parent, n) = {m \in W : Root(parent, m) = Root(parent, n)}
  BY <1>2 DEF FusedWith
<1>6. \A n \in W : Renamed(rewrite, n) = {m \in FusedWith(parent, n) : IsOutput(uses, m)}
  BY <1>2, <1>3 DEF RewriteMap, Renamed
<1>7. fused = [i \in DOMAIN classes |-> FusedPlace(uses, classes[i])]
  OBVIOUS
<1> HIDE DEF W, parent, classes
<1>8. /\ classes \in Seq(Seq(Elements(PortOrder))) /\ Distinct(classes)
      /\ \A i \in DOMAIN classes : \E n \in W : classes[i] = members(n)
      /\ \A n \in W : \E i \in DOMAIN classes : classes[i] = members(n)
      /\ \A n \in W : Elements(members(n)) = FusedWith(parent, n)
  <2>1. W \subseteq Elements(PortOrder)
    BY <1>3, PortsAre
  <2>2. QED
    BY <1>2, <2>1, ClassesAre DEF classes
<1>9. \A n \in W : members(n) \in Seq(Elements(PortOrder))
  BY <1>8
<1> HIDE DEF members
<1>10. DOMAIN fused = DOMAIN classes /\ DOMAIN classes = 1..Len(classes) /\ Len(classes) \in Nat
  BY <1>7, <1>8
<1>11. fused \in Seq(Elements(fused))
  <2>1. \A j \in DOMAIN fused : fused[j] \in Elements(fused)
    BY DEF Elements
  <2>2. fused = [i \in 1..Len(classes) |-> fused[i]]
    BY <1>7, <1>10
  <2>3. QED
    BY <1>10, <2>1, <2>2
<1>12. ASSUME NEW n \in W
       PROVE  StandsFor(uses, wires, rewrite, n, FusedPlace(uses, members(n)))
  <2> DEFINE ms == members(n)
             lists == [i \in DOMAIN ms |-> QPlace(uses, ms[i]).accepts]
             place == FusedPlace(uses, ms)
  <2>1. ms \in Seq(Elements(PortOrder)) /\ Elements(ms) = FusedWith(parent, n)
    BY <1>8, <1>9
  <2>2. DOMAIN ms = 1..Len(ms) /\ Len(ms) \in Nat
    BY <2>1
  <2>3. \A i \in DOMAIN ms : ms[i] \in PortsIn(uses)
    BY <1>3, <1>5, <2>1 DEF Elements
  <2>4. \A m \in PortsIn(uses) : QPlace(uses, m).accepts \in Seq(Elements(QPlace(uses, m).accepts))
    <3>1. SUFFICES ASSUME NEW m \in PortsIn(uses)
          PROVE  QPlace(uses, m).accepts \in Seq(Elements(QPlace(uses, m).accepts))
      OBVIOUS
    <3>2. PICK i \in DOMAIN uses : \E k \in DOMAIN NetAt(uses, i).places : m = PortAt(uses, i, k)
      BY PortsAre
    <3>3. PICK k \in DOMAIN NetAt(uses, i).places : m = PortAt(uses, i, k)
      BY <3>2
    <3>4. QPlace(uses, m) = NetAt(uses, i).places[k]
      BY <3>3, PortsAre
    <3>5. QED
      BY <3>4, UsedNets, PlacesOfNet
  <2>5. /\ place.name = {m \in Seqs!ToSet(ms) : IsOutput(uses, m)}
        /\ place.accepts = FirstOf(Seqs!FlattenSeq(lists))
        /\ place.port = {}
    BY DEF FusedPlace
  <2> HIDE DEF place, ms
  <2>6. place.name = Renamed(rewrite, n)
    BY <1>6, <2>1, <2>5, ToSetIsElements
  <2>7. Elements(place.accepts) = UNION {Elements(lists[i]) : i \in 1..Len(ms)}
    <3>1. \A i \in 1..Len(ms) : lists[i] \in Seq(Elements(lists[i]))
      BY <2>2, <2>3, <2>4
    <3>2. DOMAIN lists = 1..Len(ms) /\ lists = [i \in 1..Len(ms) |-> lists[i]]
      BY <2>2
    <3> HIDE DEF lists
    <3>3. QED
      BY <2>2, <2>5, <3>1, <3>2, AcceptedTogether
  <2>8. UNION {Elements(lists[i]) : i \in 1..Len(ms)} =
          UNION {Elements(QPlace(uses, m).accepts) : m \in ConnectedTo(wires, n)}
    <3>1. \A i \in 1..Len(ms) : lists[i] = QPlace(uses, ms[i]).accepts
      BY <2>2
    <3> HIDE DEF lists
    <3>2. \A m : m \in ConnectedTo(wires, n) <=> \E i \in 1..Len(ms) : m = ms[i]
      BY <1>4, <2>1, <2>2 DEF Elements
    <3>3. QED
      BY <3>1, <3>2
  <2>9. n \in Wired(wires)
    BY DEF W
  <2>10. StandsFor(uses, wires, rewrite, n, place)
    BY <2>5, <2>6, <2>7, <2>8, <2>9 DEF StandsFor
  <2>11. QED
    BY <2>10 DEF place, ms
<1>13. ASSUME NEW j \in DOMAIN fused, NEW l \in DOMAIN fused, fused[j].name = fused[l].name
       PROVE  j = l
  <2>1. PICK m \in W : classes[j] = members(m)
    BY <1>8, <1>10
  <2>2. PICK n \in W : classes[l] = members(n)
    BY <1>8, <1>10
  <2>3. fused[j] = FusedPlace(uses, members(m)) /\ fused[l] = FusedPlace(uses, members(n))
    BY <1>7, <1>10, <2>1, <2>2
  <2>4. fused[j].name = Renamed(rewrite, m) /\ fused[l].name = Renamed(rewrite, n)
    BY <1>12, <2>3 DEF StandsFor
  <2>5. m \in FusedWith(parent, n)
    BY <1>3, <1>4, <1>13, <2>4
  <2>6. Root(parent, m) = Root(parent, n)
    BY <1>5, <2>5
  <2>7. FusedWith(parent, m) = FusedWith(parent, n)
    BY <1>5, <2>6
  <2>8. classes[j] = classes[l]
    BY <2>1, <2>2, <2>7 DEF members
  <2>9. QED
    BY <1>8, <1>10, <2>8 DEF Distinct
<1>14. QED
  <2>1. \A j \in DOMAIN fused : \E n \in W : fused[j] = FusedPlace(uses, members(n))
    BY <1>7, <1>8, <1>10
  <2>2. \A n \in W : \E j \in DOMAIN fused : fused[j] = FusedPlace(uses, members(n))
    BY <1>7, <1>8, <1>10
  <2>3. QED
    BY <1>11, <1>12, <1>13, <2>1, <2>2 DEF W

(* Every place of the list stands for a port, every port has one, and no   *)
(* two have the same name.                                                 *)
PlacesStand(uses, wires, rewrite, places) ==
  /\ places \in Seq(Elements(places))
  /\ \A p \in DOMAIN places : \E n \in PortsIn(uses) :
       StandsFor(uses, wires, rewrite, n, places[p])
  /\ \A n \in PortsIn(uses) : \E p \in DOMAIN places :
       StandsFor(uses, wires, rewrite, n, places[p])
  /\ \A p \in DOMAIN places, q \in DOMAIN places : places[p].name = places[q].name => p = q

(* Every port has its place in the merged net, and every place there is one *)
(* of some port; no two have a name.                                       *)
LEMMA MergedPlaces ==
  ASSUME NEW uses, NEW wires, Composed(uses, wires),
         NEW rewrite, rewrite = RewriteMap(uses, Fusion(wires)),
         NEW places, places = Merged(uses, wires).places
  PROVE  PlacesStand(uses, wires, rewrite, places)
<1> DEFINE ss == [i \in DOMAIN uses |-> UnwiredPlaces(uses[i], rewrite)]
           A == Seqs!FlattenSeq(ss)
           classes == Classes(Fusion(wires))
           B == [i \in DOMAIN classes |-> FusedPlace(uses, classes[i])]
           W == Wired(wires)
           stands(n, place) == StandsFor(uses, wires, rewrite, n, place)
<1>1. places = A \o B
  BY DEF Merged, MergedUnder
<1>2. /\ W \subseteq PortsIn(uses)
      /\ \A n : ConnectedTo(wires, n) \subseteq W \cup {n}
      /\ \A m, n : Renamed(rewrite, m) = Renamed(rewrite, n) <=> m \in ConnectedTo(wires, n)
  BY NamesFollowWires
<1>3. DOMAIN uses = 1..Len(uses) /\ Len(uses) \in Nat
  BY DEF Composed
<1>4. /\ DOMAIN ss = DOMAIN uses
      /\ \A i \in DOMAIN uses : ss[i] = UnwiredPlaces(uses[i], rewrite)
      /\ ss = [i \in 1..Len(uses) |-> ss[i]]
  BY <1>3
<1>5. /\ B \in Seq(Elements(B))
      /\ \A j \in DOMAIN B : \E n \in W : stands(n, B[j])
      /\ \A n \in W : \E j \in DOMAIN B : stands(n, B[j])
      /\ \A j \in DOMAIN B, l \in DOMAIN B : B[j].name = B[l].name => j = l
  BY FusedStand
<1> HIDE DEF ss, B, W, A, stands, classes
<1>6. \A i \in DOMAIN uses :
         /\ ss[i] \in Seq(Elements(ss[i]))
         /\ \A j \in DOMAIN ss[i] : \E k \in DOMAIN NetAt(uses, i).places :
              PortAt(uses, i, k) \notin W /\ stands(PortAt(uses, i, k), ss[i][j])
         /\ \A k \in DOMAIN NetAt(uses, i).places : PortAt(uses, i, k) \notin W =>
              \E j \in DOMAIN ss[i] : stands(PortAt(uses, i, k), ss[i][j])
         /\ \A j \in DOMAIN ss[i], l \in DOMAIN ss[i] : ss[i][j].name = ss[i][l].name => j = l
  <2>1. SUFFICES ASSUME NEW i \in DOMAIN uses, NEW kept, kept = ss[i]
        PROVE  /\ kept \in Seq(Elements(kept))
               /\ \A j \in DOMAIN kept : \E k \in DOMAIN NetAt(uses, i).places :
                    PortAt(uses, i, k) \notin W /\ stands(PortAt(uses, i, k), kept[j])
               /\ \A k \in DOMAIN NetAt(uses, i).places : PortAt(uses, i, k) \notin W =>
                    \E j \in DOMAIN kept : stands(PortAt(uses, i, k), kept[j])
               /\ \A j \in DOMAIN kept, l \in DOMAIN kept :
                    kept[j].name = kept[l].name => j = l
    OBVIOUS
  <2>2. kept = UnwiredPlaces(uses[i], rewrite)
    BY <1>4, <2>1
  <2>3. QED
    BY <2>2, UnwiredStand DEF W, stands
<1> DEFINE S == (UNION {Elements(ss[i]) : i \in DOMAIN uses}) \cup Elements(B)
<1>7. ss \in Seq(Seq(S)) /\ B \in Seq(S)
  <2>1. \A i \in 1..Len(uses) : ss[i] \in Seq(S)
    <3>1. SUFFICES ASSUME NEW i \in 1..Len(uses) PROVE ss[i] \in Seq(S)
      OBVIOUS
    <3>2. ss[i] \in Seq(Elements(ss[i])) /\ Elements(ss[i]) \subseteq S
      BY <1>3, <1>6
    <3> HIDE DEF S
    <3>3. QED
      BY <3>2
  <2>2. Elements(B) \subseteq S
    OBVIOUS
  <2> HIDE DEF S
  <2>3. B \in Seq(S)
    BY <1>5, <2>2
  <2>4. QED
    BY <1>3, <1>4, <2>1, <2>3
<1> HIDE DEF S
<1>8. A \in Seq(S) /\ \E at : LaidOut(A, ss, Len(ss), at)
  BY <1>7, FlattenedIsLaidOut DEF A
<1>9. PICK at : LaidOut(A, ss, Len(ss), at)
  BY <1>8
<1>10. /\ \A q \in DOMAIN A : at[q] \in Spots(ss, Len(ss)) /\ A[q] = ss[at[q][1]][at[q][2]]
       /\ \A q \in DOMAIN A, r \in DOMAIN A : at[q] = at[r] => q = r
       /\ \A spot \in Spots(ss, Len(ss)) : \E q \in DOMAIN A : at[q] = spot
  BY <1>9 DEF LaidOut
<1>11. Len(ss) = Len(uses)
  BY <1>3, <1>4, <1>7
<1>12. \A spot \in Spots(ss, Len(ss)) :
          /\ spot[1] \in DOMAIN uses /\ spot[2] \in DOMAIN ss[spot[1]]
          /\ spot = <<spot[1], spot[2]>>
  BY <1>3, <1>11 DEF Spots
<1>13. \A i \in DOMAIN uses : \A j \in DOMAIN ss[i] : <<i, j>> \in Spots(ss, Len(ss))
  <2>1. SUFFICES ASSUME NEW i \in DOMAIN uses, NEW j \in DOMAIN ss[i]
        PROVE  <<i, j>> \in Spots(ss, Len(ss))
    OBVIOUS
  <2>2. i \in Nat /\ j \in Nat /\ i \in 1..Len(ss)
    BY <1>3, <1>6, <1>11
  <2>3. QED
    BY <2>2 DEF Spots
<1>14. \A m, n : \A x, y : stands(m, x) /\ stands(n, y) =>
          (x.name = y.name <=> m \in ConnectedTo(wires, n))
  BY <1>2 DEF stands, StandsFor
<1>15. \A q \in DOMAIN A : \E n \in PortsIn(uses) : n \notin W /\ stands(n, A[q])
  <2>1. SUFFICES ASSUME NEW q \in DOMAIN A
        PROVE  \E n \in PortsIn(uses) : n \notin W /\ stands(n, A[q])
    OBVIOUS
  <2>2. /\ at[q][1] \in DOMAIN uses /\ at[q][2] \in DOMAIN ss[at[q][1]]
        /\ A[q] = ss[at[q][1]][at[q][2]]
    BY <1>10, <1>12
  <2>3. PICK k \in DOMAIN NetAt(uses, at[q][1]).places :
          PortAt(uses, at[q][1], k) \notin W /\ stands(PortAt(uses, at[q][1], k), A[q])
    BY <1>6, <2>2
  <2>4. PortAt(uses, at[q][1], k) \in PortsIn(uses)
    BY <2>2, PortsAre
  <2>5. QED
    BY <2>3, <2>4
<1>16. \A n \in PortsIn(uses) : n \notin W => \E q \in DOMAIN A : stands(n, A[q])
  <2>1. SUFFICES ASSUME NEW n \in PortsIn(uses), n \notin W
        PROVE  \E q \in DOMAIN A : stands(n, A[q])
    OBVIOUS
  <2>2. PICK i \in DOMAIN uses : \E k \in DOMAIN NetAt(uses, i).places : n = PortAt(uses, i, k)
    BY PortsAre
  <2>3. PICK j \in DOMAIN ss[i] : stands(n, ss[i][j])
    BY <1>6, <2>1, <2>2
  <2>4. <<i, j>> \in Spots(ss, Len(ss)) /\ <<i, j>>[1] = i /\ <<i, j>>[2] = j
    BY <1>13
  <2>5. PICK q \in DOMAIN A : at[q] = <<i, j>>
    BY <1>10, <2>4
  <2>6. A[q] = ss[i][j]
    BY <1>10, <2>4, <2>5
  <2>7. QED
    BY <2>3, <2>6
<1>17. ASSUME NEW q \in DOMAIN A, NEW r \in DOMAIN A, A[q].name = A[r].name
       PROVE  q = r
  <2>1. /\ at[q][1] \in DOMAIN uses /\ at[q][2] \in DOMAIN ss[at[q][1]]
        /\ at[q] = <<at[q][1], at[q][2]>> /\ A[q] = ss[at[q][1]][at[q][2]]
    BY <1>10, <1>12
  <2>2. /\ at[r][1] \in DOMAIN uses /\ at[r][2] \in DOMAIN ss[at[r][1]]
        /\ at[r] = <<at[r][1], at[r][2]>> /\ A[r] = ss[at[r][1]][at[r][2]]
    BY <1>10, <1>12
  <2>3. PICK k \in DOMAIN NetAt(uses, at[q][1]).places :
          PortAt(uses, at[q][1], k) \notin W /\ stands(PortAt(uses, at[q][1], k), A[q])
    BY <1>6, <2>1
  <2>4. PICK l \in DOMAIN NetAt(uses, at[r][1]).places :
          PortAt(uses, at[r][1], l) \notin W /\ stands(PortAt(uses, at[r][1], l), A[r])
    BY <1>6, <2>2
  <2>5. PortAt(uses, at[q][1], k) \in ConnectedTo(wires, PortAt(uses, at[r][1], l))
    BY <1>14, <1>17, <2>3, <2>4
  <2>6. PortAt(uses, at[q][1], k) = PortAt(uses, at[r][1], l)
    BY <1>2, <2>3, <2>5
  <2>7. at[q][1] = at[r][1]
    BY <2>1, <2>2, <2>6, PortsAre
  <2>8. at[q][2] = at[r][2]
    BY <1>6, <1>17, <2>1, <2>2, <2>7
  <2>9. QED
    BY <1>10, <2>1, <2>2, <2>7, <2>8
<1>18. \A q \in DOMAIN A, r \in DOMAIN B : A[q].name # B[r].name
  <2>1. SUFFICES ASSUME NEW q \in DOMAIN A, NEW r \in DOMAIN B, A[q].name = B[r].name
        PROVE  FALSE
    OBVIOUS
  <2>2. PICK m \in PortsIn(uses) : m \notin W /\ stands(m, A[q])
    BY <1>15
  <2>3. PICK n \in W : stands(n, B[r])
    BY <1>5
  <2>4. m \in ConnectedTo(wires, n)
    BY <1>14, <2>1, <2>2, <2>3
  <2>5. QED
    BY <1>2, <2>2, <2>3, <2>4
<1> DEFINE L == Len(A)
<1>19. /\ L \in Nat /\ DOMAIN A = 1..L /\ Len(B) \in Nat /\ DOMAIN B = 1..Len(B)
       /\ DOMAIN places = 1..(L + Len(B)) /\ places \in Seq(S)
       /\ \A q \in DOMAIN A : q \in DOMAIN places /\ places[q] = A[q]
       /\ \A q \in DOMAIN B : q + L \in DOMAIN places /\ places[q + L] = B[q]
       /\ \A q \in DOMAIN places :
            \/ q \in DOMAIN A
            \/ q - L \in DOMAIN B /\ places[q] = B[q - L]
  BY <1>1, <1>7, <1>8
<1> HIDE DEF L
<1>20. places \in Seq(Elements(places))
  <2>1. \A q \in DOMAIN places : places[q] \in Elements(places)
    BY DEF Elements
  <2>2. /\ Len(places) \in Nat /\ DOMAIN places = 1..Len(places)
        /\ places = [q \in 1..Len(places) |-> places[q]]
    BY <1>19
  <2>3. QED
    BY <2>1, <2>2
<1>21. \A p \in DOMAIN places : \E n \in PortsIn(uses) : stands(n, places[p])
  BY <1>2, <1>5, <1>15, <1>19
<1>22. \A n \in PortsIn(uses) : \E p \in DOMAIN places : stands(n, places[p])
  <2>1. SUFFICES ASSUME NEW n \in PortsIn(uses)
        PROVE  \E p \in DOMAIN places : stands(n, places[p])
    OBVIOUS
  <2>2. CASE n \notin W
    BY <1>16, <1>19, <2>2
  <2>3. CASE n \in W
    BY <1>5, <1>19, <2>3
  <2>4. QED
    BY <2>2, <2>3
<1>23. ASSUME NEW p \in DOMAIN places, NEW q \in DOMAIN places, places[p].name = places[q].name
       PROVE  p = q
  <2>1. CASE p \in DOMAIN A /\ q \in DOMAIN A
    BY <1>17, <1>19, <1>23, <2>1
  <2>2. CASE p \in DOMAIN A /\ q \notin DOMAIN A
    BY <1>18, <1>19, <1>23, <2>2
  <2>3. CASE p \notin DOMAIN A /\ q \in DOMAIN A
    BY <1>18, <1>19, <1>23, <2>3
  <2>4. CASE p \notin DOMAIN A /\ q \notin DOMAIN A
    <3>1. /\ p - L \in DOMAIN B /\ places[p] = B[p - L]
          /\ q - L \in DOMAIN B /\ places[q] = B[q - L]
      BY <1>19, <2>4
    <3>2. p - L = q - L
      BY <1>5, <1>23, <3>1
    <3>3. QED
      BY <1>19, <3>2
  <2>5. QED
    BY <2>1, <2>2, <2>3, <2>4
<1>24. QED
  BY <1>20, <1>21, <1>22, <1>23 DEF stands, PlacesStand

-----------------------------------------------------------------------------
(* The tokens of the merged net.                                           *)

(* Lists of lists put one after the other: each element stands once, and   *)
(* from[q] tells which one stands at q.                                    *)
LaidOutTwice(u, ll, from) ==
  /\ \A q \in DOMAIN u :
       /\ from[q][1] \in DOMAIN ll
       /\ from[q][2] \in DOMAIN ll[from[q][1]]
       /\ from[q][3] \in DOMAIN ll[from[q][1]][from[q][2]]
       /\ u[q] = ll[from[q][1]][from[q][2]][from[q][3]]
  /\ \A q \in DOMAIN u, r \in DOMAIN u :
       from[q][1] = from[r][1] /\ from[q][2] = from[r][2] /\ from[q][3] = from[r][3] => q = r
  /\ \A i \in DOMAIN ll : \A k \in DOMAIN ll[i] : \A j \in DOMAIN ll[i][k] :
       \E q \in DOMAIN u : from[q][1] = i /\ from[q][2] = k /\ from[q][3] = j

(* Flattening twice lays them out.                                         *)
LEMMA FlattenedTwice ==
  ASSUME NEW S, NEW ll \in Seq(Seq(Seq(S))),
         NEW us, us = [i \in DOMAIN ll |-> Seqs!FlattenSeq(ll[i])],
         NEW u, u = Seqs!FlattenSeq(us)
  PROVE  u \in Seq(S) /\ \E from : LaidOutTwice(u, ll, from)
<1> DEFINE inner == [i \in DOMAIN ll |->
                       CHOOSE at : LaidOut(us[i], ll[i], Len(ll[i]), at)]
<1>1. DOMAIN ll = 1..Len(ll) /\ Len(ll) \in Nat
  OBVIOUS
<1>2. \A i \in DOMAIN ll : ll[i] \in Seq(Seq(S)) /\ us[i] = Seqs!FlattenSeq(ll[i])
  OBVIOUS
<1>3. \A i \in DOMAIN ll : us[i] \in Seq(S) /\ \E at : LaidOut(us[i], ll[i], Len(ll[i]), at)
  BY <1>2, FlattenedIsLaidOut
<1>4. us \in Seq(Seq(S)) /\ Len(us) = Len(ll) /\ DOMAIN us = DOMAIN ll
  BY <1>1, <1>3
<1>5. PICK outer : LaidOut(u, us, Len(us), outer)
  BY <1>4, FlattenedIsLaidOut
<1>6. u \in Seq(S)
  BY <1>4, FlattenedIsLaidOut
<1>7. \A i \in DOMAIN ll : LaidOut(us[i], ll[i], Len(ll[i]), inner[i])
  BY <1>3
<1> HIDE DEF inner
<1> DEFINE from == [q \in DOMAIN u |->
                      <<outer[q][1], inner[outer[q][1]][outer[q][2]][1],
                        inner[outer[q][1]][outer[q][2]][2]>>]
<1>8. /\ \A q \in DOMAIN u : outer[q] \in Spots(us, Len(us)) /\ u[q] = us[outer[q][1]][outer[q][2]]
      /\ \A q \in DOMAIN u, r \in DOMAIN u : outer[q] = outer[r] => q = r
      /\ \A spot \in Spots(us, Len(us)) : \E q \in DOMAIN u : outer[q] = spot
  BY <1>5 DEF LaidOut
<1>9. \A i \in DOMAIN ll :
         /\ \A r \in DOMAIN us[i] : /\ inner[i][r] \in Spots(ll[i], Len(ll[i]))
                                    /\ us[i][r] = ll[i][inner[i][r][1]][inner[i][r][2]]
         /\ \A q \in DOMAIN us[i], r \in DOMAIN us[i] : inner[i][q] = inner[i][r] => q = r
         /\ \A spot \in Spots(ll[i], Len(ll[i])) : \E r \in DOMAIN us[i] : inner[i][r] = spot
  BY <1>7 DEF LaidOut
<1>10. \A spot \in Spots(us, Len(us)) :
          /\ spot = <<spot[1], spot[2]>>
          /\ spot[1] \in DOMAIN ll /\ spot[2] \in DOMAIN us[spot[1]]
  BY <1>1, <1>4 DEF Spots
<1>11. \A i \in DOMAIN ll : \A spot \in Spots(ll[i], Len(ll[i])) :
          /\ spot = <<spot[1], spot[2]>>
          /\ spot[1] \in DOMAIN ll[i] /\ spot[2] \in DOMAIN ll[i][spot[1]]
  BY DEF Spots
<1>12. \A q \in DOMAIN u :
          /\ from[q][1] = outer[q][1]
          /\ from[q][2] = inner[outer[q][1]][outer[q][2]][1]
          /\ from[q][3] = inner[outer[q][1]][outer[q][2]][2]
  OBVIOUS
<1> HIDE DEF from
<1>13. \A q \in DOMAIN u :
          /\ outer[q][1] \in DOMAIN ll /\ outer[q][2] \in DOMAIN us[outer[q][1]]
          /\ outer[q] = <<outer[q][1], outer[q][2]>>
  BY <1>8, <1>10
<1>14. ASSUME NEW q \in DOMAIN u
       PROVE  /\ from[q][1] \in DOMAIN ll
              /\ from[q][2] \in DOMAIN ll[from[q][1]]
              /\ from[q][3] \in DOMAIN ll[from[q][1]][from[q][2]]
              /\ u[q] = ll[from[q][1]][from[q][2]][from[q][3]]
  <2>1. PICK i : i = outer[q][1]
    OBVIOUS
  <2>2. PICK r : r = outer[q][2]
    OBVIOUS
  <2>3. i \in DOMAIN ll /\ r \in DOMAIN us[i] /\ u[q] = us[i][r]
    BY <1>8, <1>13, <2>1, <2>2
  <2>4. /\ inner[i][r][1] \in DOMAIN ll[i] /\ inner[i][r][2] \in DOMAIN ll[i][inner[i][r][1]]
        /\ us[i][r] = ll[i][inner[i][r][1]][inner[i][r][2]]
    BY <1>9, <1>11, <2>3
  <2>5. from[q][1] = i /\ from[q][2] = inner[i][r][1] /\ from[q][3] = inner[i][r][2]
    BY <1>12, <2>1, <2>2
  <2>6. QED
    BY <2>3, <2>4, <2>5
<1>15. ASSUME NEW q \in DOMAIN u, NEW p \in DOMAIN u,
              from[q][1] = from[p][1], from[q][2] = from[p][2], from[q][3] = from[p][3]
       PROVE  q = p
  <2>1. outer[q][1] = outer[p][1]
    BY <1>12, <1>15
  <2>2. PICK i : i = outer[q][1]
    OBVIOUS
  <2>3. i \in DOMAIN ll /\ outer[q][2] \in DOMAIN us[i] /\ outer[p][2] \in DOMAIN us[i]
    BY <1>13, <2>1, <2>2
  <2>4. /\ inner[i][outer[q][2]][1] = inner[i][outer[p][2]][1]
        /\ inner[i][outer[q][2]][2] = inner[i][outer[p][2]][2]
    BY <1>12, <1>15, <2>1, <2>2
  <2>5. inner[i][outer[q][2]] = inner[i][outer[p][2]]
    <3>1. \A a \in Spots(ll[i], Len(ll[i])), b \in Spots(ll[i], Len(ll[i])) :
            a[1] = b[1] /\ a[2] = b[2] => a = b
      BY <1>11, <2>3
    <3>2. /\ inner[i][outer[q][2]] \in Spots(ll[i], Len(ll[i]))
          /\ inner[i][outer[p][2]] \in Spots(ll[i], Len(ll[i]))
      BY <1>9, <2>3
    <3>3. QED
      BY <2>4, <3>1, <3>2
  <2>6. outer[q][2] = outer[p][2]
    BY <1>9, <2>3, <2>5
  <2>7. outer[q] = outer[p]
    BY <1>13, <2>1, <2>6
  <2>8. QED
    BY <1>8, <2>7
<1>16. ASSUME NEW i \in DOMAIN ll, NEW k \in DOMAIN ll[i], NEW j \in DOMAIN ll[i][k]
       PROVE  \E q \in DOMAIN u : from[q][1] = i /\ from[q][2] = k /\ from[q][3] = j
  <2>1. /\ DOMAIN ll[i] = 1..Len(ll[i]) /\ DOMAIN ll[i][k] \subseteq Nat
        /\ DOMAIN us[i] \subseteq Nat
    BY <1>2, <1>3
  <2>2. k \in Nat /\ j \in Nat /\ i \in Nat
    BY <1>1, <2>1
  <2>3. <<k, j>> \in Spots(ll[i], Len(ll[i]))
    BY <2>1, <2>2 DEF Spots
  <2>4. PICK r \in DOMAIN us[i] : inner[i][r] = <<k, j>>
    BY <1>9, <2>3
  <2>5. <<i, r>> \in Spots(us, Len(us))
    <3>1. r \in Nat /\ i \in 1..Len(us)
      BY <1>1, <1>4, <2>1, <2>4
    <3>2. QED
      BY <2>2, <2>4, <3>1 DEF Spots
  <2>6. PICK q \in DOMAIN u : outer[q] = <<i, r>>
    BY <1>8, <2>5
  <2>7. outer[q][1] = i /\ outer[q][2] = r
    BY <2>6
  <2>8. inner[i][r][1] = k /\ inner[i][r][2] = j
    BY <2>4
  <2>9. from[q][1] = i /\ from[q][2] = k /\ from[q][3] = j
    BY <1>12, <2>7, <2>8
  <2>10. QED
    BY <2>9
<1>17. LaidOutTwice(u, ll, from)
  BY <1>14, <1>15, <1>16 DEF LaidOutTwice
<1>18. QED
  BY <1>6, <1>17

(* own[i][k] names the list at i, k, and T the places of x in the lists.   *)
NamedApart(ll, own) ==
  \A i \in DOMAIN ll, j \in DOMAIN ll :
    \A k \in DOMAIN ll[i], l \in DOMAIN ll[j] :
      own[i][k] = own[j][l] => i = j /\ k = l

StandingAt(T, ll, own, x) ==
  \A t : t \in T <=>
    \E i \in DOMAIN ll : \E k \in DOMAIN ll[i] :
      \E j \in Positions(ll[i][k], x) : t = <<own[i][k], j>>

(* So an element stands there as often as in all the lists together.       *)
LEMMA CountedTogether ==
  ASSUME NEW S, NEW ll \in Seq(Seq(Seq(S))),
         NEW u \in Seq(S), NEW from, LaidOutTwice(u, ll, from), NEW x,
         NEW own, NamedApart(ll, own), NEW T, StandingAt(T, ll, own, x)
  PROVE  Cardinality(Positions(u, x)) = Cardinality(T)
<1> DEFINE Q == Positions(u, x)
           f == [q \in Q |-> <<own[from[q][1]][from[q][2]], from[q][3]>>]
<1>1. \A i \in DOMAIN ll, j \in DOMAIN ll :
         \A k \in DOMAIN ll[i], l \in DOMAIN ll[j] :
           own[i][k] = own[j][l] => i = j /\ k = l
  BY DEF NamedApart
<1>2. \A t : t \in T <=>
         \E i \in DOMAIN ll : \E k \in DOMAIN ll[i] :
           \E j \in Positions(ll[i][k], x) : t = <<own[i][k], j>>
  BY DEF StandingAt
<1>3. /\ \A q \in DOMAIN u :
           /\ from[q][1] \in DOMAIN ll
           /\ from[q][2] \in DOMAIN ll[from[q][1]]
           /\ from[q][3] \in DOMAIN ll[from[q][1]][from[q][2]]
           /\ u[q] = ll[from[q][1]][from[q][2]][from[q][3]]
      /\ \A q \in DOMAIN u, r \in DOMAIN u :
           from[q][1] = from[r][1] /\ from[q][2] = from[r][2] /\ from[q][3] = from[r][3] => q = r
      /\ \A i \in DOMAIN ll : \A k \in DOMAIN ll[i] : \A j \in DOMAIN ll[i][k] :
           \E q \in DOMAIN u : from[q][1] = i /\ from[q][2] = k /\ from[q][3] = j
  BY DEF LaidOutTwice
<1>4. \A q : q \in Q <=> q \in DOMAIN u /\ u[q] = x
  BY DEF Positions
<1>5. IsFiniteSet(Q)
  <2>1. DOMAIN u = 1..Len(u) /\ Len(u) \in Nat
    OBVIOUS
  <2>2. Q \subseteq 1..Len(u)
    BY <1>4, <2>1
  <2>3. IsFiniteSet(1..Len(u))
    BY <2>1, FS_Interval
  <2>4. QED
    BY <2>2, <2>3, FS_Subset
<1>6. \A q \in Q : /\ f[q] = <<own[from[q][1]][from[q][2]], from[q][3]>>
                   /\ f[q][1] = own[from[q][1]][from[q][2]] /\ f[q][2] = from[q][3]
  OBVIOUS
<1>7. DOMAIN f = Q /\ f = [q \in Q |-> f[q]]
  OBVIOUS
<1> HIDE DEF f, Q
<1>8. \A q \in Q : f[q] \in T
  <2>1. SUFFICES ASSUME NEW q \in Q PROVE f[q] \in T
    OBVIOUS
  <2>2. q \in DOMAIN u /\ u[q] = x
    BY <1>4
  <2>3. PICK i \in DOMAIN ll : i = from[q][1]
    BY <1>3, <2>2
  <2>4. PICK k \in DOMAIN ll[i] : k = from[q][2]
    BY <1>3, <2>2, <2>3
  <2>5. PICK j \in DOMAIN ll[i][k] : j = from[q][3]
    BY <1>3, <2>2, <2>3, <2>4
  <2>6. j \in Positions(ll[i][k], x)
    BY <1>3, <2>2, <2>3, <2>4, <2>5 DEF Positions
  <2>7. f[q] = <<own[i][k], j>>
    BY <1>6, <2>3, <2>4, <2>5
  <2>8. QED
    BY <1>2, <2>6, <2>7
<1>9. \A q \in Q, r \in Q : f[q] = f[r] => q = r
  <2>1. SUFFICES ASSUME NEW q \in Q, NEW r \in Q, f[q] = f[r] PROVE q = r
    OBVIOUS
  <2>2. from[q][3] = from[r][3] /\ own[from[q][1]][from[q][2]] = own[from[r][1]][from[r][2]]
    BY <1>6, <2>1
  <2>3. from[q][1] = from[r][1] /\ from[q][2] = from[r][2]
    <3>1. PICK i \in DOMAIN ll, j \in DOMAIN ll : i = from[q][1] /\ j = from[r][1]
      BY <1>3, <1>4
    <3>2. from[q][2] \in DOMAIN ll[i] /\ from[r][2] \in DOMAIN ll[j]
      BY <1>3, <1>4, <3>1
    <3>3. PICK k \in DOMAIN ll[i] : k = from[q][2]
      BY <3>2
    <3>4. PICK l \in DOMAIN ll[j] : l = from[r][2]
      BY <3>2
    <3>5. own[i][k] = own[j][l]
      BY <2>2, <3>1, <3>3, <3>4
    <3>6. i = j /\ k = l
      BY <1>1, <3>5
    <3>7. QED
      BY <3>1, <3>3, <3>4, <3>6
  <2>4. QED
    BY <1>3, <1>4, <2>2, <2>3
<1>10. \A t \in T : \E q \in Q : f[q] = t
  <2>1. SUFFICES ASSUME NEW t \in T PROVE \E q \in Q : f[q] = t
    OBVIOUS
  <2>2. PICK i \in DOMAIN ll : \E k \in DOMAIN ll[i] :
          \E j \in Positions(ll[i][k], x) : t = <<own[i][k], j>>
    BY <1>2
  <2>3. PICK k \in DOMAIN ll[i] : \E j \in Positions(ll[i][k], x) : t = <<own[i][k], j>>
    BY <2>2
  <2>4. PICK j \in Positions(ll[i][k], x) : t = <<own[i][k], j>>
    BY <2>3
  <2>5. j \in DOMAIN ll[i][k] /\ ll[i][k][j] = x
    BY DEF Positions
  <2>7. PICK q \in DOMAIN u : from[q][1] = i /\ from[q][2] = k /\ from[q][3] = j
    BY <1>3, <2>5
  <2>8. u[q] = x
    BY <1>3, <2>5, <2>7
  <2>9. q \in Q /\ f[q] = t
    BY <1>4, <1>6, <2>4, <2>7, <2>8
  <2>10. QED
    BY <2>9
<1>11. f \in Bijection(Q, T)
  <2>1. f \in [Q -> T]
    BY <1>7, <1>8
  <2>2. f \in Injection(Q, T)
    BY <1>9, <2>1 DEF Injection, IsInjective
  <2>3. f \in Surjection(Q, T)
    BY <1>10, <2>1 DEF Surjection
  <2>4. QED
    BY <2>2, <2>3 DEF Bijection
<1>12. Cardinality(T) = Cardinality(Q)
  BY <1>5, <1>11, FS_Bijection DEF ExistsBijection
<1>13. QED
  BY <1>12 DEF Q

(* A merged place starts with the tokens of the ports it stands for.       *)
LEMMA MergedTokens ==
  ASSUME NEW uses, NEW wires, Composed(uses, wires),
         NEW rewrite, rewrite = RewriteMap(uses, Fusion(wires)),
         NEW n \in PortsIn(uses), NEW marking, marking = MergedMarking(uses, rewrite), NEW x
  PROVE  Cardinality(Positions(Held(marking, Renamed(rewrite, n)), x)) =
           Cardinality(UNION {{<<m, i>> : i \in Positions(OwnTokens(uses, m), x)} :
                                m \in ConnectedTo(wires, n)})
<1> DEFINE name == Renamed(rewrite, n)
           class == ConnectedTo(wires, n)
           at(i) == {p \in DOMAIN NetAt(uses, i).marking :
                       Renamed(rewrite, <<uses[i].alias, p>>) = name}
           list(i, k) == IF NetAt(uses, i).places[k].name \in at(i)
                         THEN NetAt(uses, i).marking[NetAt(uses, i).places[k].name]
                         ELSE <<>>
           ll == [i \in DOMAIN uses |-> [k \in DOMAIN NetAt(uses, i).places |-> list(i, k)]]
           own == [i \in DOMAIN uses |->
                     [k \in DOMAIN NetAt(uses, i).places |-> PortAt(uses, i, k)]]
           us == [i \in DOMAIN uses |-> TokensOn(rewrite, uses[i], name)]
           T == UNION {{<<m, i>> : i \in Positions(OwnTokens(uses, m), x)} : m \in class}
<1>1. /\ Wired(wires) \subseteq PortsIn(uses)
      /\ ConnectedTo(wires, n) \subseteq Wired(wires) \cup {n}
      /\ \A m : Renamed(rewrite, m) = name <=> m \in class
  BY NamesFollowWires
<1>2. class \subseteq PortsIn(uses)
  BY <1>1
<1>3. DOMAIN uses = 1..Len(uses) /\ Len(uses) \in Nat
  BY DEF Composed
<1>4. \A i \in DOMAIN uses :
         /\ IsNet(NetAt(uses, i)) /\ ValidNet(NetAt(uses, i))
         /\ UsedNet(uses, uses[i].alias) = NetAt(uses, i)
  BY UsedNets
<1>5. \A i \in DOMAIN uses : /\ DOMAIN NetAt(uses, i).places = 1..Len(NetAt(uses, i).places)
                             /\ Len(NetAt(uses, i).places) \in Nat
  <2>1. SUFFICES ASSUME NEW i \in DOMAIN uses
        PROVE  /\ DOMAIN NetAt(uses, i).places = 1..Len(NetAt(uses, i).places)
               /\ Len(NetAt(uses, i).places) \in Nat
    OBVIOUS
  <2>2. NetAt(uses, i).places \in Seq(Elements(NetAt(uses, i).places))
    BY <1>4, PlacesOfNet
  <2>3. QED
    BY <2>2
<1>6. /\ \A m : m \in PortsIn(uses) <=>
           \E i \in DOMAIN uses : \E k \in DOMAIN NetAt(uses, i).places : m = PortAt(uses, i, k)
      /\ \A i \in DOMAIN uses, j \in DOMAIN uses :
           \A k \in DOMAIN NetAt(uses, i).places, l \in DOMAIN NetAt(uses, j).places :
             PortAt(uses, i, k) = PortAt(uses, j, l) => i = j /\ k = l
  BY PortsAre
<1>7. \A i \in DOMAIN uses : \A k \in DOMAIN NetAt(uses, i).places :
         OwnTokens(uses, PortAt(uses, i, k)) =
           Held(NetAt(uses, i).marking, NetAt(uses, i).places[k].name)
  <2>1. SUFFICES ASSUME NEW i \in DOMAIN uses, NEW k \in DOMAIN NetAt(uses, i).places
        PROVE  OwnTokens(uses, PortAt(uses, i, k)) =
                 Held(NetAt(uses, i).marking, NetAt(uses, i).places[k].name)
    OBVIOUS
  <2>2. /\ PortAt(uses, i, k)[1] = uses[i].alias
        /\ PortAt(uses, i, k)[2] = NetAt(uses, i).places[k].name
    BY DEF PortAt
  <2>3. QED
    BY <1>4, <2>2 DEF OwnTokens
<1>8. ASSUME NEW i \in DOMAIN uses, NEW k \in DOMAIN NetAt(uses, i).places
      PROVE  /\ list(i, k) = IF PortAt(uses, i, k) \in class
                             THEN OwnTokens(uses, PortAt(uses, i, k)) ELSE <<>>
             /\ list(i, k) \in Seq(Elements(list(i, k)))
  <2> DEFINE p == NetAt(uses, i).places[k].name
             tokens == NetAt(uses, i).marking
  <2>1. p \in at(i) <=> p \in DOMAIN tokens /\ PortAt(uses, i, k) \in class
    BY <1>1 DEF PortAt
  <2>2. OwnTokens(uses, PortAt(uses, i, k)) = IF p \in DOMAIN tokens THEN tokens[p] ELSE <<>>
    BY <1>7 DEF Held
  <2>3. list(i, k) = IF p \in at(i) THEN tokens[p] ELSE <<>>
    OBVIOUS
  <2>4. \A q \in DOMAIN tokens : tokens[q] \in Seq(Elements(tokens[q]))
    BY <1>4 DEF IsNet, IsList, Elements
  <2>5. p \in at(i) => p \in DOMAIN tokens
    BY <2>1
  <2> HIDE DEF p, tokens, list, at
  <2>6. list(i, k) = IF PortAt(uses, i, k) \in class
                     THEN OwnTokens(uses, PortAt(uses, i, k)) ELSE <<>>
    BY <2>1, <2>2, <2>3
  <2>7. list(i, k) \in Seq(Elements(list(i, k)))
    <3>1. <<>> \in Seq(Elements(<<>>))
      OBVIOUS
    <3>2. QED
      BY <2>3, <2>4, <2>5, <3>1
  <2>8. QED
    BY <2>6, <2>7
<1>9. /\ DOMAIN ll = DOMAIN uses /\ ll = [i \in 1..Len(uses) |-> ll[i]]
      /\ \A i \in DOMAIN uses :
           /\ DOMAIN ll[i] = DOMAIN NetAt(uses, i).places
           /\ ll[i] = [k \in 1..Len(NetAt(uses, i).places) |-> ll[i][k]]
           /\ \A k \in DOMAIN ll[i] : ll[i][k] = list(i, k)
  <2> HIDE DEF list
  <2>1. QED
    BY <1>3, <1>5
<1>10. \A i \in DOMAIN uses : us[i] = Seqs!FlattenSeq(ll[i])
  <2>1. SUFFICES ASSUME NEW i \in DOMAIN uses PROVE us[i] = Seqs!FlattenSeq(ll[i])
    OBVIOUS
  <2>2. us[i] = TokensOn(rewrite, uses[i], name)
    OBVIOUS
  <2>3. ll[i] = [k \in DOMAIN NetAt(uses, i).places |-> list(i, k)]
    OBVIOUS
  <2>4. TokensOn(rewrite, uses[i], name) =
          Seqs!FlattenSeq([k \in DOMAIN NetAt(uses, i).places |-> list(i, k)])
    BY DEF TokensOn, NetAt
  <2>5. QED
    BY <2>2, <2>3, <2>4
<1>11. /\ \A i \in DOMAIN uses : \A k \in DOMAIN ll[i] : own[i][k] = PortAt(uses, i, k)
  BY <1>9
<1>12. marking = [m \in UNION {{Renamed(rewrite, <<uses[i].alias, p>>) :
                                  p \in DOMAIN NetAt(uses, i).marking} : i \in DOMAIN uses} |->
                    Seqs!FlattenSeq([i \in DOMAIN uses |-> TokensOn(rewrite, uses[i], m)])]
  BY DEF MergedMarking, NetAt
<1>13. /\ name \in DOMAIN marking => marking[name] = Seqs!FlattenSeq(us)
       /\ \A i \in DOMAIN uses : \A p \in DOMAIN NetAt(uses, i).marking :
            Renamed(rewrite, <<uses[i].alias, p>>) \in DOMAIN marking
  <2>1. \A i \in DOMAIN uses : \A p \in DOMAIN NetAt(uses, i).marking :
          Renamed(rewrite, <<uses[i].alias, p>>) \in DOMAIN marking
    BY <1>12
  <2>2. \A m \in DOMAIN marking :
          marking[m] = Seqs!FlattenSeq([i \in DOMAIN uses |-> TokensOn(rewrite, uses[i], m)])
    BY <1>12
  <2>3. name \in DOMAIN marking => marking[name] = Seqs!FlattenSeq(us)
    <3> HIDE DEF name
    <3>1. QED
      BY <2>2
  <2>4. QED
    BY <2>1, <2>3
<1>14. us = [i \in DOMAIN ll |-> Seqs!FlattenSeq(ll[i])]
  <2>1. us = [i \in DOMAIN uses |-> us[i]]
    OBVIOUS
  <2> HIDE DEF us, ll
  <2>2. QED
    BY <1>9, <1>10, <2>1
<1>15. \A t : t \in T <=> \E m \in class : \E j \in Positions(OwnTokens(uses, m), x) : t = <<m, j>>
  OBVIOUS
<1>16. Positions(<<>>, x) = {}
  BY DEF Positions
<1> HIDE DEF us, ll, T, own, at, list, class
<1>17. ASSUME NEW i \in DOMAIN uses, NEW k \in DOMAIN ll[i], NEW j \in Positions(ll[i][k], x)
       PROVE  own[i][k] \in class /\ ll[i][k] = OwnTokens(uses, own[i][k])
  <2>1. k \in DOMAIN NetAt(uses, i).places /\ ll[i][k] = list(i, k)
    BY <1>9
  <2>2. list(i, k) # <<>>
    BY <1>16, <1>17, <2>1
  <2>3. PortAt(uses, i, k) \in class /\ list(i, k) = OwnTokens(uses, PortAt(uses, i, k))
    BY <1>8, <2>1, <2>2
  <2>4. QED
    BY <1>11, <2>1, <2>3
<1>18. ASSUME NEW m \in class
       PROVE  \E i \in DOMAIN ll : \E k \in DOMAIN ll[i] :
                own[i][k] = m /\ ll[i][k] = OwnTokens(uses, m)
  <2>1. PICK i \in DOMAIN uses : \E k \in DOMAIN NetAt(uses, i).places : m = PortAt(uses, i, k)
    BY <1>2, <1>6, <1>18
  <2>2. PICK k \in DOMAIN NetAt(uses, i).places : m = PortAt(uses, i, k)
    BY <2>1
  <2>3. list(i, k) = OwnTokens(uses, m)
    BY <1>8, <1>18, <2>2
  <2>4. k \in DOMAIN ll[i] /\ ll[i][k] = list(i, k) /\ own[i][k] = m
    BY <1>9, <1>11, <2>2
  <2>5. QED
    BY <1>9, <2>3, <2>4
<1>19. \A t : t \in T <=>
          \E i \in DOMAIN ll : \E k \in DOMAIN ll[i] :
            \E j \in Positions(ll[i][k], x) : t = <<own[i][k], j>>
  <2>1. ASSUME NEW t \in T
        PROVE  \E i \in DOMAIN ll : \E k \in DOMAIN ll[i] :
                 \E j \in Positions(ll[i][k], x) : t = <<own[i][k], j>>
    <3>1. PICK m \in class : \E j \in Positions(OwnTokens(uses, m), x) : t = <<m, j>>
      BY <1>15
    <3>2. PICK i \in DOMAIN ll : \E k \in DOMAIN ll[i] :
            own[i][k] = m /\ ll[i][k] = OwnTokens(uses, m)
      BY <1>18
    <3>3. QED
      BY <3>1, <3>2
  <2>2. ASSUME NEW i \in DOMAIN ll, NEW k \in DOMAIN ll[i], NEW j \in Positions(ll[i][k], x)
        PROVE  <<own[i][k], j>> \in T
    <3>1. own[i][k] \in class /\ ll[i][k] = OwnTokens(uses, own[i][k])
      BY <1>9, <1>17
    <3>2. QED
      BY <1>15, <3>1
  <2>3. QED
    BY <2>1, <2>2
<1> DEFINE S == UNION {UNION {Elements(ll[i][k]) : k \in DOMAIN ll[i]} : i \in DOMAIN ll}
<1>20. ll \in Seq(Seq(Seq(S)))
  <2>1. \A i \in DOMAIN uses : \A k \in DOMAIN ll[i] : ll[i][k] \in Seq(S)
    <3>1. SUFFICES ASSUME NEW i \in DOMAIN uses, NEW k \in DOMAIN ll[i] PROVE ll[i][k] \in Seq(S)
      OBVIOUS
    <3>5. k \in DOMAIN NetAt(uses, i).places /\ ll[i][k] = list(i, k)
      BY <1>9
    <3>6. list(i, k) \in Seq(Elements(list(i, k)))
      BY <1>8, <3>5
    <3>2. ll[i][k] \in Seq(Elements(ll[i][k]))
      BY <3>5, <3>6
    <3>3. Elements(ll[i][k]) \subseteq S
      BY <1>9
    <3> HIDE DEF S
    <3>4. QED
      BY <3>2, <3>3
  <2> HIDE DEF S
  <2>2. \A i \in DOMAIN uses : ll[i] \in Seq(Seq(S))
    <3>1. SUFFICES ASSUME NEW i \in DOMAIN uses PROVE ll[i] \in Seq(Seq(S))
      OBVIOUS
    <3>2. \A k \in 1..Len(NetAt(uses, i).places) : ll[i][k] \in Seq(S)
      BY <1>5, <1>9, <2>1
    <3>3. ll[i] = [k \in 1..Len(NetAt(uses, i).places) |-> ll[i][k]]
      BY <1>9
    <3>4. QED
      BY <1>5, <3>2, <3>3
  <2>3. QED
    BY <1>3, <1>9, <2>2
<1> HIDE DEF S
<1>21. \A i \in DOMAIN ll, j \in DOMAIN ll : \A k \in DOMAIN ll[i], l \in DOMAIN ll[j] :
          own[i][k] = own[j][l] => i = j /\ k = l
  <2>1. SUFFICES ASSUME NEW i \in DOMAIN ll, NEW j \in DOMAIN ll,
                        NEW k \in DOMAIN ll[i], NEW l \in DOMAIN ll[j], own[i][k] = own[j][l]
        PROVE  i = j /\ k = l
    OBVIOUS
  <2>2. /\ i \in DOMAIN uses /\ k \in DOMAIN NetAt(uses, i).places
        /\ j \in DOMAIN uses /\ l \in DOMAIN NetAt(uses, j).places
    BY <1>9
  <2>3. own[i][k] = PortAt(uses, i, k)
    BY <1>11, <2>2
  <2>4. own[j][l] = PortAt(uses, j, l)
    BY <1>11, <2>2
  <2>5. QED
    <3>1. PortAt(uses, i, k) = PortAt(uses, j, l)
      BY <2>1, <2>3, <2>4
    <3>2. QED
      BY <1>6, <2>2, <3>1
<1>22. NamedApart(ll, own) /\ StandingAt(T, ll, own, x)
  BY <1>19, <1>21 DEF NamedApart, StandingAt
<1>23. CASE name \in DOMAIN marking
  <2> DEFINE u == Seqs!FlattenSeq(us)
  <2>1. Held(marking, name) = u
    BY <1>13, <1>23 DEF Held
  <2>2. u \in Seq(S) /\ \E from : LaidOutTwice(u, ll, from)
    BY <1>14, <1>20, FlattenedTwice
  <2> HIDE DEF u, name
  <2>3. PICK from : LaidOutTwice(u, ll, from)
    BY <2>2
  <2>4. Cardinality(Positions(u, x)) = Cardinality(T)
    BY <1>20, <1>22, <2>2, <2>3, CountedTogether
  <2>5. QED
    BY <2>1, <2>4 DEF T, class, name
<1>24. CASE name \notin DOMAIN marking
  <2>1. Held(marking, name) = <<>>
    BY <1>24 DEF Held
  <2>2. \A m \in class : OwnTokens(uses, m) = <<>>
    <3>1. SUFFICES ASSUME NEW m \in class PROVE OwnTokens(uses, m) = <<>>
      OBVIOUS
    <3>2. PICK i \in DOMAIN uses : \E k \in DOMAIN NetAt(uses, i).places : m = PortAt(uses, i, k)
      BY <1>2, <1>6
    <3>3. PICK k \in DOMAIN NetAt(uses, i).places : m = PortAt(uses, i, k)
      BY <3>2
    <3>4. Renamed(rewrite, m) = name
      BY <1>1
    <3>5. NetAt(uses, i).places[k].name \notin DOMAIN NetAt(uses, i).marking
      BY <1>13, <1>24, <3>3, <3>4 DEF PortAt
    <3>6. QED
      BY <1>7, <3>3, <3>5 DEF Held
  <2>3. T = {}
    BY <1>15, <1>16, <2>2
  <2>4. QED
    BY <1>16, <2>1, <2>3 DEF T, class
<1>25. QED
  BY <1>23, <1>24

-----------------------------------------------------------------------------
(* The place a port is in the merged net, and the ports a place stands for. *)
LEMMA HomeOfPort ==
  ASSUME NEW uses, NEW wires, Composed(uses, wires),
         NEW rewrite, rewrite = RewriteMap(uses, Fusion(wires)),
         NEW merged, merged.places = Merged(uses, wires).places,
         NEW n \in PortsIn(uses)
  PROVE  /\ StandsFor(uses, wires, rewrite, n, PlaceOf(merged, Renamed(rewrite, n)))
         /\ {m \in PortsIn(uses) :
               PlaceOf(merged, Renamed(rewrite, m)) = PlaceOf(merged, Renamed(rewrite, n))} =
              ConnectedTo(wires, n)
<1> DEFINE places == merged.places
           home(m) == PlaceOf(merged, Renamed(rewrite, m))
           ports == PortsIn(uses)
           stands(m, place) == StandsFor(uses, wires, rewrite, m, place)
<1>1. /\ \A m \in ports : \E p \in DOMAIN places : stands(m, places[p])
      /\ \A p \in DOMAIN places, q \in DOMAIN places : places[p].name = places[q].name => p = q
  <2>1. PlacesStand(uses, wires, rewrite, places)
    <3> HIDE DEF home, ports, stands
    <3>1. QED
      BY MergedPlaces
  <2>2. QED
    BY <2>1 DEF PlacesStand
<1>2. /\ Wired(wires) \subseteq ports
      /\ ConnectedTo(wires, n) \subseteq Wired(wires) \cup {n}
      /\ \A m : Renamed(rewrite, m) = Renamed(rewrite, n) <=> m \in ConnectedTo(wires, n)
  BY NamesFollowWires
<1>3. \A m, place : stands(m, place) => place.name = Renamed(rewrite, m)
  BY DEF StandsFor
<1>4. ASSUME NEW m \in ports PROVE stands(m, home(m))
  <2> DEFINE same == {x \in Seqs!ToSet(places) : x.name = Renamed(rewrite, m)}
  <2>1. PICK p \in DOMAIN places : stands(m, places[p])
    BY <1>1
  <2>2. \A x : x \in same <=>
           (\E q \in DOMAIN places : x = places[q]) /\ x.name = Renamed(rewrite, m)
    BY ToSetIsElements DEF Elements
  <2>3. home(m) = Elem(same)
    BY DEF PlaceOf
  <2> HIDE DEF same, home, stands, places
  <2>4. places[p] \in same /\ \A x \in same : x = places[p]
    BY <1>1, <1>3, <2>1, <2>2
  <2>5. Elem(same) = places[p]
    BY <2>4, ElemOfOne
  <2>6. QED
    BY <2>1, <2>3, <2>5
<1>5. \A m \in ports : home(m) = home(n) <=> Renamed(rewrite, m) = Renamed(rewrite, n)
  <2>1. \A m \in ports : home(m).name = Renamed(rewrite, m)
    BY <1>3, <1>4
  <2>2. \A m : Renamed(rewrite, m) = Renamed(rewrite, n) => home(m) = home(n)
    OBVIOUS
  <2> HIDE DEF home
  <2>3. QED
    BY <2>1, <2>2
<1> HIDE DEF home, ports, stands, places
<1>6. {m \in ports : home(m) = home(n)} = ConnectedTo(wires, n)
  <2>1. n \in ports
    BY DEF ports
  <2>2. QED
    BY <1>2, <1>5, <2>1
<1>7. stands(n, home(n))
  BY <1>4 DEF ports
<1>8. QED
  BY <1>6, <1>7 DEF home, ports, stands

(* Merging a valid composition is what FusionFollows demands.              *)
LEMMA MergedFollows ==
  ASSUME NEW uses, NEW wires, Composed(uses, wires)
  PROVE  FusionFollows(uses, wires, Merged(uses, wires), RewriteMap(uses, Fusion(wires)))
<1>1. PICK rewrite : rewrite = RewriteMap(uses, Fusion(wires))
  OBVIOUS
<1>2. PICK merged : merged = Merged(uses, wires)
  OBVIOUS
<1>3. merged.marking = MergedMarking(uses, rewrite)
  BY <1>1, <1>2 DEF Merged, MergedUnder
<1> DEFINE home(n) == PlaceOf(merged, Renamed(rewrite, n))
           class(n) == ConnectedTo(wires, n)
<1>4. ASSUME NEW n \in PortsIn(uses)
      PROVE  /\ {m \in PortsIn(uses) : home(m) = home(n)} = class(n)
             /\ Seqs!ToSet(home(n).accepts) =
                  UNION {Seqs!ToSet(QPlace(uses, m).accepts) : m \in class(n)}
             /\ home(n).port = IF n \in Wired(wires) THEN {} ELSE QPlace(uses, n).port
             /\ \A x : Cardinality(Positions(Held(merged.marking, home(n).name), x)) =
                         Cardinality(UNION {{<<m, i>> : i \in Positions(OwnTokens(uses, m), x)} :
                                              m \in class(n)})
  <2>1. /\ StandsFor(uses, wires, rewrite, n, home(n))
        /\ {m \in PortsIn(uses) : home(m) = home(n)} = class(n)
    BY <1>1, <1>2, HomeOfPort
  <2>2. /\ home(n).name = Renamed(rewrite, n)
        /\ Elements(home(n).accepts) =
             UNION {Elements(QPlace(uses, m).accepts) : m \in class(n)}
        /\ home(n).port = IF n \in Wired(wires) THEN {} ELSE QPlace(uses, n).port
    BY <2>1 DEF StandsFor
  <2> HIDE DEF home
  <2>3. Seqs!ToSet(home(n).accepts) =
          UNION {Seqs!ToSet(QPlace(uses, m).accepts) : m \in class(n)}
    <3>1. \A m : Seqs!ToSet(QPlace(uses, m).accepts) = Elements(QPlace(uses, m).accepts)
      BY ToSetIsElements
    <3>2. Seqs!ToSet(home(n).accepts) = Elements(home(n).accepts)
      BY ToSetIsElements
    <3> HIDE DEF class
    <3>3. QED
      BY <2>2, <3>1, <3>2
  <2>4. \A x : Cardinality(Positions(Held(merged.marking, Renamed(rewrite, n)), x)) =
                 Cardinality(UNION {{<<m, i>> : i \in Positions(OwnTokens(uses, m), x)} :
                                      m \in class(n)})
    BY <1>1, <1>3, MergedTokens
  <2> HIDE DEF class
  <2>5. QED
    BY <2>1, <2>2, <2>3, <2>4
<1>5. FusionFollows(uses, wires, merged, rewrite)
  BY <1>4 DEF FusionFollows
<1>6. QED
  BY <1>1, <1>2, <1>5

(* FusionFollowsTheWires, always: places are one in the merged net exactly *)
(* when wires connect them, accept what their members accept, have lost    *)
(* their ports and start with the tokens of their members together         *)
(* (merge_nets), and nothing else is changed by the merge.                 *)
THEOREM FusionFollowsWires == Spec => []FusionFollowsTheWires
<1>1. DocumentInv /\ UsesListed(tables) => FusionFollowsTheWires
  <2>1. SUFFICES ASSUME DocumentInv, UsesListed(tables), NEW c \in ResolvedCompositions
        PROVE  FusionFollows(c.uses, c.wires, Merged(c.uses, c.wires),
                             RewriteMap(c.uses, Fusion(c.wires)))
    BY DEF FusionFollowsTheWires
  <2>2. Composed(c.uses, c.wires)
    BY <2>1, ResolvedIsListed DEF Composed
  <2>3. QED
    BY <2>2, MergedFollows
<1>2. QED
  BY <1>1, DocumentIsSound, UsesAreListed, PTL

-----------------------------------------------------------------------------
(* The transitions and arcs of the merged net.                             *)

(* Lists put one after the other: at tells which list an element is from   *)
(* and where it stood there.                                               *)
Concatenation(u, ss, at) ==
  /\ \A q \in DOMAIN u : /\ at[q][1] \in DOMAIN ss /\ at[q][2] \in DOMAIN ss[at[q][1]]
                         /\ u[q] = ss[at[q][1]][at[q][2]]
  /\ \A q \in DOMAIN u, r \in DOMAIN u :
       at[q][1] = at[r][1] /\ at[q][2] = at[r][2] => q = r

(* Flattening is one, and keeps every element.                             *)
LEMMA Concatenated ==
  ASSUME NEW S, NEW ss \in Seq(Seq(S)), NEW u, u = Seqs!FlattenSeq(ss)
  PROVE  /\ \E at : Concatenation(u, ss, at)
         /\ \A x : x \in Elements(u) <=> \E i \in DOMAIN ss : \E j \in DOMAIN ss[i] : x = ss[i][j]
<1>1. \E at : LaidOut(Seqs!FlattenSeq(ss), ss, Len(ss), at)
  BY FlattenedIsLaidOut
<1>2. PICK at : LaidOut(u, ss, Len(ss), at)
  BY <1>1
<1>3. DOMAIN ss = 1..Len(ss) /\ Len(ss) \in Nat
  OBVIOUS
<1>4. \A spot : spot \in Spots(ss, Len(ss)) =>
         /\ spot = <<spot[1], spot[2]>> /\ spot[1] \in DOMAIN ss /\ spot[2] \in DOMAIN ss[spot[1]]
  BY <1>3 DEF Spots
<1>5. /\ \A q \in DOMAIN u : at[q] \in Spots(ss, Len(ss)) /\ u[q] = ss[at[q][1]][at[q][2]]
      /\ \A q \in DOMAIN u, r \in DOMAIN u : at[q] = at[r] => q = r
  BY <1>2 DEF LaidOut
<1>6. \A q \in DOMAIN u : /\ at[q] = <<at[q][1], at[q][2]>>
                          /\ at[q][1] \in DOMAIN ss /\ at[q][2] \in DOMAIN ss[at[q][1]]
  BY <1>4, <1>5
<1>7. ASSUME NEW q \in DOMAIN u, NEW r \in DOMAIN u, at[q][1] = at[r][1], at[q][2] = at[r][2]
      PROVE  q = r
  <2>1. at[q] = at[r]
    BY <1>6, <1>7
  <2>2. QED
    BY <1>5, <2>1
<1>8. Concatenation(u, ss, at)
  BY <1>5, <1>6, <1>7 DEF Concatenation
<1>9. \A x : x \in Elements(u) <=> \E i \in DOMAIN ss : \E j \in DOMAIN ss[i] : x = ss[i][j]
  <2>1. Elements(Seqs!FlattenSeq(ss)) = UNION {Elements(ss[i]) : i \in DOMAIN ss}
    BY FlattenedElements
  <2>2. \A x : x \in Elements(Seqs!FlattenSeq(ss)) <=> \E i \in DOMAIN ss : x \in Elements(ss[i])
    BY <2>1
  <2>3. \A i \in DOMAIN ss : \A x : x \in Elements(ss[i]) <=> \E j \in DOMAIN ss[i] : x = ss[i][j]
    BY DEF Elements
  <2>4. QED
    BY <2>2, <2>3
<1>10. QED
  BY <1>8, <1>9

(* A list of lists as the merge builds it: one for each use, each as long  *)
(* as a list of the used net.                                              *)
LEMMA ListOfLists ==
  ASSUME NEW uses, DOMAIN uses = 1..Len(uses), Len(uses) \in Nat,
         NEW ss, ss = [i \in DOMAIN uses |-> ss[i]],
         \A i \in DOMAIN uses : \E n \in Nat : ss[i] = [j \in 1..n |-> ss[i][j]]
  PROVE  \E S : ss \in Seq(Seq(S))
<1> DEFINE S == UNION {Elements(ss[i]) : i \in DOMAIN uses}
<1>1. \A i \in DOMAIN uses : ss[i] \in Seq(S)
  <2>1. SUFFICES ASSUME NEW i \in DOMAIN uses PROVE ss[i] \in Seq(S)
    OBVIOUS
  <2>2. PICK n \in Nat : ss[i] = [j \in 1..n |-> ss[i][j]]
    OBVIOUS
  <2>3. DOMAIN ss[i] = 1..n
    BY <2>2
  <2>4. \A j \in 1..n : ss[i][j] \in S
    BY <2>3 DEF Elements
  <2> HIDE DEF S
  <2>5. QED
    BY <2>2, <2>4
<1> HIDE DEF S
<1>2. ss \in Seq(Seq(S))
  BY <1>1
<1>3. QED
  BY <1>2

(* Each transition and each arc of a used net is rewritten once, and       *)
(* transitions keep names of their own.                                    *)
Rewritten(uses, rewrite, merged) ==
  /\ \A x : x \in Elements(merged.arcs) <=>
       \E i \in DOMAIN uses : \E j \in DOMAIN NetAt(uses, i).arcs :
         x = MergedArc(rewrite, uses[i].alias, NetAt(uses, i).arcs[j])
  /\ \A x : x \in Elements(merged.transitions) <=>
       \E i \in DOMAIN uses : \E j \in DOMAIN NetAt(uses, i).transitions :
         x = MergedTransition(rewrite, uses[i].alias, NetAt(uses, i).transitions[j])
  /\ NamesUnique(merged.transitions)

(* Which is how they are merged.                                           *)
LEMMA MergedLists ==
  ASSUME NEW uses, NEW wires, Composed(uses, wires),
         NEW rewrite, rewrite = RewriteMap(uses, Fusion(wires)),
         NEW merged, merged = Merged(uses, wires)
  PROVE  Rewritten(uses, rewrite, merged)
<1> DEFINE arcs == [i \in DOMAIN uses |-> MergedArcs(uses[i], rewrite)]
           ts == [i \in DOMAIN uses |-> MergedTransitions(uses[i], rewrite)]
<1>1. /\ merged.arcs = Seqs!FlattenSeq(arcs)
      /\ merged.transitions = Seqs!FlattenSeq(ts)
  BY DEF Merged, MergedUnder
<1>2. DOMAIN uses = 1..Len(uses) /\ Len(uses) \in Nat
  BY DEF Composed
<1>3. \A i \in DOMAIN uses :
         /\ IsNet(NetAt(uses, i)) /\ ValidNet(NetAt(uses, i))
         /\ \A j \in DOMAIN uses : uses[j].alias = uses[i].alias => j = i
  BY UsedNets
<1>4. \A i \in DOMAIN uses :
         /\ \E n \in Nat : DOMAIN NetAt(uses, i).arcs = 1..n
         /\ \E n \in Nat : DOMAIN NetAt(uses, i).transitions = 1..n
  <2>1. ASSUME NEW s, IsList(s) PROVE \E n \in Nat : DOMAIN s = 1..n
    BY <2>1 DEF IsList
  <2>2. QED
    BY <1>3, <2>1 DEF IsNet
<1>5. \A i \in DOMAIN uses :
         /\ arcs[i] = [j \in DOMAIN NetAt(uses, i).arcs |-> arcs[i][j]]
         /\ DOMAIN arcs[i] = DOMAIN NetAt(uses, i).arcs
         /\ \A j \in DOMAIN arcs[i] :
              arcs[i][j] = MergedArc(rewrite, uses[i].alias, NetAt(uses, i).arcs[j])
  BY DEF MergedArcs, NetAt
<1>6. \A i \in DOMAIN uses :
         /\ ts[i] = [j \in DOMAIN NetAt(uses, i).transitions |-> ts[i][j]]
         /\ DOMAIN ts[i] = DOMAIN NetAt(uses, i).transitions
         /\ \A j \in DOMAIN ts[i] :
              ts[i][j] = MergedTransition(rewrite, uses[i].alias, NetAt(uses, i).transitions[j])
  BY DEF MergedTransitions, NetAt
<1>7. arcs = [i \in DOMAIN uses |-> arcs[i]] /\ ts = [i \in DOMAIN uses |-> ts[i]]
  OBVIOUS
<1> HIDE DEF arcs, ts
<1>8. DOMAIN arcs = DOMAIN uses /\ DOMAIN ts = DOMAIN uses
  BY <1>7
<1>9. \A i \in DOMAIN uses : /\ \E n \in Nat : arcs[i] = [j \in 1..n |-> arcs[i][j]]
                             /\ \E n \in Nat : ts[i] = [j \in 1..n |-> ts[i][j]]
  BY <1>4, <1>5, <1>6
<1>10. \E S : arcs \in Seq(Seq(S))
  BY <1>2, <1>7, <1>9, ListOfLists
<1>11. \E S : ts \in Seq(Seq(S))
  BY <1>2, <1>7, <1>9, ListOfLists
<1>12. \A x : x \in Elements(merged.arcs) <=>
          \E i \in DOMAIN uses : \E j \in DOMAIN NetAt(uses, i).arcs :
            x = MergedArc(rewrite, uses[i].alias, NetAt(uses, i).arcs[j])
  <2>1. PICK S : arcs \in Seq(Seq(S))
    BY <1>10
  <2>2. \A x : x \in Elements(merged.arcs) <=>
           \E i \in DOMAIN arcs : \E j \in DOMAIN arcs[i] : x = arcs[i][j]
    BY <1>1, <2>1, Concatenated
  <2>3. QED
    BY <1>5, <1>8, <2>2
<1>13. PICK S : ts \in Seq(Seq(S))
  BY <1>11
<1>14. PICK at : Concatenation(merged.transitions, ts, at)
  BY <1>1, <1>13, Concatenated
<1>15. /\ \A q \in DOMAIN merged.transitions :
           /\ at[q][1] \in DOMAIN ts /\ at[q][2] \in DOMAIN ts[at[q][1]]
           /\ merged.transitions[q] = ts[at[q][1]][at[q][2]]
       /\ \A q \in DOMAIN merged.transitions, r \in DOMAIN merged.transitions :
           at[q][1] = at[r][1] /\ at[q][2] = at[r][2] => q = r
  BY <1>14 DEF Concatenation
<1>16. \A x : x \in Elements(merged.transitions) <=>
          \E i \in DOMAIN uses : \E j \in DOMAIN NetAt(uses, i).transitions :
            x = MergedTransition(rewrite, uses[i].alias, NetAt(uses, i).transitions[j])
  <2>1. \A x : x \in Elements(merged.transitions) <=>
           \E i \in DOMAIN ts : \E j \in DOMAIN ts[i] : x = ts[i][j]
    BY <1>1, <1>13, Concatenated
  <2>2. QED
    BY <1>6, <1>8, <2>1
<1>17. \A i \in DOMAIN uses : \A j \in DOMAIN ts[i] :
          ts[i][j].name = <<uses[i].alias, NetAt(uses, i).transitions[j].name>>
  <2>1. SUFFICES ASSUME NEW i \in DOMAIN uses, NEW j \in DOMAIN ts[i]
        PROVE  ts[i][j].name = <<uses[i].alias, NetAt(uses, i).transitions[j].name>>
    OBVIOUS
  <2>2. DOMAIN NetAt(uses, i).transitions[j] = {"name", "timer", "attributes"}
    <3>1. \A t \in Elements(NetAt(uses, i).transitions) : DOMAIN t = {"name", "timer", "attributes"}
      BY <1>3, ToSetIsElements DEF IsNet
    <3>2. j \in DOMAIN NetAt(uses, i).transitions
      BY <1>6
    <3>3. NetAt(uses, i).transitions[j] \in Elements(NetAt(uses, i).transitions)
      BY <3>2 DEF Elements
    <3>4. QED
      BY <3>1, <3>3
  <2>3. QED
    BY <1>6, <2>2 DEF MergedTransition
<1>18. ASSUME NEW q \in DOMAIN merged.transitions, NEW r \in DOMAIN merged.transitions,
              merged.transitions[q].name = merged.transitions[r].name
       PROVE  q = r
  <2>1. PICK i \in DOMAIN uses, k \in DOMAIN uses : i = at[q][1] /\ k = at[r][1]
    BY <1>8, <1>15
  <2>2. PICK j \in DOMAIN ts[i] : j = at[q][2]
    BY <1>15, <2>1
  <2>3. PICK l \in DOMAIN ts[k] : l = at[r][2]
    BY <1>15, <2>1
  <2>4. merged.transitions[q] = ts[i][j] /\ merged.transitions[r] = ts[k][l]
    BY <1>15, <2>1, <2>2, <2>3
  <2>5. <<uses[i].alias, NetAt(uses, i).transitions[j].name>> =
          <<uses[k].alias, NetAt(uses, k).transitions[l].name>>
    BY <1>17, <1>18, <2>4
  <2>6. i = k
    BY <1>3, <2>5
  <2>7. NetAt(uses, i).transitions[j].name = NetAt(uses, i).transitions[l].name
    BY <2>5, <2>6
  <2>8. j = l
    BY <1>3, <1>6, <2>6, <2>7 DEF ValidNet, StructureValid, NamesUnique
  <2>9. QED
    BY <1>15, <2>1, <2>2, <2>3, <2>6, <2>8
<1>19. NamesUnique(merged.transitions)
  BY <1>18 DEF NamesUnique
<1>20. QED
  BY <1>12, <1>16, <1>19 DEF Rewritten

(* What rewriting does to the members of an arc, and of a transition.      *)
ArcFollows(rewrite, alias, arc, new) ==
  /\ new.mode = arc.mode /\ new.color = arc.color /\ new.weight = arc.weight
  /\ new.filter = arc.filter /\ new.correlate = arc.correlate /\ new.data = arc.data
  /\ new.cel = {}
  /\ new.destination = Renamed(rewrite, <<alias, arc.destination>>)
  /\ arc.from[1] = "place" => new.from = <<"place", Renamed(rewrite, <<alias, arc.from[2]>>)>>
  /\ arc.from[1] = "transition" => new.from = <<"transition", <<alias, arc.from[2]>>>>
  /\ arc.to[1] = "place" => new.to = <<"place", Renamed(rewrite, <<alias, arc.to[2]>>)>>
  /\ arc.to[1] = "transition" => new.to = <<"transition", <<alias, arc.to[2]>>>>

TransitionFollows(rewrite, alias, t, new) ==
  /\ new.name = <<alias, t.name>> /\ new.attributes = t.attributes
  /\ \A timer \in new.timer : \E own \in t.timer :
       /\ timer.clock = Renamed(rewrite, <<alias, own.clock>>)
       /\ timer.cel = own.cel /\ timer.maturity = own.maturity
       /\ \A b \in timer.bind : \E old \in own.bind :
            b[1] = old[1] /\ b[2] = Renamed(rewrite, <<alias, old[2]>>)

(* An arc of the merged net follows the one it is made of.                 *)
LEMMA ArcRewritten ==
  ASSUME NEW net, IsNet(net), NEW j \in DOMAIN net.arcs,
         NEW rewrite, NEW alias, NEW arc, arc = net.arcs[j],
         NEW new, new = MergedArc(rewrite, alias, arc)
  PROVE  ArcFollows(rewrite, alias, arc, new)
<1>1. \A x \in Elements(net.arcs) :
         DOMAIN x = {"from", "to", "mode", "color", "weight", "filter", "correlate",
                     "destination", "data", "cel", "attributes"}
  BY ToSetIsElements DEF IsNet
<1>2. net.arcs[j] \in Elements(net.arcs)
  BY DEF Elements
<1>3. DOMAIN arc = {"from", "to", "mode", "color", "weight", "filter", "correlate",
                    "destination", "data", "cel", "attributes"}
  BY <1>1, <1>2
<1>4. QED
  BY <1>3 DEF MergedArc, ArcFollows

(* So does a transition of the merged net, its timer included.             *)
LEMMA TransitionRewritten ==
  ASSUME NEW net, IsNet(net), NEW j \in DOMAIN net.transitions,
         NEW rewrite, NEW alias, NEW t, t = net.transitions[j],
         NEW new, new = MergedTransition(rewrite, alias, t)
  PROVE  TransitionFollows(rewrite, alias, t, new)
<1>1. \A x \in Elements(net.transitions) :
         /\ DOMAIN x = {"name", "timer", "attributes"}
         /\ \A timer \in x.timer : DOMAIN timer = {"clock", "cel", "maturity", "bind"}
  BY ToSetIsElements DEF IsNet
<1>2. net.transitions[j] \in Elements(net.transitions)
  BY DEF Elements
<1>3. /\ DOMAIN t = {"name", "timer", "attributes"}
      /\ \A timer \in t.timer : DOMAIN timer = {"clock", "cel", "maturity", "bind"}
  BY <1>1, <1>2
<1> DEFINE place(p) == Renamed(rewrite, <<alias, p>>)
           rewritten(timer) ==
             [timer EXCEPT !.clock = place(@), !.bind = {<<b[1], place(b[2])>> : b \in @}]
<1>4. /\ new.name = <<alias, t.name>> /\ new.attributes = t.attributes
      /\ new.timer = {rewritten(timer) : timer \in t.timer}
  BY <1>3 DEF MergedTransition
<1>5. ASSUME NEW own \in t.timer
      PROVE  /\ rewritten(own).clock = place(own.clock)
             /\ rewritten(own).cel = own.cel /\ rewritten(own).maturity = own.maturity
             /\ rewritten(own).bind = {<<b[1], place(b[2])>> : b \in own.bind}
  BY <1>3
<1> HIDE DEF rewritten, place
<1>6. ASSUME NEW timer \in new.timer
      PROVE  \E own \in t.timer :
               /\ timer.clock = place(own.clock)
               /\ timer.cel = own.cel /\ timer.maturity = own.maturity
               /\ \A b \in timer.bind : \E old \in own.bind :
                    b[1] = old[1] /\ b[2] = place(old[2])
  <2>1. PICK own \in t.timer : timer = rewritten(own)
    BY <1>4
  <2>2. timer.bind = {<<b[1], place(b[2])>> : b \in own.bind}
    BY <1>5, <2>1
  <2>3. \A b \in timer.bind : \E old \in own.bind : b[1] = old[1] /\ b[2] = place(old[2])
    BY <2>2
  <2>4. QED
    BY <1>5, <2>1, <2>3
<1>7. QED
  BY <1>4, <1>6 DEF place, TransitionFollows

(* A place of a used net is there after the merge, under its new name, and *)
(* accepts what it did.                                                    *)
LEMMA PlacesRemain ==
  ASSUME NEW uses, NEW wires, Composed(uses, wires),
         NEW rewrite, rewrite = RewriteMap(uses, Fusion(wires)),
         NEW merged, merged = Merged(uses, wires),
         NEW i \in DOMAIN uses, NEW p \in NamesIn(NetAt(uses, i).places),
         NEW name, name = Renamed(rewrite, <<uses[i].alias, p>>)
  PROVE  /\ name \in NamesIn(merged.places)
         /\ AcceptedBy(NetAt(uses, i), p) \subseteq AcceptedBy(merged, name)
<1>1. PICK k \in DOMAIN NetAt(uses, i).places : p = NetAt(uses, i).places[k].name
  BY DEF NamesIn
<1>2. IsNet(NetAt(uses, i)) /\ ValidNet(NetAt(uses, i))
  BY UsedNets
<1>3. \A l \in DOMAIN NetAt(uses, i).places : NetAt(uses, i).places[l].name = p => l = k
  BY <1>1, <1>2, PlacesOfNet
<1> DEFINE n == PortAt(uses, i, k)
<1>4. n \in PortsIn(uses) /\ QPlace(uses, n) = NetAt(uses, i).places[k]
  BY PortsAre
<1>5. Renamed(rewrite, n) = name
  BY <1>1 DEF PortAt
<1>6. n \in ConnectedTo(wires, n)
  BY NamesFollowWires
<1>7. PlacesStand(uses, wires, rewrite, merged.places)
  BY MergedPlaces
<1> HIDE DEF n
<1>8. PICK q \in DOMAIN merged.places : StandsFor(uses, wires, rewrite, n, merged.places[q])
  BY <1>4, <1>7 DEF PlacesStand
<1>9. merged.places[q].name = name
  BY <1>5, <1>8 DEF StandsFor
<1>10. Elements(NetAt(uses, i).places[k].accepts) \subseteq Elements(merged.places[q].accepts)
  BY <1>4, <1>6, <1>8 DEF StandsFor
<1>11. \A x \in AcceptedBy(NetAt(uses, i), p) : x \in Elements(NetAt(uses, i).places[k].accepts)
  BY <1>3, ToSetIsElements DEF AcceptedBy
<1>12. \A x \in Elements(merged.places[q].accepts) : x \in AcceptedBy(merged, name)
  BY <1>9, ToSetIsElements DEF AcceptedBy
<1>13. name \in NamesIn(merged.places)
  BY <1>9 DEF NamesIn
<1>14. QED
  BY <1>10, <1>11, <1>12, <1>13

(* No two places have a name, and the ports left on the boundary have types *)
(* their places accept.                                                    *)
LEMMA MergedPlacesAreValid ==
  ASSUME NEW uses, NEW wires, Composed(uses, wires),
         NEW merged, merged = Merged(uses, wires)
  PROVE  NamesUnique(merged.places) /\ PortsAccepted(merged)
<1>1. PICK rewrite : rewrite = RewriteMap(uses, Fusion(wires))
  OBVIOUS
<1>2. PlacesStand(uses, wires, rewrite, merged.places)
  BY <1>1, MergedPlaces
<1>3. NamesUnique(merged.places)
  BY <1>2 DEF PlacesStand, NamesUnique
<1>4. ASSUME NEW q \in DOMAIN merged.places, NEW port \in merged.places[q].port
      PROVE  port.type \in Seqs!ToSet(merged.places[q].accepts)
  <2>1. PICK n \in PortsIn(uses) : StandsFor(uses, wires, rewrite, n, merged.places[q])
    BY <1>2 DEF PlacesStand
  <2>2. PICK i \in DOMAIN uses : \E k \in DOMAIN NetAt(uses, i).places : n = PortAt(uses, i, k)
    BY PortsAre
  <2>3. PICK k \in DOMAIN NetAt(uses, i).places : n = PortAt(uses, i, k)
    BY <2>2
  <2>4. QPlace(uses, n) = NetAt(uses, i).places[k]
    BY <2>3, PortsAre
  <2>5. port \in NetAt(uses, i).places[k].port
    BY <1>4, <2>1, <2>4 DEF StandsFor
  <2>6. PortsAccepted(NetAt(uses, i))
    BY UsedNets DEF ValidNet, StructureValid
  <2>7. port.type \in Elements(NetAt(uses, i).places[k].accepts)
    BY <2>5, <2>6, ToSetIsElements DEF PortsAccepted
  <2>8. n \in ConnectedTo(wires, n)
    BY <1>1, NamesFollowWires
  <2>9. port.type \in Elements(merged.places[q].accepts)
    BY <2>1, <2>4, <2>7, <2>8 DEF StandsFor
  <2>10. QED
    BY <2>9, ToSetIsElements
<1>5. QED
  BY <1>3, <1>4 DEF PortsAccepted

(* The arcs of a valid net are valid after the merge, each at the places   *)
(* its ends are renamed to.                                                *)
LEMMA MergedArcsAreValid ==
  ASSUME NEW uses, NEW wires, Composed(uses, wires),
         NEW rewrite, rewrite = RewriteMap(uses, Fusion(wires)),
         NEW merged, merged = Merged(uses, wires),
         NEW i \in DOMAIN uses, NEW j \in DOMAIN NetAt(uses, i).arcs,
         NEW new, new = MergedArc(rewrite, uses[i].alias, NetAt(uses, i).arcs[j])
  PROVE  IF IsInput(new) THEN ValidConsumeArc(merged, new) ELSE ValidProduceArc(merged, new)
<1> DEFINE net == NetAt(uses, i)
           arc == net.arcs[j]
           renamed(p) == Renamed(rewrite, <<uses[i].alias, p>>)
<1>1. IsNet(net) /\ ValidNet(net)
  BY UsedNets
<1>2. IF IsInput(arc) THEN ValidConsumeArc(net, arc) ELSE ValidProduceArc(net, arc)
  BY <1>1 DEF ValidNet, StructureValid
<1>3. /\ new.mode = arc.mode /\ new.color = arc.color /\ new.weight = arc.weight
      /\ new.filter = arc.filter /\ new.correlate = arc.correlate /\ new.data = arc.data
      /\ new.cel = {} /\ new.destination = renamed(arc.destination)
      /\ arc.from[1] = "place" => new.from = <<"place", renamed(arc.from[2])>>
      /\ arc.from[1] = "transition" => new.from = <<"transition", <<uses[i].alias, arc.from[2]>>>>
      /\ arc.to[1] = "place" => new.to = <<"place", renamed(arc.to[2])>>
      /\ arc.to[1] = "transition" => new.to = <<"transition", <<uses[i].alias, arc.to[2]>>>>
  <2>1. ArcFollows(rewrite, uses[i].alias, arc, new)
    BY <1>1, ArcRewritten
  <2>2. QED
    BY <2>1 DEF ArcFollows
<1>4. \A p \in NamesIn(net.places) : /\ renamed(p) \in NamesIn(merged.places)
                                     /\ AcceptedBy(net, p) \subseteq AcceptedBy(merged, renamed(p))
  BY PlacesRemain
<1>5. \A t \in NamesIn(net.transitions) : <<uses[i].alias, t>> \in NamesIn(merged.transitions)
  <2>1. SUFFICES ASSUME NEW k \in DOMAIN net.transitions
        PROVE  <<uses[i].alias, net.transitions[k].name>> \in NamesIn(merged.transitions)
    BY DEF NamesIn
  <2>2. PICK t : t = MergedTransition(rewrite, uses[i].alias, net.transitions[k])
    OBVIOUS
  <2>3. t.name = <<uses[i].alias, net.transitions[k].name>>
    <3>1. TransitionFollows(rewrite, uses[i].alias, net.transitions[k], t)
      BY <1>1, <2>2, TransitionRewritten
    <3>2. QED
      BY <3>1 DEF TransitionFollows
  <2>4. t \in Elements(merged.transitions)
    BY <2>2, MergedLists DEF Rewritten
  <2>5. QED
    BY <2>3, <2>4 DEF NamesIn, Elements
<1> HIDE DEF net, arc, renamed
<1>6. CASE IsInput(arc)
  <2>1. /\ arc.from \in {"place"} \X NamesIn(net.places)
        /\ arc.to \in {"transition"} \X NamesIn(net.transitions)
        /\ arc.color \in AcceptedBy(net, arc.from[2])
        /\ arc.weight >= 1
        /\ arc.mode = "inhibit" => arc.weight = 1
        /\ arc.correlate # {} => arc.mode = "inhibit"
        /\ Compiles(CelOf(arc.filter) \cup arc.correlate)
    BY <1>2, <1>6 DEF ValidConsumeArc
  <2>2. /\ arc.from[1] = "place" /\ arc.from[2] \in NamesIn(net.places)
        /\ arc.to[1] = "transition" /\ arc.to[2] \in NamesIn(net.transitions)
    BY <2>1
  <2>3. /\ new.from = <<"place", renamed(arc.from[2])>>
        /\ new.to = <<"transition", <<uses[i].alias, arc.to[2]>>>>
    BY <1>3, <2>2
  <2>4. /\ new.from \in {"place"} \X NamesIn(merged.places)
        /\ new.to \in {"transition"} \X NamesIn(merged.transitions)
        /\ new.from[2] = renamed(arc.from[2])
    BY <1>4, <1>5, <2>2, <2>3
  <2>5. new.color \in AcceptedBy(merged, new.from[2])
    BY <1>3, <1>4, <2>1, <2>2, <2>4
  <2>6. IsInput(new)
    BY <1>3, <1>6 DEF IsInput
  <2>7. ValidConsumeArc(merged, new)
    BY <1>3, <2>1, <2>4, <2>5 DEF ValidConsumeArc
  <2>8. QED
    BY <2>6, <2>7
<1>7. CASE ~IsInput(arc)
  <2>1. /\ arc.from \in {"transition"} \X NamesIn(net.transitions)
        /\ arc.to \in {"place"} \X NamesIn(net.places)
        /\ arc.destination = arc.to[2]
        /\ arc.color \in AcceptedBy(net, arc.to[2])
    BY <1>2, <1>7 DEF ValidProduceArc
  <2>2. /\ arc.from[1] = "transition" /\ arc.from[2] \in NamesIn(net.transitions)
        /\ arc.to[1] = "place" /\ arc.to[2] \in NamesIn(net.places)
    BY <2>1
  <2>3. /\ new.from = <<"transition", <<uses[i].alias, arc.from[2]>>>>
        /\ new.to = <<"place", renamed(arc.to[2])>>
    BY <1>3, <2>2
  <2>4. /\ new.from \in {"transition"} \X NamesIn(merged.transitions)
        /\ new.to \in {"place"} \X NamesIn(merged.places)
        /\ new.to[2] = renamed(arc.to[2])
    BY <1>4, <1>5, <2>2, <2>3
  <2>5. new.color \in AcceptedBy(merged, new.to[2])
    BY <1>3, <1>4, <2>1, <2>2, <2>4
  <2>6. new.destination = new.to[2]
    BY <1>3, <2>1, <2>4
  <2>7. ~IsInput(new)
    BY <1>3, <1>7 DEF IsInput
  <2>8. ValidProduceArc(merged, new)
    BY <1>3, <2>4, <2>5, <2>6 DEF ValidProduceArc, Compiles
  <2>9. QED
    BY <2>7, <2>8
<1>8. QED
  BY <1>6, <1>7

(* A timer's clock and bindings are there after the merge.                 *)
LEMMA MergedTimersAreValid ==
  ASSUME NEW uses, NEW wires, Composed(uses, wires),
         NEW rewrite, rewrite = RewriteMap(uses, Fusion(wires)),
         NEW merged, merged = Merged(uses, wires),
         NEW i \in DOMAIN uses, NEW j \in DOMAIN NetAt(uses, i).transitions,
         NEW new, new = MergedTransition(rewrite, uses[i].alias, NetAt(uses, i).transitions[j]),
         NEW timer \in new.timer
  PROVE  ValidTimer(merged, new.name, timer)
<1> DEFINE net == NetAt(uses, i)
           t == net.transitions[j]
           renamed(p) == Renamed(rewrite, <<uses[i].alias, p>>)
<1>1. IsNet(net) /\ ValidNet(net)
  BY UsedNets
<1>2. /\ new.name = <<uses[i].alias, t.name>>
      /\ \E own \in t.timer :
           /\ timer.clock = renamed(own.clock)
           /\ timer.cel = own.cel /\ timer.maturity = own.maturity
           /\ \A b \in timer.bind : \E old \in own.bind :
                b[1] = old[1] /\ b[2] = renamed(old[2])
  <2>1. TransitionFollows(rewrite, uses[i].alias, t, new)
    BY <1>1, TransitionRewritten
  <2>2. QED
    BY <2>1 DEF TransitionFollows
<1>3. \A own \in t.timer : ValidTimer(net, t.name, own)
  BY <1>1 DEF ValidNet, TimersValid
<1>4. \A p \in NamesIn(net.places) : renamed(p) \in NamesIn(merged.places)
  BY PlacesRemain
<1>5. \A p \in BindingSources(net, t.name) :
         renamed(p) \in BindingSources(merged, <<uses[i].alias, t.name>>)
  <2>1. SUFFICES ASSUME NEW k \in DOMAIN net.arcs, net.arcs[k].mode \in {"consume", "read"},
                        net.arcs[k].to[2] = t.name
        PROVE  renamed(net.arcs[k].from[2]) \in BindingSources(merged, <<uses[i].alias, t.name>>)
    <3>1. \A p \in BindingSources(net, t.name) : \E x \in Elements(net.arcs) :
            x.mode \in {"consume", "read"} /\ x.to[2] = t.name /\ p = x.from[2]
      BY ToSetIsElements DEF BindingSources
    <3> HIDE DEF net, t, renamed
    <3>2. QED
      BY <3>1 DEF Elements
  <2>2. PICK arc : arc = MergedArc(rewrite, uses[i].alias, net.arcs[k])
    OBVIOUS
  <2>3. arc \in Elements(merged.arcs)
    BY <2>2, MergedLists DEF Rewritten
  <2>4. ValidConsumeArc(net, net.arcs[k])
    BY <1>1, <2>1 DEF ValidNet, StructureValid, IsInput
  <2>5. net.arcs[k].from[1] = "place" /\ net.arcs[k].to[1] = "transition"
    BY <2>4 DEF ValidConsumeArc
  <2>6. /\ arc.mode = net.arcs[k].mode
        /\ arc.from = <<"place", renamed(net.arcs[k].from[2])>>
        /\ arc.to = <<"transition", <<uses[i].alias, t.name>>>>
    <3>1. ArcFollows(rewrite, uses[i].alias, net.arcs[k], arc)
      BY <1>1, <2>2, ArcRewritten
    <3>2. QED
      BY <2>1, <2>5, <3>1 DEF ArcFollows
  <2> HIDE DEF net, t, renamed
  <2>7. QED
    BY <2>1, <2>3, <2>6, ToSetIsElements DEF BindingSources
<1> HIDE DEF net, t, renamed
<1>6. PICK own \in t.timer :
        /\ timer.clock = renamed(own.clock)
        /\ timer.cel = own.cel /\ timer.maturity = own.maturity
        /\ \A b \in timer.bind : \E old \in own.bind :
             b[1] = old[1] /\ b[2] = renamed(old[2])
  BY <1>2
<1>7. /\ own.clock \in NamesIn(net.places)
      /\ \A b \in own.bind : b[1] # "clock" /\ b[2] \in BindingSources(net, t.name)
      /\ Compiles({own.cel} \cup own.maturity)
  BY <1>3 DEF ValidTimer
<1>8. \A b \in timer.bind : b[1] # "clock" /\ b[2] \in BindingSources(merged, new.name)
  BY <1>2, <1>5, <1>6, <1>7
<1>9. QED
  BY <1>4, <1>6, <1>7, <1>8 DEF ValidTimer

(* Merging a valid composition makes a valid net.                          *)
LEMMA MergedIsNet ==
  ASSUME NEW uses, NEW wires, Composed(uses, wires),
         NEW merged, merged = Merged(uses, wires)
  PROVE  ValidNet(merged)
<1>1. PICK rewrite : rewrite = RewriteMap(uses, Fusion(wires))
  OBVIOUS
<1>2. NamesUnique(merged.places) /\ PortsAccepted(merged)
  BY MergedPlacesAreValid
<1>3. NamesUnique(merged.transitions)
  BY <1>1, MergedLists DEF Rewritten
<1>4. ASSUME NEW q \in DOMAIN merged.arcs
      PROVE  IF IsInput(merged.arcs[q]) THEN ValidConsumeArc(merged, merged.arcs[q])
                                        ELSE ValidProduceArc(merged, merged.arcs[q])
  <2>1. PICK arc \in Elements(merged.arcs) : arc = merged.arcs[q]
    BY DEF Elements
  <2>2. PICK i \in DOMAIN uses : \E j \in DOMAIN NetAt(uses, i).arcs :
          arc = MergedArc(rewrite, uses[i].alias, NetAt(uses, i).arcs[j])
    BY <1>1, <2>1, MergedLists DEF Rewritten
  <2>3. QED
    BY <1>1, <2>1, <2>2, MergedArcsAreValid
<1>5. ASSUME NEW q \in DOMAIN merged.transitions, NEW timer \in merged.transitions[q].timer
      PROVE  ValidTimer(merged, merged.transitions[q].name, timer)
  <2>1. PICK t \in Elements(merged.transitions) : t = merged.transitions[q]
    BY DEF Elements
  <2>2. PICK i \in DOMAIN uses : \E j \in DOMAIN NetAt(uses, i).transitions :
          t = MergedTransition(rewrite, uses[i].alias, NetAt(uses, i).transitions[j])
    <3>1. Rewritten(uses, rewrite, merged)
      BY <1>1, MergedLists
    <3>2. QED
      BY <2>1, <3>1 DEF Rewritten
  <2>3. QED
    BY <1>1, <1>5, <2>1, <2>2, MergedTimersAreValid
<1>6. QED
  BY <1>2, <1>3, <1>4, <1>5 DEF ValidNet, StructureValid, TimersValid

(* A transition consumes, or produces, after the merge exactly when it did *)
(* before.                                                                 *)
LEMMA MergedTransitionsActAlike ==
  ASSUME NEW uses, NEW wires, Composed(uses, wires),
         NEW merged, merged = Merged(uses, wires), NEW i \in DOMAIN uses, NEW t
  PROVE  /\ <<uses[i].alias, t>> \in Consuming(merged) <=> t \in Consuming(NetAt(uses, i))
         /\ <<uses[i].alias, t>> \in Producing(merged) <=> t \in Producing(NetAt(uses, i))
<1>1. PICK rewrite : rewrite = RewriteMap(uses, Fusion(wires))
  OBVIOUS
<1>2. Rewritten(uses, rewrite, merged)
  BY <1>1, MergedLists
<1>3. ASSUME NEW k \in DOMAIN uses, NEW j \in DOMAIN NetAt(uses, k).arcs,
             NEW arc, arc = MergedArc(rewrite, uses[k].alias, NetAt(uses, k).arcs[j])
      PROVE  LET own == NetAt(uses, k).arcs[j]
             IN  /\ arc.mode = own.mode
                 /\ own.mode = "consume" => arc.to[2] = <<uses[k].alias, own.to[2]>>
                 /\ own.mode = "produce" => arc.from[2] = <<uses[k].alias, own.from[2]>>
  <2> DEFINE own == NetAt(uses, k).arcs[j]
  <2>1. IsNet(NetAt(uses, k)) /\ ValidNet(NetAt(uses, k))
    BY UsedNets
  <2>2. ArcFollows(rewrite, uses[k].alias, own, arc)
    BY <1>3, <2>1, ArcRewritten
  <2>3. IF IsInput(own) THEN ValidConsumeArc(NetAt(uses, k), own)
                        ELSE ValidProduceArc(NetAt(uses, k), own)
    BY <2>1 DEF ValidNet, StructureValid
  <2> HIDE DEF own
  <2>4. own.mode = "consume" => own.to[1] = "transition"
    BY <2>3 DEF IsInput, ValidConsumeArc
  <2>5. own.mode = "produce" => own.from[1] = "transition"
    BY <2>3 DEF IsInput, ValidProduceArc
  <2>6. /\ arc.mode = own.mode
        /\ own.mode = "consume" => arc.to[2] = <<uses[k].alias, own.to[2]>>
        /\ own.mode = "produce" => arc.from[2] = <<uses[k].alias, own.from[2]>>
    BY <2>2, <2>4, <2>5 DEF ArcFollows
  <2>7. QED
    BY <2>6 DEF own
<1>4. \A k \in DOMAIN uses : uses[k].alias = uses[i].alias => k = i
  BY UsedNets
<1>5. /\ \A net, u : u \in Consuming(net) <=>
           \E x \in Elements(net.arcs) : x.mode = "consume" /\ u = x.to[2]
      /\ \A net, u : u \in Producing(net) <=>
           \E x \in Elements(net.arcs) : x.mode = "produce" /\ u = x.from[2]
  BY ToSetIsElements DEF Consuming, Producing
<1>6. /\ \A x : x \in Elements(merged.arcs) <=>
           \E k \in DOMAIN uses : \E j \in DOMAIN NetAt(uses, k).arcs :
             x = MergedArc(rewrite, uses[k].alias, NetAt(uses, k).arcs[j])
      /\ \A x : x \in Elements(NetAt(uses, i).arcs) <=>
           \E j \in DOMAIN NetAt(uses, i).arcs : x = NetAt(uses, i).arcs[j]
  BY <1>2 DEF Rewritten, Elements
<1>7. ASSUME <<uses[i].alias, t>> \in Consuming(merged) PROVE t \in Consuming(NetAt(uses, i))
  <2>1. PICK x \in Elements(merged.arcs) : x.mode = "consume" /\ <<uses[i].alias, t>> = x.to[2]
    BY <1>5, <1>7
  <2>2. PICK k \in DOMAIN uses : \E j \in DOMAIN NetAt(uses, k).arcs :
          x = MergedArc(rewrite, uses[k].alias, NetAt(uses, k).arcs[j])
    BY <1>6
  <2>3. PICK j \in DOMAIN NetAt(uses, k).arcs :
          x = MergedArc(rewrite, uses[k].alias, NetAt(uses, k).arcs[j])
    BY <2>2
  <2>4. NetAt(uses, k).arcs[j].mode = "consume" /\ x.to[2] = <<uses[k].alias, NetAt(uses, k).arcs[j].to[2]>>
    BY <1>3, <2>1, <2>3
  <2>5. k = i /\ NetAt(uses, k).arcs[j].to[2] = t
    BY <1>4, <2>1, <2>4
  <2>6. QED
    BY <1>5, <1>6, <2>4, <2>5
<1>8. ASSUME t \in Consuming(NetAt(uses, i)) PROVE <<uses[i].alias, t>> \in Consuming(merged)
  <2>1. PICK j \in DOMAIN NetAt(uses, i).arcs :
          NetAt(uses, i).arcs[j].mode = "consume" /\ t = NetAt(uses, i).arcs[j].to[2]
    BY <1>5, <1>6, <1>8
  <2>2. PICK arc : arc = MergedArc(rewrite, uses[i].alias, NetAt(uses, i).arcs[j])
    OBVIOUS
  <2>3. arc.mode = "consume" /\ arc.to[2] = <<uses[i].alias, t>>
    BY <1>3, <2>1, <2>2
  <2>4. QED
    BY <1>5, <1>6, <2>2, <2>3
<1>9. ASSUME <<uses[i].alias, t>> \in Producing(merged) PROVE t \in Producing(NetAt(uses, i))
  <2>1. PICK x \in Elements(merged.arcs) : x.mode = "produce" /\ <<uses[i].alias, t>> = x.from[2]
    BY <1>5, <1>9
  <2>2. PICK k \in DOMAIN uses : \E j \in DOMAIN NetAt(uses, k).arcs :
          x = MergedArc(rewrite, uses[k].alias, NetAt(uses, k).arcs[j])
    BY <1>6
  <2>3. PICK j \in DOMAIN NetAt(uses, k).arcs :
          x = MergedArc(rewrite, uses[k].alias, NetAt(uses, k).arcs[j])
    BY <2>2
  <2>4. NetAt(uses, k).arcs[j].mode = "produce" /\ x.from[2] = <<uses[k].alias, NetAt(uses, k).arcs[j].from[2]>>
    BY <1>3, <2>1, <2>3
  <2>5. k = i /\ NetAt(uses, k).arcs[j].from[2] = t
    BY <1>4, <2>1, <2>4
  <2>6. QED
    BY <1>5, <1>6, <2>4, <2>5
<1>10. ASSUME t \in Producing(NetAt(uses, i)) PROVE <<uses[i].alias, t>> \in Producing(merged)
  <2>1. PICK j \in DOMAIN NetAt(uses, i).arcs :
          NetAt(uses, i).arcs[j].mode = "produce" /\ t = NetAt(uses, i).arcs[j].from[2]
    BY <1>5, <1>6, <1>10
  <2>2. PICK arc : arc = MergedArc(rewrite, uses[i].alias, NetAt(uses, i).arcs[j])
    OBVIOUS
  <2>3. arc.mode = "produce" /\ arc.from[2] = <<uses[i].alias, t>>
    BY <1>3, <2>1, <2>2
  <2>4. QED
    BY <1>5, <1>6, <2>2, <2>3
<1>11. QED
  BY <1>7, <1>8, <1>9, <1>10

(* So the linter names the same transitions.                               *)
LEMMA MergedLintsAlike ==
  ASSUME NEW uses, NEW wires, Composed(uses, wires),
         NEW merged, merged = Merged(uses, wires)
  PROVE  {t.name : t \in LintFindings(merged)} =
           UNION {{<<uses[i].alias, t.name>> : t \in LintFindings(NetAt(uses, i))} :
                    i \in DOMAIN uses}
<1>1. PICK rewrite : rewrite = RewriteMap(uses, Fusion(wires))
  OBVIOUS
<1>2. Rewritten(uses, rewrite, merged)
  BY <1>1, MergedLists
<1>3. ASSUME NEW i \in DOMAIN uses, NEW j \in DOMAIN NetAt(uses, i).transitions, NEW t,
             t = MergedTransition(rewrite, uses[i].alias, NetAt(uses, i).transitions[j])
      PROVE  LET own == NetAt(uses, i).transitions[j]
             IN  /\ t.name = <<uses[i].alias, own.name>> /\ t.attributes = own.attributes
                 /\ t.name \in Consuming(merged) <=> own.name \in Consuming(NetAt(uses, i))
                 /\ t.name \in Producing(merged) <=> own.name \in Producing(NetAt(uses, i))
                 /\ SuppressedRules(t) = SuppressedRules(own)
  <2> DEFINE own == NetAt(uses, i).transitions[j]
  <2>1. TransitionFollows(rewrite, uses[i].alias, own, t)
    BY <1>3, UsedNets, TransitionRewritten
  <2>2. t.name = <<uses[i].alias, own.name>> /\ t.attributes = own.attributes
    BY <2>1 DEF TransitionFollows
  <2>3. /\ <<uses[i].alias, own.name>> \in Consuming(merged) <=> own.name \in Consuming(NetAt(uses, i))
        /\ <<uses[i].alias, own.name>> \in Producing(merged) <=> own.name \in Producing(NetAt(uses, i))
    BY MergedTransitionsActAlike
  <2> HIDE DEF own
  <2>4. SuppressedRules(t) = SuppressedRules(own)
    BY <2>2 DEF SuppressedRules
  <2>5. QED
    BY <2>2, <2>3, <2>4 DEF own
<1>4. \A net, t : t \in LintFindings(net) <=>
         /\ t \in Elements(net.transitions) /\ t.name \in Consuming(net) /\ t.name \notin Producing(net)
         /\ "consume-without-produce" \notin SuppressedRules(t)
  BY ToSetIsElements DEF LintFindings
<1>5. /\ \A x : x \in Elements(merged.transitions) <=>
           \E i \in DOMAIN uses : \E j \in DOMAIN NetAt(uses, i).transitions :
             x = MergedTransition(rewrite, uses[i].alias, NetAt(uses, i).transitions[j])
      /\ \A i \in DOMAIN uses : \A x : x \in Elements(NetAt(uses, i).transitions) <=>
           \E j \in DOMAIN NetAt(uses, i).transitions : x = NetAt(uses, i).transitions[j]
  BY <1>2 DEF Rewritten, Elements
<1>6. ASSUME NEW t \in LintFindings(merged)
      PROVE  \E i \in DOMAIN uses : \E own \in LintFindings(NetAt(uses, i)) :
               t.name = <<uses[i].alias, own.name>>
  <2>1. PICK i \in DOMAIN uses : \E j \in DOMAIN NetAt(uses, i).transitions :
          t = MergedTransition(rewrite, uses[i].alias, NetAt(uses, i).transitions[j])
    BY <1>4, <1>5
  <2>2. PICK j \in DOMAIN NetAt(uses, i).transitions :
          t = MergedTransition(rewrite, uses[i].alias, NetAt(uses, i).transitions[j])
    BY <2>1
  <2>3. PICK own \in Elements(NetAt(uses, i).transitions) : own = NetAt(uses, i).transitions[j]
    BY <1>5
  <2>4. /\ t.name = <<uses[i].alias, own.name>>
        /\ t.name \in Consuming(merged) <=> own.name \in Consuming(NetAt(uses, i))
        /\ t.name \in Producing(merged) <=> own.name \in Producing(NetAt(uses, i))
        /\ SuppressedRules(t) = SuppressedRules(own)
    BY <1>3, <2>2, <2>3
  <2>5. own \in LintFindings(NetAt(uses, i))
    BY <1>4, <2>4
  <2>6. QED
    BY <2>4, <2>5
<1>7. ASSUME NEW i \in DOMAIN uses, NEW own \in LintFindings(NetAt(uses, i))
      PROVE  \E t \in LintFindings(merged) : t.name = <<uses[i].alias, own.name>>
  <2>1. PICK j \in DOMAIN NetAt(uses, i).transitions : own = NetAt(uses, i).transitions[j]
    BY <1>4, <1>5
  <2>2. PICK t : t = MergedTransition(rewrite, uses[i].alias, NetAt(uses, i).transitions[j])
    OBVIOUS
  <2>3. t \in Elements(merged.transitions)
    BY <1>5, <2>2
  <2>4. /\ t.name = <<uses[i].alias, own.name>>
        /\ t.name \in Consuming(merged) <=> own.name \in Consuming(NetAt(uses, i))
        /\ t.name \in Producing(merged) <=> own.name \in Producing(NetAt(uses, i))
        /\ SuppressedRules(t) = SuppressedRules(own)
    BY <1>3, <2>1, <2>2
  <2>5. t \in LintFindings(merged)
    BY <1>4, <2>3, <2>4
  <2>6. QED
    BY <2>4, <2>5
<1> DEFINE after == {t.name : t \in LintFindings(merged)}
           before == UNION {{<<uses[i].alias, t.name>> : t \in LintFindings(NetAt(uses, i))} :
                              i \in DOMAIN uses}
<1>8. \A x : x \in after <=> \E t \in LintFindings(merged) : x = t.name
  OBVIOUS
<1>9. \A x : x \in before <=>
         \E i \in DOMAIN uses : \E own \in LintFindings(NetAt(uses, i)) :
           x = <<uses[i].alias, own.name>>
  OBVIOUS
<1> HIDE DEF after, before
<1>10. ASSUME NEW x \in after PROVE x \in before
  <2>1. PICK t \in LintFindings(merged) : x = t.name
    BY <1>8
  <2>2. PICK i \in DOMAIN uses : \E own \in LintFindings(NetAt(uses, i)) :
          t.name = <<uses[i].alias, own.name>>
    BY <1>6
  <2>3. QED
    BY <1>9, <2>1, <2>2
<1>11. ASSUME NEW x \in before PROVE x \in after
  <2>1. PICK i \in DOMAIN uses : \E own \in LintFindings(NetAt(uses, i)) :
          x = <<uses[i].alias, own.name>>
    BY <1>9
  <2>2. PICK own \in LintFindings(NetAt(uses, i)) : x = <<uses[i].alias, own.name>>
    BY <2>1
  <2>3. PICK t \in LintFindings(merged) : t.name = <<uses[i].alias, own.name>>
    BY <1>7
  <2>4. QED
    BY <1>8, <2>2, <2>3
<1>12. after = before
  BY <1>10, <1>11
<1>13. QED
  BY <1>12 DEF after, before

(* MergedNetIsValid, always: a composition of valid nets merges to a valid *)
(* net, whose arcs, timers and bindings name places that exist and accept  *)
(* their colors, and lint_net names the same transitions after the merge.  *)
THEOREM MergedNetsAreValid == Spec => []MergedNetIsValid
<1>1. DocumentInv /\ UsesListed(tables) => MergedNetIsValid
  <2>1. SUFFICES ASSUME DocumentInv, UsesListed(tables), NEW c \in ResolvedCompositions
        PROVE  LET merged == Merged(c.uses, c.wires)
               IN  /\ ValidNet(merged)
                   /\ {t.name : t \in LintFindings(merged)} =
                        UNION {{<<c.uses[i].alias, t.name>> :
                                  t \in LintFindings(Library[c.uses[i].ref])} :
                                 i \in DOMAIN c.uses}
    BY DEF MergedNetIsValid
  <2>2. Composed(c.uses, c.wires)
    BY <2>1, ResolvedIsListed DEF Composed
  <2>3. QED
    BY <2>2, MergedIsNet, MergedLintsAlike DEF NetAt
<1>2. QED
  BY <1>1, DocumentIsSound, UsesAreListed, PTL

-----------------------------------------------------------------------------
(* The order of the wires.                                                 *)

(* The classes depend on which wires there are.                            *)
LEMMA SameWiresFuseAlike ==
  ASSUME NEW Z, NEW u \in Seq(WiresOn(Z)), NEW v \in Seq(WiresOn(Z)),
         Elements(u) = Elements(v)
  PROVE  /\ DOMAIN Fusion(u) = DOMAIN Fusion(v)
         /\ \A n \in DOMAIN Fusion(u) : FusedWith(Fusion(u), n) = FusedWith(Fusion(v), n)
<1>1. DOMAIN u = 1..Len(u) /\ DOMAIN v = 1..Len(v)
  OBVIOUS
<1>2. /\ \A x : x \in Elements(u) <=> \E i \in DOMAIN u : x = u[i]
      /\ \A x : x \in Elements(v) <=> \E i \in DOMAIN v : x = v[i]
  BY DEF Elements
<1>3. Wired(u) = Wired(v)
  <2>1. /\ \A n : n \in Wired(u) <=> \E w \in Elements(u) : n = w.from \/ n = w.to
        /\ \A n : n \in Wired(v) <=> \E w \in Elements(v) : n = w.from \/ n = w.to
    BY <1>2 DEF Wired
  <2>2. \A n : n \in Wired(u) <=> n \in Wired(v)
    BY <2>1
  <2>3. QED
    BY <2>2
<1>4. DOMAIN Fusion(u) = Wired(u) /\ DOMAIN Fusion(v) = Wired(v)
  BY FusionGathers DEF Gathers, IsForest
<1>5. \A S : Closed(u, Len(u), S) <=> Closed(v, Len(v), S)
  <2>1. /\ \A S : Closed(u, Len(u), S) <=> \A w \in Elements(u) : w.from \in S <=> w.to \in S
        /\ \A S : Closed(v, Len(v), S) <=> \A w \in Elements(v) : w.from \in S <=> w.to \in S
    BY <1>1, <1>2 DEF Closed
  <2>2. QED
    BY <2>1
<1>6. \A n : ConnectedTo(u, n) = ConnectedTo(v, n)
  <2>1. SUFFICES ASSUME NEW n PROVE ConnectedTo(u, n) = ConnectedTo(v, n)
    OBVIOUS
  <2>2. /\ n \in ConnectedTo(u, n) /\ Closed(u, Len(u), ConnectedTo(u, n))
        /\ \A S : n \in S /\ Closed(u, Len(u), S) => ConnectedTo(u, n) \subseteq S
    BY ConnectedIs
  <2>3. /\ n \in ConnectedTo(v, n) /\ Closed(v, Len(v), ConnectedTo(v, n))
        /\ \A S : n \in S /\ Closed(v, Len(v), S) => ConnectedTo(v, n) \subseteq S
    BY ConnectedIs
  <2>4. ConnectedTo(u, n) \subseteq ConnectedTo(v, n)
    BY <1>5, <2>2, <2>3
  <2>5. ConnectedTo(v, n) \subseteq ConnectedTo(u, n)
    BY <1>5, <2>2, <2>3
  <2>6. QED
    BY <2>4, <2>5
<1>7. \A n \in Wired(u) : FusedWith(Fusion(u), n) = FusedWith(Fusion(v), n)
  <2>1. SUFFICES ASSUME NEW n \in Wired(u)
        PROVE  FusedWith(Fusion(u), n) = FusedWith(Fusion(v), n)
    OBVIOUS
  <2>2. FusedWith(Fusion(u), n) = ConnectedTo(u, n)
    BY ClassIsConnected
  <2>3. FusedWith(Fusion(v), n) = ConnectedTo(v, n)
    BY <1>3, ClassIsConnected
  <2>4. QED
    BY <1>6, <2>2, <2>3
<1>8. QED
  BY <1>3, <1>4, <1>7

(* So does the merged net, the order of its places too.                    *)
LEMMA SameWiresMergeAlike ==
  ASSUME NEW uses, NEW Z, NEW u \in Seq(WiresOn(Z)), NEW v \in Seq(WiresOn(Z)),
         Elements(u) = Elements(v)
  PROVE  Merged(uses, u) = Merged(uses, v)
<1>1. PICK p : p = Fusion(u)
  OBVIOUS
<1>2. PICK q : q = Fusion(v)
  OBVIOUS
<1>3. DOMAIN p = DOMAIN q /\ \A n \in DOMAIN p : FusedWith(p, n) = FusedWith(q, n)
  BY <1>1, <1>2, SameWiresFuseAlike
<1>4. RewriteMap(uses, p) = RewriteMap(uses, q)
  BY <1>3 DEF RewriteMap
<1>5. Classes(p) = Classes(q)
  <2>1. PICK wired : wired = Among(PortOrder, DOMAIN p)
    OBVIOUS
  <2>2. PortOrder \in Seq(Elements(PortOrder))
    BY PortsAssumption DEF IsList, Elements
  <2>3. Elements(wired) \subseteq DOMAIN p
    BY <2>1, <2>2, AmongDistinct
  <2>4. \A i \in DOMAIN wired : wired[i] \in DOMAIN p
    BY <2>3 DEF Elements
  <2>5. [i \in DOMAIN wired |-> Among(PortOrder, FusedWith(p, wired[i]))] =
          [i \in DOMAIN wired |-> Among(PortOrder, FusedWith(q, wired[i]))]
    BY <1>3, <2>4
  <2>6. Classes(p) = FirstOf([i \in DOMAIN wired |-> Among(PortOrder, FusedWith(p, wired[i]))])
    BY <2>1 DEF Classes
  <2>7. Classes(q) = FirstOf([i \in DOMAIN wired |-> Among(PortOrder, FusedWith(q, wired[i]))])
    BY <1>3, <2>1 DEF Classes
  <2>8. QED
    BY <2>5, <2>6, <2>7
<1>6. /\ Merged(uses, u) = MergedUnder(uses, Classes(p), RewriteMap(uses, p))
      /\ Merged(uses, v) = MergedUnder(uses, Classes(q), RewriteMap(uses, q))
  BY <1>1, <1>2 DEF Merged
<1>7. QED
  BY <1>4, <1>5, <1>6

(* A reordering has the same elements.                                     *)
LEMMA ReorderingsKeep ==
  ASSUME NEW S, NEW s \in Seq(S), NEW t \in Reorderings(s)
  PROVE  t \in Seq(S) /\ Elements(t) = Elements(s)
<1>1. DOMAIN s = 1..Len(s) /\ Len(s) \in Nat /\ \A i \in DOMAIN s : s[i] \in S
  OBVIOUS
<1>2. \A x : x \in Elements(s) <=> \E i \in DOMAIN s : x = s[i]
  BY DEF Elements
<1>3. \A x : x \in Elements(t) <=> \E i \in DOMAIN t : x = t[i]
  BY DEF Elements
<1>4. CASE t = Seqs!Reverse(s)
  <2>1. t = [i \in 1..Len(s) |-> s[Len(s) - i + 1]]
    BY <1>4 DEF Seqs!Reverse
  <2>2. \A i \in 1..Len(s) : Len(s) - i + 1 \in 1..Len(s) /\ Len(s) - (Len(s) - i + 1) + 1 = i
    BY <1>1
  <2>3. DOMAIN t = 1..Len(s) /\ \A i \in 1..Len(s) : t[i] = s[Len(s) - i + 1]
    BY <2>1
  <2>4. t \in Seq(S)
    BY <1>1, <2>1, <2>2
  <2>5. \A x \in Elements(t) : x \in Elements(s)
    BY <1>1, <1>2, <1>3, <2>2, <2>3
  <2>6. ASSUME NEW i \in DOMAIN s PROVE s[i] \in Elements(t)
    <3>1. PICK j \in 1..Len(s) : j = Len(s) - i + 1
      BY <1>1, <2>2
    <3>2. t[j] = s[i]
      BY <1>1, <2>2, <2>3, <3>1
    <3>3. QED
      BY <1>3, <2>3, <3>2
  <2>7. QED
    BY <1>2, <2>4, <2>5, <2>6
<1>5. CASE \E i \in 1..(Len(s) - 1) : t = Swapped(s, i)
  <2>1. PICK i \in 1..(Len(s) - 1) : t = Swapped(s, i)
    BY <1>5
  <2>2. i \in DOMAIN s /\ i + 1 \in DOMAIN s /\ i # i + 1
    BY <1>1
  <2>3. t = [[s EXCEPT ![i] = s[i + 1]] EXCEPT ![i + 1] = s[i]]
    BY <2>1 DEF Swapped
  <2>4. /\ DOMAIN t = DOMAIN s /\ t[i] = s[i + 1] /\ t[i + 1] = s[i]
        /\ \A j \in DOMAIN s : j # i /\ j # i + 1 => t[j] = s[j]
    BY <2>2, <2>3
  <2>5. t = [j \in DOMAIN s |-> t[j]] /\ \A j \in DOMAIN s : t[j] \in S
    BY <1>1, <2>2, <2>3, <2>4
  <2>6. t \in Seq(S)
    BY <1>1, <2>5
  <2>7. \A x \in Elements(t) : x \in Elements(s)
    BY <1>2, <1>3, <2>2, <2>4
  <2>8. \A x \in Elements(s) : x \in Elements(t)
    BY <1>2, <1>3, <2>2, <2>4
  <2>9. QED
    BY <2>6, <2>7, <2>8
<1>6. QED
  BY <1>4, <1>5 DEF Reorderings

(* WiringOrderIsImmaterial, always: merge_nets makes the same net of the   *)
(* wires in another order.                                                 *)
THEOREM WiringOrder == Spec => []WiringOrderIsImmaterial
<1>1. DocumentInv /\ UsesListed(tables) => WiringOrderIsImmaterial
  <2>1. SUFFICES ASSUME DocumentInv, UsesListed(tables), NEW c \in ResolvedCompositions
        PROVE  Cardinality({MergedContent(Merged(c.uses, wires)) :
                              wires \in {c.wires} \cup Reorderings(c.wires)}) = 1
    BY DEF WiringOrderIsImmaterial
  <2>2. c.wires \in Seq(WiresOn(STRING \X STRING))
    BY <2>1, ResolvedIsListed
  <2>3. \A wires \in Reorderings(c.wires) : Merged(c.uses, wires) = Merged(c.uses, c.wires)
    <3>1. SUFFICES ASSUME NEW wires \in Reorderings(c.wires)
          PROVE  Merged(c.uses, wires) = Merged(c.uses, c.wires)
      OBVIOUS
    <3>2. wires \in Seq(WiresOn(STRING \X STRING)) /\ Elements(wires) = Elements(c.wires)
      BY <2>2, ReorderingsKeep
    <3>3. QED
      BY <2>2, <3>2, SameWiresMergeAlike
  <2>4. {MergedContent(Merged(c.uses, wires)) :
           wires \in {c.wires} \cup Reorderings(c.wires)} = {MergedContent(Merged(c.uses, c.wires))}
    BY <2>3
  <2>5. QED
    BY <2>4, FS_Singleton
<1>2. QED
  BY <1>1, DocumentIsSound, UsesAreListed, PTL
=============================================================================
