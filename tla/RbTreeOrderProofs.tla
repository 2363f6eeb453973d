-------------------------- MODULE RbTreeOrderProofs --------------------------
(***************************************************************************)
(* Proofs about RbTree, for any set of nodes and any keys: which nodes the *)
(* tree holds, that a search finds them, and what the iterator returns.    *)
(* The functions that the model defines by recursion along the links are   *)
(* shown to exist and to be unique, by induction on a rank of the nodes.   *)
(***************************************************************************)
EXTENDS RbTreeProofs

(* What the tree holds.  U gives the nodes of each subtree; the links of a *)
(* node divide its subtree, and until a node with two children has been    *)
(* removed they divide it by the keys.                                     *)
Holds(x, S, U) ==
    /\ U \in [Ref -> SUBSET S] /\ U[Nil] = {} /\ U[x.root] = S
    /\ \A n \in S : /\ U[n] = {n} \cup U[x.l[n]] \cup U[x.r[n]]
                    /\ n \notin U[x.l[n]] /\ n \notin U[x.r[n]]
                    /\ U[x.l[n]] \cap U[x.r[n]] = {}

Sorted(x, S, U, K) ==
    \A n \in S : /\ \A m \in U[x.l[n]] : K[m] < K[n]
                 /\ \A m \in U[x.r[n]] : K[n] < K[m]

(* A turn at n, the child c of which comes up.                             *)
TurnedSets(x, U, n, c) ==
    [U EXCEPT ![c] = U[n], ![n] = {n} \cup U[x.l[n]] \cup U[x.l[c]]]

(* A turn divides the nodes anew, and in the same order.                   *)
LEMMA TurnHolds ==
    ASSUME NEW S \in SUBSET Node, NEW x, NEW y, NEW d, Shape(x, S), Deep(x, d),
           NEW n \in Node, NEW c, x.r[n] = c, c # Nil, Turned(x, y, n),
           NEW U, Holds(x, S, U)
    PROVE  /\ Holds(y, S, TurnedSets(x, U, n, c))
           /\ \A K \in [Node -> Int] :
                 Sorted(x, S, U, K) => Sorted(y, S, TurnedSets(x, U, n, c), K)
<1>1. PICK b, q : x.l[c] = b /\ x.p[n] = q
  OBVIOUS
<1>2. Turns(x, y, S, n, c, b, q)
  BY <1>1, TurnGives
<1>3. /\ x \in Tree /\ S \subseteq Ref /\ Nil \notin S /\ Nil \in Ref /\ n \in Ref /\ c \in Ref
      /\ n # Nil /\ q \in Ref /\ b \in Ref /\ Node \subseteq Ref
      /\ \A m \in Ref : x.l[m] \in Ref /\ x.r[m] \in Ref
  BY <1>1, TreeAssumption DEF Shape, Tree, Ref
<1>4. Family(x, S, d)
  BY Kin
<1>5. /\ n \in S /\ c \in S /\ n # c /\ b # n /\ b # c /\ q # n /\ q # c
      /\ x.l[n] \notin {n, c} /\ x.r[c] \notin {n, c}
  <2>1. Begets(x, S, d, n, c) /\ (x.l[n] # Nil => Begets(x, S, d, n, x.l[n]))
        /\ (x.r[c] # Nil => Begets(x, S, d, c, x.r[c]))
    BY <1>3, <1>4 DEF Family
  <2>2. b # n /\ b # c /\ q # n /\ q # c /\ n # c
    BY <1>2 DEF Turns
  <2> QED
    BY <1>3, <2>1, <2>2 DEF Begets
<1>6. \A m \in S \ {n, c} : x.l[m] # c /\ x.r[m] # c /\ (x.l[m] = n => m = q) /\ (x.r[m] = n => m = q)
  <2>1. ASSUME NEW m \in S \ {n, c}
        PROVE  x.l[m] # c /\ x.r[m] # c /\ (x.l[m] = n => m = q) /\ (x.r[m] = n => m = q)
    <3>1. (x.l[m] # Nil => Begets(x, S, d, m, x.l[m])) /\ (x.r[m] # Nil => Begets(x, S, d, m, x.r[m]))
      BY <1>3, <1>4 DEF Family
    <3>2. x.p[c] = n
      BY <1>2 DEF Turns
    <3> QED
      BY <1>1, <1>3, <3>1, <3>2 DEF Begets
  <2> QED
    BY <2>1
<1>7. PICK V : V = TurnedSets(x, U, n, c)
  OBVIOUS
<1>8. /\ U \in [Ref -> SUBSET S] /\ U[Nil] = {} /\ U[x.root] = S
      /\ \A m \in S : /\ U[m] = {m} \cup U[x.l[m]] \cup U[x.r[m]]
                      /\ m \notin U[x.l[m]] /\ m \notin U[x.r[m]]
                      /\ U[x.l[m]] \cap U[x.r[m]] = {}
  BY DEF Holds
<1>9. /\ U[n] = {n} \cup U[x.l[n]] \cup U[c] /\ n \notin U[x.l[n]] /\ n \notin U[c]
      /\ U[x.l[n]] \cap U[c] = {}
      /\ U[c] = {c} \cup U[b] \cup U[x.r[c]] /\ c \notin U[b] /\ c \notin U[x.r[c]]
      /\ U[b] \cap U[x.r[c]] = {}
  BY <1>1, <1>5, <1>8
<1>10. /\ V \in [Ref -> SUBSET S] /\ V[c] = U[n] /\ V[n] = {n} \cup U[x.l[n]] \cup U[b]
       /\ \A m \in Ref : m \notin {n, c} => V[m] = U[m]
  <2>1. U[n] \in SUBSET S /\ {n} \cup U[x.l[n]] \cup U[b] \in SUBSET S
    BY <1>3, <1>5, <1>8
  <2> QED
    BY <1>1, <1>3, <1>5, <1>7, <1>8, <2>1 DEF TurnedSets
<1>11. /\ y.l[c] = n /\ y.r[c] = x.r[c] /\ y.l[n] = x.l[n] /\ y.r[n] = b
       /\ \A m \in Ref : m \notin {n, c, q} => y.l[m] = x.l[m] /\ y.r[m] = x.r[m]
       /\ q # Nil => /\ y.l[q] = IF x.l[q] = n THEN c ELSE x.l[q]
                     /\ y.r[q] = IF x.r[q] = n THEN c ELSE x.r[q]
       /\ q = Nil => y.root = c
       /\ q # Nil => y.root = x.root /\ x.root # n
  BY <1>2 DEF Turns
<1>12. V[x.l[n]] = U[x.l[n]] /\ V[x.r[c]] = U[x.r[c]] /\ V[b] = U[b]
  BY <1>3, <1>5, <1>10
<1>13. ASSUME NEW m \in S \ {n, c}
       PROVE  V[m] = U[m] /\ V[y.l[m]] = U[x.l[m]] /\ V[y.r[m]] = U[x.r[m]]
  <2>1. m \in Ref /\ m # Nil /\ x.l[m] \in Ref /\ x.r[m] \in Ref
    BY <1>3
  <2>2. y.l[m] = IF x.l[m] = n THEN c ELSE x.l[m]
    BY <1>6, <1>11, <2>1
  <2>3. y.r[m] = IF x.r[m] = n THEN c ELSE x.r[m]
    BY <1>6, <1>11, <2>1
  <2> QED
    BY <1>6, <1>10, <2>1, <2>2, <2>3
<1>14. V[Nil] = {} /\ V[y.root] = S
  <2>1. V[Nil] = {}
    BY <1>3, <1>8, <1>10
  <2>2. CASE q = Nil
    <3>1. x.root = n
      BY <1>1, <1>5, <2>2 DEF Shape
    <3> QED
      BY <1>8, <1>10, <1>11, <2>1, <2>2, <3>1
  <2>3. CASE q # Nil
    <3>1. x.root # c /\ x.root \in Ref
      BY <1>1, <1>2, <1>3, <2>3 DEF Shape, Turns, Tree
    <3> QED
      BY <1>8, <1>10, <1>11, <2>1, <2>3, <3>1
  <2> QED
    BY <2>2, <2>3
<1>15. ASSUME NEW m \in S
       PROVE  /\ V[m] = {m} \cup V[y.l[m]] \cup V[y.r[m]]
              /\ m \notin V[y.l[m]] /\ m \notin V[y.r[m]]
              /\ V[y.l[m]] \cap V[y.r[m]] = {}
  <2>1. CASE m = n
    <3>1. V[y.l[n]] = U[x.l[n]] /\ V[y.r[n]] = U[b]
      BY <1>11, <1>12
    <3> QED
      BY <1>9, <1>10, <2>1, <3>1
  <2>2. CASE m = c
    <3>1. V[y.l[c]] = V[n] /\ V[y.r[c]] = U[x.r[c]]
      BY <1>11, <1>12
    <3> QED
      BY <1>5, <1>9, <1>10, <2>2, <3>1
  <2>3. CASE m \notin {n, c}
    BY <1>8, <1>13, <2>3
  <2> QED
    BY <2>1, <2>2, <2>3
<1>16. ASSUME NEW K \in [Node -> Int], Sorted(x, S, U, K)
       PROVE  Sorted(y, S, V, K)
  <2>1. ASSUME NEW m \in S
        PROVE  /\ \A i \in V[y.l[m]] : K[i] < K[m]
               /\ \A i \in V[y.r[m]] : K[m] < K[i]
    <3>1. /\ \A i \in U[x.l[n]] : K[i] < K[n]
          /\ \A i \in U[c] : K[n] < K[i]
          /\ \A i \in U[b] : K[i] < K[c]
          /\ \A i \in U[x.r[c]] : K[c] < K[i]
      BY <1>1, <1>5, <1>16 DEF Sorted
    <3>2. K[n] \in Int /\ K[c] \in Int /\ (\A i \in U[x.l[n]] : K[i] \in Int) /\ K[n] < K[c]
      <4>1. U[x.l[n]] \subseteq Node
        BY <1>3, <1>8
      <4> QED
        BY <1>5, <1>9, <3>1, <4>1
    <3>3. CASE m = n
      <4>1. V[y.l[n]] = U[x.l[n]] /\ V[y.r[n]] = U[b]
        BY <1>11, <1>12
      <4> QED
        BY <1>9, <3>1, <3>3, <4>1
    <3>4. CASE m = c
      <4>1. V[y.l[c]] = {n} \cup U[x.l[n]] \cup U[b] /\ V[y.r[c]] = U[x.r[c]]
        BY <1>10, <1>11, <1>12
      <4> QED
        BY <3>1, <3>2, <3>4, <4>1
    <3>5. CASE m \notin {n, c}
      BY <1>13, <1>16, <3>5 DEF Sorted
    <3> QED
      BY <3>3, <3>4, <3>5
  <2> QED
    BY <2>1 DEF Sorted
<1> QED
  BY <1>7, <1>10, <1>14, <1>15, <1>16 DEF Holds

(* A subtree of the mirror image holds the same nodes, by opposite keys.   *)
Opposite(K) == [n \in Node |-> -K[n]]

LEMMA MirrorHolds ==
    ASSUME NEW S \in SUBSET Node, NEW x \in Tree, NEW U, NEW K \in [Node -> Int]
    PROVE  /\ Holds(Mirror(x), S, U) <=> Holds(x, S, U)
           /\ Opposite(K) \in [Node -> Int]
           /\ Holds(x, S, U) => (Sorted(Mirror(x), S, U, Opposite(K)) <=> Sorted(x, S, U, K))
<1>1. Mirror(x).root = x.root /\ Mirror(x).l = x.r /\ Mirror(x).r = x.l
  BY MirrorShape
<1>2. Holds(Mirror(x), S, U) <=> Holds(x, S, U)
  BY <1>1 DEF Holds
<1>3. \A m, n \in Node : Opposite(K)[m] < Opposite(K)[n] <=> K[n] < K[m]
  BY DEF Opposite
<1>4. ASSUME Holds(x, S, U)
      PROVE  Sorted(Mirror(x), S, U, Opposite(K)) <=> Sorted(x, S, U, K)
  <2>1. \A n \in S : U[x.l[n]] \subseteq Node /\ U[x.r[n]] \subseteq Node
    BY <1>4 DEF Holds, Tree, Ref
  <2> QED
    BY <1>1, <1>3, <2>1 DEF Sorted
<1>5. Opposite(K) \in [Node -> Int]
  BY DEF Opposite
<1> QED
  BY <1>2, <1>4, <1>5

(* What a turn either way keeps: the nodes each of the subtrees holds, up  *)
(* to the two that change places, and their order.                         *)
Carried(x, y, S) ==
    \A U : Holds(x, S, U) =>
        \E V : Holds(y, S, V) /\ (Sorted(x, S, U, Key) => Sorted(y, S, V, Key))

(* The two rotations carry the nodes and their order over.                 *)
LEMMA LeftCarries ==
    ASSUME NEW S \in SUBSET Node, NEW x, NEW d, Shape(x, S), Deep(x, d),
           NEW n \in Node, x.r[n] # Nil
    PROVE  Carried(x, RotateLeft(x, n), S)
<1>1. PICK y : RotateLeft(x, n) = y
  OBVIOUS
<1>2. Turned(x, y, n)
  BY <1>1, LeftTurns
<1>3. ASSUME NEW U, Holds(x, S, U)
      PROVE  \E V : Holds(y, S, V) /\ (Sorted(x, S, U, Key) => Sorted(y, S, V, Key))
  <2>1. PICK c : x.r[n] = c
    OBVIOUS
  <2> QED
    BY <1>2, <1>3, <2>1, TurnHolds, TreeAssumption
<1> QED
  BY <1>1, <1>3 DEF Carried

LEMMA RightCarries ==
    ASSUME NEW S \in SUBSET Node, NEW x, NEW d, Shape(x, S), Deep(x, d),
           NEW n \in Node, x.l[n] # Nil
    PROVE  Carried(x, RotateRight(x, n), S)
<1>1. PICK y, mx, my : RotateRight(x, n) = y /\ Mirror(x) = mx /\ Mirror(y) = my
  OBVIOUS
<1>2. y \in Tree /\ Turned(mx, my, n)
  BY <1>1, RightTurns
<1>3. x \in Tree
  BY DEF Shape
<1>4. Shape(mx, S) /\ Deep(mx, d) /\ mx.r[n] # Nil
  BY <1>1, <1>3, MirrorShape
<1>5. ASSUME NEW U, Holds(x, S, U)
      PROVE  \E V : Holds(y, S, V) /\ (Sorted(x, S, U, Key) => Sorted(y, S, V, Key))
  <2>1. PICK c : mx.r[n] = c
    OBVIOUS
  <2>2. PICK K : Opposite(Key) = K
    OBVIOUS
  <2>3. Holds(mx, S, U) /\ K \in [Node -> Int] /\ (Sorted(x, S, U, Key) => Sorted(mx, S, U, K))
    BY <1>1, <1>3, <1>5, <2>2, MirrorHolds, TreeAssumption
  <2>4. PICK V : Holds(my, S, V) /\ (Sorted(mx, S, U, K) => Sorted(my, S, V, K))
    BY <1>2, <1>4, <2>1, <2>3, TurnHolds
  <2>5. Holds(y, S, V) /\ (Sorted(my, S, V, K) => Sorted(y, S, V, Key))
    BY <1>1, <1>2, <2>2, <2>4, MirrorHolds, TreeAssumption
  <2> QED
    BY <2>3, <2>4, <2>5
<1> QED
  BY <1>1, <1>5 DEF Carried

(* Colours do not matter to them.                                          *)
LEMMA RepaintedCarries ==
    ASSUME NEW S, NEW x, NEW y, NEW z, NEW R, Repainted(x, z, R), Carried(z, y, S)
    PROVE  Carried(x, y, S)
<1>1. \A U : Holds(x, S, U) <=> Holds(z, S, U)
  BY DEF Repainted, Holds
<1>2. \A U : Sorted(x, S, U, Key) <=> Sorted(z, S, U, Key)
  BY DEF Repainted, Sorted
<1> QED
  BY <1>1, <1>2 DEF Carried

(* The nodes the descent has passed agree on the side of the new one.      *)
Fits(U) ==
    /\ up # Nil => Key[new] # Key[up]
    /\ \A a \in present : /\ up \in U[t.l[a]] => Key[new] < Key[a]
                          /\ up \in U[t.r[a]] => Key[a] < Key[new]

(* The inductive invariant: the links divide the nodes the tree holds, in  *)
(* the order of the keys until a node with two children is removed.        *)
Ordered ==
    \E U : /\ Holds(t, present, U)
           /\ ~ swapped => Sorted(t, present, U, Key)
           /\ pc = "down" => Fits(U)

LEMMA CarriedOrdered ==
    ASSUME Ordered, Carried(t, t', present), present' = present, swapped' = swapped,
           pc' # "down"
    PROVE  Ordered'
<1>1. PICK U : Holds(t, present, U) /\ (~ swapped => Sorted(t, present, U, Key))
  BY DEF Ordered
<1>2. PICK V : Holds(t', present, V) /\ (Sorted(t, present, U, Key) => Sorted(t', present, V, Key))
  BY <1>1 DEF Carried
<1> QED
  BY <1>1, <1>2 DEF Ordered

(* Changes that leave the links to children alone.                         *)
SameLinks(x, y) == y.root = x.root /\ y.l = x.l /\ y.r = x.r

LEMMA SameLinksCarry ==
    ASSUME NEW x, NEW y, NEW S, SameLinks(x, y)
    PROVE  Carried(x, y, S)
<1>1. \A U : Holds(x, S, U) => Holds(y, S, U)
  BY DEF SameLinks, Holds
<1>2. \A U : Sorted(x, S, U, Key) => Sorted(y, S, U, Key)
  BY DEF SameLinks, Sorted
<1> QED
  BY <1>1, <1>2 DEF Carried

LEMMA PaintSameLinks ==
    ASSUME NEW x \in Tree, NEW n, NEW b
    PROVE  SameLinks(x, Paint(x, n, b)) /\ Paint(x, n, b).p = x.p
  BY DEF Paint, SameLinks, Tree

(* Distances to the leaves, for a tree that is good everywhere.            *)
Ranks(x, rank) ==
    /\ rank \in [Ref -> Nat]
    /\ \A n \in Node : rank[x.l[n]] < rank[n] /\ rank[x.r[n]] < rank[n]

(* A node is farther from the leaves than its children.                    *)
LEMMA RankFound ==
    ASSUME NEW S \in SUBSET Node, NEW x, Fixing(x, S, Nil)
    PROVE  \E rank : Ranks(x, rank)
<1>1. PICK d, h : Shape(x, S) /\ Deep(x, d) /\ Levels(x, S, h, Nil, Nil) /\ RedFix(x, Nil)
  BY DEF Fixing
<1>2. /\ x \in Tree /\ S \subseteq Ref /\ Nil \notin S /\ Nil \notin Node /\ Nil \in Ref
      /\ Nil \notin x.red /\ h \in [Ref -> Nat] /\ h[Nil] = 0 /\ Node \subseteq Ref
      /\ \A n \in Ref : x.l[n] \in Ref /\ x.r[n] \in Ref
  BY <1>1, TreeAssumption DEF Shape, Levels, Ref, Tree
<1>3. PICK rank : rank = [n \in Ref |-> IF n = Nil THEN 0 ELSE IF n \in S
                             THEN 2 * h[n] + (IF n \in x.red THEN 1 ELSE 0) + 1 ELSE 1]
  OBVIOUS
<1>4. /\ rank \in [Ref -> Nat] /\ rank[Nil] = 0
      /\ \A n \in S : rank[n] = 2 * h[n] + (IF n \in x.red THEN 1 ELSE 0) + 1
      /\ \A n \in Node \ S : rank[n] = 1
  BY <1>2, <1>3
<1>5. ASSUME NEW n \in Node, NEW c, c = x.l[n] \/ c = x.r[n]
      PROVE  rank[c] < rank[n]
  <2>1. CASE n \notin S
    <3>1. c = Nil
      BY <1>1, <1>5, <2>1 DEF Shape
    <3> QED
      BY <1>4, <2>1, <3>1
  <2>2. CASE n \in S
    <3>1. c # Nil => c \in S /\ x.p[c] = n /\ c \in Ref /\ n \in Ref
      <4>1. c # Nil => Begets(x, S, d, n, c)
        BY <1>1, <1>2, <1>5, Kin DEF Family
      <4> QED
        BY <1>2, <4>1 DEF Begets
    <3>2. h[c] \in Nat /\ h[n] \in Nat
      BY <1>2, <1>5
    <3>3. h[n] = h[c] + (IF n \in x.red THEN 0 ELSE 1)
      <4>1. Level(x, h, Nil, Nil, n) /\ n # Nil
        BY <1>1, <1>2, <2>2 DEF Levels
      <4> QED
        BY <1>5, <4>1 DEF Level, Height, Weight
    <3>4. c # Nil /\ n \in x.red => c \notin x.red
      BY <1>1, <1>2, <3>1 DEF RedFix
    <3>5. CASE c = Nil
      BY <1>4, <2>2, <3>2, <3>5
    <3>6. CASE c # Nil
      BY <1>4, <2>2, <3>1, <3>2, <3>3, <3>4, <3>6
    <3> QED
      BY <3>5, <3>6
  <2> QED
    BY <2>1, <2>2
<1> QED
  BY <1>4, <1>5 DEF Ranks

(* An element of a set of nodes with the least rank of all.                *)
LEMMA LeastRank ==
    ASSUME NEW rank \in [Ref -> Nat], NEW X \in SUBSET Ref, X # {}
    PROVE  \E n \in X : \A m \in X : rank[n] <= rank[m]
<1>1. PICK T : T = {rank[n] : n \in X}
  OBVIOUS
<1>2. T \in SUBSET Nat /\ T # {}
  BY <1>1
<1>3. PICK i \in T : \A j \in T : i <= j
  BY <1>2, LeastOf
<1> QED
  BY <1>1, <1>3

(* The parent of a node of a subtree is in it, but for that of its root.   *)
LEMMA ParentWithin ==
    ASSUME NEW S \in SUBSET Node, NEW x, Fixing(x, S, Nil), NEW U, Holds(x, S, U)
    PROVE  \A k \in S : \A m \in U[k] : m = k \/ x.p[m] \in U[k]
<1> SUFFICES ASSUME NEW k0 \in S, NEW m0 \in U[k0], m0 # k0, x.p[m0] \notin U[k0]
             PROVE  FALSE
  OBVIOUS
<1>1. PICK rank : Ranks(x, rank)
  BY RankFound
<1>2. PICK X : X = {k \in S : \E m \in U[k] : m # k /\ x.p[m] \notin U[k]}
  OBVIOUS
<1>3. S \subseteq Ref /\ X \in SUBSET Ref /\ X # {} /\ Nil \notin S
  BY <1>2, TreeAssumption DEF Ref
<1>4. PICK k \in X : \A i \in X : rank[k] <= rank[i]
  BY <1>1, <1>3, LeastRank DEF Ranks
<1>5. PICK m \in U[k] : k \in S /\ m # k /\ x.p[m] \notin U[k]
  BY <1>2, <1>4
<1>6. U[k] = {k} \cup U[x.l[k]] \cup U[x.r[k]] /\ U[Nil] = {}
  BY <1>5 DEF Holds
<1>7. PICK c : (c = x.l[k] \/ c = x.r[k]) /\ m \in U[c]
  BY <1>5, <1>6
<1>8. c # Nil /\ c \in S /\ x.p[c] = k
  <2>1. c # Nil
    BY <1>6, <1>7
  <2>2. PICK d : Shape(x, S) /\ Deep(x, d)
    BY DEF Fixing
  <2>3. Begets(x, S, d, k, c)
    BY <1>3, <1>5, <1>7, <2>1, <2>2, Kin DEF Family
  <2> QED
    BY <2>1, <2>3 DEF Begets
<1>9. rank[c] < rank[k] /\ rank[c] \in Nat /\ rank[k] \in Nat
  BY <1>1, <1>3, <1>5, <1>7, <1>8 DEF Ranks
<1>10. c \notin X
  BY <1>4, <1>9
<1>11. m = c \/ x.p[m] \in U[c]
  BY <1>2, <1>7, <1>8, <1>10
<1> QED
  BY <1>5, <1>6, <1>7, <1>8, <1>11

(* One more node passed on the way down.                                   *)
LEMMA DescendOrdered ==
    ASSUME IInv, Ordered, Descend
    PROVE  Ordered'
<1>1. TypeOK /\ Fixing(t, present, Nil) /\ Places /\ pc = "down" /\ cur # Nil /\ Key[new] # Key[cur]
  BY DEF IInv, Descend, TreeAt
<1>2. PICK U : /\ Holds(t, present, U) /\ (~ swapped => Sorted(t, present, U, Key))
               /\ Fits(U)
  BY <1>1 DEF Ordered
<1>3. PICK d : Shape(t, present) /\ Deep(t, d)
  BY <1>1 DEF Fixing
<1>4. /\ cur \in present /\ up \in present \cup {Nil} /\ present \in SUBSET Node
      /\ Nil \notin present /\ present \subseteq Ref /\ new \in Node
      /\ up = Nil => cur = t.root
      /\ up # Nil => cur = Side(new, up)
  BY <1>1, TreeHas DEF Places
<1>5. t.p[cur] = up
  <2>1. CASE up = Nil
    BY <1>3, <1>4, <2>1 DEF Shape
  <2>2. CASE up # Nil
    <3>1. Begets(t, present, d, up, cur)
      BY <1>1, <1>3, <1>4, <2>2, Kin DEF Family, Side
    <3> QED
      BY <3>1 DEF Begets
  <2> QED
    BY <2>1, <2>2
<1>6. ASSUME NEW a \in present, NEW c, c = t.l[a] \/ c = t.r[a], cur \in U[c]
      PROVE  up \in U[c] \/ (up = a /\ cur = c)
  <2>1. c # Nil /\ c \in present /\ t.p[c] = a
    <3>1. c # Nil
      BY <1>2, <1>6 DEF Holds
    <3>2. Begets(t, present, d, a, c)
      BY <1>3, <1>4, <1>6, <3>1, Kin DEF Family
    <3> QED
      BY <3>1, <3>2 DEF Begets
  <2>2. cur = c \/ t.p[cur] \in U[c]
    BY <1>1, <1>2, <1>4, <1>6, <2>1, ParentWithin
  <2> QED
    BY <1>5, <2>1, <2>2
<1>7. up' = cur /\ t' = t /\ new' = new /\ present' = present /\ swapped' = swapped
  BY DEF Descend
<1>8. \A n \in Node : Key[n] \in Int
  BY TreeAssumption
<1>9. ASSUME NEW a \in present
      PROVE  /\ cur \in U[t.l[a]] => Key[new] < Key[a]
             /\ cur \in U[t.r[a]] => Key[a] < Key[new]
  <2>1. t.l[a] # Nil => t.l[a] # t.r[a]
    BY <1>3, <1>4 DEF Shape
  <2>2. cur \in U[t.l[a]] => Key[new] < Key[a]
    <3>1. SUFFICES ASSUME cur \in U[t.l[a]] PROVE Key[new] < Key[a]
      OBVIOUS
    <3>2. CASE up \in U[t.l[a]]
      BY <1>2, <3>2 DEF Fits
    <3>3. CASE up = a /\ cur = t.l[a]
      <4>1. cur = Side(new, a) /\ cur # t.r[a]
        BY <1>1, <1>4, <2>1, <3>3
      <4> QED
        BY <4>1 DEF Side
    <3> QED
      BY <1>6, <3>1, <3>2, <3>3
  <2>3. cur \in U[t.r[a]] => Key[a] < Key[new]
    <3>1. SUFFICES ASSUME cur \in U[t.r[a]] PROVE Key[a] < Key[new]
      OBVIOUS
    <3>2. CASE up \in U[t.r[a]]
      BY <1>2, <3>2 DEF Fits
    <3>3. CASE up = a /\ cur = t.r[a]
      <4>1. cur = Side(new, a) /\ cur # t.l[a]
        BY <1>1, <1>4, <2>1, <3>3
      <4>2. ~ (Key[new] < Key[a])
        BY <3>3, <4>1 DEF Side
      <4>3. Key[new] # Key[a]
        BY <1>2, <1>4, <3>3 DEF Fits
      <4> QED
        BY <1>4, <1>8, <4>2, <4>3
    <3> QED
      BY <1>6, <3>1, <3>2, <3>3
  <2> QED
    BY <2>2, <2>3
<1>10. Fits(U)'
  BY <1>1, <1>7, <1>9 DEF Fits
<1> QED
  BY <1>2, <1>7, <1>10 DEF Ordered

LEMMA PaintCarries ==
    ASSUME NEW x \in Tree, NEW y, NEW S, NEW n1 \in Ref, NEW n2 \in Ref, NEW n3 \in Ref,
           NEW b1, NEW b2, NEW b3,
           \/ y = x
           \/ y = Paint(x, n1, b1)
           \/ y = Paint(Paint(x, n1, b1), n2, b2)
           \/ y = Paint(Paint(Paint(x, n1, b1), n2, b2), n3, b3)
    PROVE  Carried(x, y, S)
<1>1. PICK v, w, z : Paint(x, n1, b1) = v /\ Paint(v, n2, b2) = w /\ Paint(w, n3, b3) = z
  OBVIOUS
<1>2. SameLinks(x, v) /\ SameLinks(v, w) /\ SameLinks(w, z)
  <2>1. SameLinks(x, v) /\ v \in Tree
    BY <1>1, PaintSameLinks DEF Paint, Tree
  <2>2. SameLinks(v, w) /\ w \in Tree
    BY <1>1, <2>1, PaintSameLinks DEF Paint, Tree
  <2>3. SameLinks(w, z)
    BY <1>1, <2>2, PaintSameLinks
  <2> QED
    BY <2>1, <2>2, <2>3
<1>3. y \in {x, v, w, z}
  BY <1>1
<1>4. SameLinks(x, y)
  BY <1>2, <1>3 DEF SameLinks
<1> QED
  BY <1>4, SameLinksCarry

(* The steps that turn nothing.                                            *)
LEMMA StillOrdered ==
    ASSUME IInv, Ordered,
           \/ Conflict \/ FixRecolour \/ FixDone \/ Min \/ Cut \/ RmRoot \/ RmUp \/ RmExchange
           \/ IterBegin \/ IterLeaf \/ IterDown \/ IterBack \/ IterEnd
           \/ \E n \in Node : Remove(n)
    PROVE  Ordered'
<1>1. /\ t \in Tree /\ cur \in Ref /\ t.root \in Ref
      /\ \A n \in Ref : t.p[n] \in Ref /\ Sib(t, n) \in Ref
  BY TreeHas DEF IInv, Sib
<1>2. present' = present /\ swapped' = swapped /\ pc' # "down"
  BY DEF Conflict, FixRecolour, FixDone, Min, Cut, RmRoot, RmUp, RmExchange, IterBegin,
         IterLeaf, IterDown, IterBack, IterEnd, Remove
<1>3. Carried(t, t', present)
  <2>1. CASE t' = t
    BY <1>1, <2>1, PaintCarries
  <2>2. CASE FixRecolour
    BY <1>1, <2>2, PaintCarries DEF FixRecolour, Uncle, Grand
  <2>3. CASE FixDone
    BY <1>1, <2>3, PaintCarries DEF FixDone
  <2>4. CASE Cut
    BY <1>1, <2>4, PaintCarries DEF Cut
  <2>5. CASE RmUp
    BY <1>1, <2>5, PaintCarries DEF RmUp
  <2>6. CASE RmExchange
    BY <1>1, <2>6, PaintCarries DEF RmExchange
  <2> QED
    BY <2>1, <2>2, <2>3, <2>4, <2>5, <2>6
       DEF Conflict, Min, RmRoot, IterBegin, IterLeaf, IterDown, IterBack, IterEnd, Remove
<1> QED
  BY <1>2, <1>3, CarriedOrdered

LEMMA TurnCarries ==
    ASSUME NEW S \in SUBSET Node, NEW x, NEW d, Shape(x, S), Deep(x, d),
           NEW z, NEW R, Repainted(x, z, R), Nil \notin R, NEW n \in Node, NEW y,
           \/ RotateLeft(z, n) = y /\ x.r[n] # Nil
           \/ RotateRight(z, n) = y /\ x.l[n] # Nil
    PROVE  Carried(x, y, S)
<1>1. Shape(z, S) /\ Deep(z, d) /\ z.l = x.l /\ z.r = x.r
  BY SameShape DEF Repainted
<1>2. Carried(z, y, S)
  <2>1. CASE RotateLeft(z, n) = y /\ x.r[n] # Nil
    BY <1>1, <2>1, LeftCarries
  <2>2. CASE RotateRight(z, n) = y /\ x.l[n] # Nil
    BY <1>1, <2>2, RightCarries
  <2> QED
    BY <2>1, <2>2
<1> QED
  BY <1>2, RepaintedCarries

LEMMA InsertOrdered ==
    ASSUME IInv, Ordered, NEW n \in Node, Insert(n)
    PROVE  Ordered'
<1>1. TypeOK /\ Fixing(t, present, Nil)
  BY DEF IInv, Insert, TreeAt
<1>2. PICK d : Shape(t, present) /\ Deep(t, d)
  BY <1>1 DEF Fixing
<1>3. n \in Node \ present /\ n \in Ref /\ t.l[n] = Nil /\ t.r[n] = Nil /\ t.p[n] = Nil
  BY <1>2 DEF Insert, Shape, Ref
<1>4. t' = [t EXCEPT !.l[n] = Nil, !.r[n] = Nil, !.p[n] = Nil, !.red = @ \cup {n}]
  BY DEF Insert
<1>5. t'.root = t.root /\ t'.l = t.l /\ t'.r = t.r
  BY <1>1, <1>3, <1>4, TreeHas DEF Tree
<1>6. up' = Nil /\ present' = present /\ swapped' = swapped
  BY DEF Insert
<1>7. PICK U : Holds(t, present, U) /\ (~ swapped => Sorted(t, present, U, Key))
  BY DEF Ordered
<1>8. Holds(t', present, U) /\ (~ swapped => Sorted(t', present, U, Key))
  BY <1>5, <1>7 DEF Holds, Sorted
<1>9. \A a \in present : Nil \notin U[t.l[a]] /\ Nil \notin U[t.r[a]]
  <2>1. present \subseteq Node /\ Nil \notin present /\ \A a \in present : t.l[a] \in Ref /\ t.r[a] \in Ref
    BY <1>1, TreeHas
  <2> QED
    BY <1>7, <2>1 DEF Holds
<1>10. Fits(U)'
  BY <1>5, <1>6, <1>9 DEF Fits
<1> QED
  BY <1>6, <1>8, <1>10 DEF Ordered

LEMMA InitOrdered ==
    ASSUME Init
    PROVE  Ordered
<1>1. PICK U : U = [n \in Ref |-> {}]
  OBVIOUS
<1>2. Holds(t, present, U) /\ Sorted(t, present, U, Key)
  BY <1>1 DEF Init, Holds, Sorted, Ref
<1> QED
  BY <1>2 DEF Ordered, Init

(* The steps of an insertion, and those of a removal, that turn the tree.  *)
LEMMA FixTurnOrdered ==
    ASSUME IInv, Ordered, FixInner \/ FixOuter
    PROVE  Ordered'
<1>1. TypeOK /\ Fixing(t, present, cur) /\ cur \in present
  BY DEF IInv, FixInner, FixOuter, TreeAt, Places
<1>2. PICK d : Shape(t, present) /\ Deep(t, d)
  BY <1>1 DEF Fixing
<1>3. /\ t \in Tree /\ present \in SUBSET Node /\ cur \in Ref /\ Nil \notin t.red
      /\ Nil \notin present
      /\ \A n \in Ref : t.l[n] \in Ref /\ t.r[n] \in Ref /\ t.p[n] \in Ref
  BY <1>1, <1>2, TreeHas DEF Shape
<1>4. Family(t, present, d)
  BY <1>2, <1>3, Kin
<1>5. PICK p, y : t.p[cur] = p /\ y = t'
  OBVIOUS
<1>6. present' = present /\ swapped' = swapped /\ pc' # "down"
  BY DEF FixInner, FixOuter
<1>7. CASE FixInner
  <2>1. p \in t.red
    BY <1>5, <1>7 DEF FixInner
  <2>2. Kindred(t, present, d, cur)
    BY <1>3, <1>4, <1>5, <2>1 DEF Family
  <2>3. /\ p \in Node
        /\ IsLeft(t, cur) => t.l[p] # Nil
        /\ ~ IsLeft(t, cur) => t.r[p] # Nil
    BY <1>1, <1>3, <1>5, <2>2 DEF Kindred
  <2>4. Repainted(t, t, t.red)
    BY <1>3 DEF Repainted
  <2>5. CASE y = t
    BY <1>3, <1>5, <1>6, <2>5, PaintCarries, CarriedOrdered
  <2>6. CASE y # t
    <3>1. /\ IsLeft(t, cur) => y = RotateRight(t, p)
          /\ ~ IsLeft(t, cur) => y = RotateLeft(t, p)
      BY <1>5, <1>7, <2>6, Zenon DEF FixInner
    <3>2. Carried(t, y, present)
      BY <1>2, <1>3, <2>3, <2>4, <3>1, TurnCarries
    <3> QED
      BY <1>5, <1>6, <3>2, CarriedOrdered
  <2> QED
    BY <2>5, <2>6
<1>8. CASE FixOuter
  <2>1. PICK g, z : t.p[p] = g /\ Paint(Paint(t, p, FALSE), g, TRUE) = z
    OBVIOUS
  <2>2. p \in Ref /\ g \in Ref
    BY <1>3, <1>5, <2>1
  <2>3. Repainted(t, z, (t.red \ {p}) \cup {g})
    BY <1>3, <2>1, <2>2, PaintTwice
  <2>4. /\ IsLeft(t, p) => y = RotateRight(z, g)
        /\ ~ IsLeft(t, p) => y = RotateLeft(z, g)
    BY <1>5, <1>8, <2>1, Zenon DEF FixOuter, Grand
  <2>5. Outer(t, cur)
    BY <1>8 DEF IInv, Places, FixOuter
  <2>6. /\ g # Nil /\ p # Nil
        /\ p = t.l[g] \/ p = t.r[g]
    BY <1>3, <1>5, <2>1, <2>5 DEF Outer
  <2>7. g \in Node
    BY <2>2, <2>6 DEF Ref
  <2>8. /\ IsLeft(t, p) => t.l[g] # Nil
        /\ ~ IsLeft(t, p) => t.r[g] # Nil
    BY <2>1, <2>6 DEF IsLeft
  <2>9. Nil \notin (t.red \ {p}) \cup {g}
    BY <1>3, <2>6
  <2>10. Carried(t, y, present)
    BY <1>2, <1>3, <2>3, <2>4, <2>7, <2>8, <2>9, TurnCarries
  <2> QED
    BY <1>5, <1>6, <2>10, CarriedOrdered
<1> QED
  BY <1>7, <1>8

LEMMA RmTurnOrdered ==
    ASSUME IInv, Ordered, RmRedSibling \/ RmNear \/ RmFar
    PROVE  Ordered'
<1>1. /\ TypeOK /\ Removing(t, present, new, cur) /\ cur \in present
      /\ t.p[cur] # Nil
  BY DEF IInv, RmRedSibling, RmNear, RmFar, TreeAt, Places, Near
<1>2. PICK d : Shape(t, present) /\ Deep(t, d)
  BY <1>1 DEF Removing
<1>3. /\ t \in Tree /\ present \in SUBSET Node /\ cur \in Ref /\ Nil \notin t.red
      /\ Nil \notin present /\ t.l[Nil] = Nil /\ t.r[Nil] = Nil
      /\ \A n \in Ref : t.l[n] \in Ref /\ t.r[n] \in Ref /\ t.p[n] \in Ref
  BY <1>1, <1>2, TreeHas DEF Shape
<1>4. Kindred(t, present, d, cur)
  <2>1. Family(t, present, d)
    BY <1>2, <1>3, Kin
  <2> QED
    BY <1>1, <1>3, <2>1 DEF Family
<1>5. PICK p, s, y : t.p[cur] = p /\ Sib(t, cur) = s /\ y = t'
  OBVIOUS
<1>6. present' = present /\ swapped' = swapped /\ pc' # "down"
  BY DEF RmRedSibling, RmNear, RmFar
<1>7. /\ p \in Node /\ p \in Ref /\ s \in Ref /\ s # cur /\ p # Nil
      /\ IsLeft(t, cur) => cur = t.l[p] /\ s = t.r[p]
      /\ ~ IsLeft(t, cur) => cur = t.r[p] /\ s = t.l[p]
  BY <1>1, <1>3, <1>4, <1>5 DEF Kindred
<1>8. t' = t => Ordered'
  BY <1>3, <1>6, PaintCarries, CarriedOrdered
<1>9. CASE RmRedSibling
  <2>1. CASE s \in t.red
    <3>1. PICK z : Paint(Paint(t, p, TRUE), s, FALSE) = z
      OBVIOUS
    <3>2. Repainted(t, z, (t.red \cup {p}) \ {s})
      BY <1>3, <1>7, <3>1, PaintTwice
    <3>3. /\ IsLeft(t, cur) => y = RotateLeft(z, p)
          /\ ~ IsLeft(t, cur) => y = RotateRight(z, p)
      BY <1>5, <1>9, <2>1, <3>1, Zenon DEF RmRedSibling
    <3>4. s # Nil /\ Nil \notin (t.red \cup {p}) \ {s}
      BY <1>3, <1>7, <2>1
    <3>5. Carried(t, y, present)
      BY <1>2, <1>3, <1>7, <3>2, <3>3, <3>4, TurnCarries
    <3> QED
      BY <1>5, <1>6, <3>5, CarriedOrdered
  <2>2. CASE s \notin t.red
    BY <1>5, <1>8, <1>9, <2>2 DEF RmRedSibling
  <2> QED
    BY <2>1, <2>2
<1>10. CASE RmNear
  <2>1. PICK a, f : /\ (IF IsLeft(t, cur) THEN t.l[s] ELSE t.r[s]) = a
                    /\ (IF IsLeft(t, cur) THEN t.r[s] ELSE t.l[s]) = f
    OBVIOUS
  <2>2. CASE s \notin t.red /\ a \in t.red /\ f \notin t.red
    <3>1. PICK z : Paint(Paint(t, s, TRUE), a, FALSE) = z
      OBVIOUS
    <3>2. t' = IF IsLeft(t, cur) THEN RotateRight(z, s) ELSE RotateLeft(z, s)
      BY <1>5, <1>10, <2>1, <2>2, <3>1, Zenon DEF RmNear
    <3>3. /\ IsLeft(t, cur) => y = RotateRight(z, s)
          /\ ~ IsLeft(t, cur) => y = RotateLeft(z, s)
      BY <1>5, <3>2
    <3>4. a \in Ref /\ a # Nil /\ s # Nil /\ s \in Node
      BY <1>3, <1>7, <2>1, <2>2 DEF Ref
    <3>5. Repainted(t, z, (t.red \cup {s}) \ {a})
      BY <1>3, <1>7, <3>1, <3>4, PaintTwice
    <3>6. /\ IsLeft(t, cur) => t.l[s] # Nil
          /\ ~ IsLeft(t, cur) => t.r[s] # Nil
      BY <2>1, <3>4
    <3>7. Carried(t, y, present)
      BY <1>2, <1>3, <3>3, <3>4, <3>5, <3>6, TurnCarries
    <3> QED
      BY <1>5, <1>6, <3>7, CarriedOrdered
  <2>3. CASE ~ (s \notin t.red /\ a \in t.red /\ f \notin t.red)
    <3>1. t' = t
      BY <1>5, <1>10, <2>1, <2>3, Zenon DEF RmNear
    <3> QED
      BY <1>8, <3>1
  <2> QED
    BY <2>2, <2>3
<1>11. CASE RmFar
  <2>1. PICK f : (IF IsLeft(t, cur) THEN t.r[s] ELSE t.l[s]) = f
    OBVIOUS
  <2>2. f \in Ref
    BY <1>3, <1>7, <2>1
  <2>3. PICK b \in BOOLEAN : b <=> p \in t.red
    OBVIOUS
  <2>4. PICK z : Paint(Paint(Paint(t, s, b), p, FALSE), f, FALSE) = z
    OBVIOUS
  <2>5. t' = IF IsLeft(t, cur) THEN RotateLeft(z, p) ELSE RotateRight(z, p)
    <3>1. b = (p \in t.red)
      BY <2>3
    <3> QED
      BY <1>5, <1>11, <2>1, <2>4, <3>1, Zenon DEF RmFar
  <2>6. /\ IsLeft(t, cur) => y = RotateLeft(z, p)
        /\ ~ IsLeft(t, cur) => y = RotateRight(z, p)
    BY <1>5, <2>5
  <2>7. Far(t, cur)
    BY <1>11 DEF IInv, Places, RmFar
  <2>8. s # Nil
    BY <1>3, <1>5, <1>7, <2>7 DEF Far
  <2>9. PICK R : Repainted(t, z, R) /\ Nil \notin R
    <3>1. PICK v, w : Paint(t, s, b) = v /\ Paint(v, p, FALSE) = w
      OBVIOUS
    <3>2. Repainted(t, v, IF b THEN t.red \cup {s} ELSE t.red \ {s})
      BY <1>3, <1>7, <3>1, PaintGives
    <3>3. v \in Tree
      BY <3>2 DEF Repainted
    <3>4. Repainted(v, w, v.red \ {p})
      BY <1>7, <3>1, <3>3, PaintGives
    <3>5. w \in Tree
      BY <3>4 DEF Repainted
    <3>6. Repainted(w, z, w.red \ {f})
      BY <2>2, <2>4, <3>1, <3>5, PaintGives
    <3>7. Nil \notin z.red
      BY <1>3, <2>8, <3>2, <3>4, <3>6 DEF Repainted
    <3>8. Repainted(t, z, z.red)
      BY <3>2, <3>4, <3>6 DEF Repainted
    <3> QED
      BY <3>7, <3>8
  <2>10. Carried(t, y, present)
    BY <1>2, <1>3, <1>7, <2>6, <2>8, <2>9, TurnCarries
  <2> QED
    BY <1>5, <1>6, <2>10, CarriedOrdered
<1> QED
  BY <1>9, <1>10, <1>11

(* A node hung below q belongs to every subtree that q belongs to.         *)
HungSets(U, n, q) ==
    [k \in Ref |-> IF k = n THEN {n} ELSE IF q \in U[k] THEN U[k] \cup {n} ELSE U[k]]

LEMMA HungHolds ==
    ASSUME NEW S \in SUBSET Node, NEW x, NEW d, Shape(x, S), Deep(x, d), NEW n \in Node \ S,
           NEW q \in S \cup {Nil}, NEW side \in BOOLEAN,
           q = Nil => x.root = Nil,
           q # Nil => IF side THEN x.l[q] = Nil ELSE x.r[q] = Nil,
           NEW y, Hung(x, y, n, q, side), NEW U, Holds(x, S, U)
    PROVE  /\ Holds(y, S \cup {n}, HungSets(U, n, q))
           /\ (/\ Sorted(x, S, U, Key)
               /\ q # Nil => IF side THEN Key[n] < Key[q] ELSE Key[q] < Key[n]
               /\ \A a \in S : /\ q \in U[x.l[a]] => Key[n] < Key[a]
                               /\ q \in U[x.r[a]] => Key[a] < Key[n])
              => Sorted(y, S \cup {n}, HungSets(U, n, q), Key)
<1>1. Family(x, S, d)
  BY Kin
<1>2. /\ Nil \in Ref /\ Node \subseteq Ref /\ Nil \notin Node /\ S \subseteq Ref /\ n \in Ref
      /\ n # Nil /\ q # n /\ q \in Ref /\ Nil \notin S /\ x.l[n] = Nil /\ x.r[n] = Nil
      /\ x.root \in S \cup {Nil}
      /\ \A k \in Ref : x.l[k] \in Ref /\ x.r[k] \in Ref
  BY TreeAssumption DEF Shape, Ref, Tree
<1>3. \A k \in Ref : x.l[k] # n /\ x.r[k] # n
  BY <1>1, <1>2 DEF Family, Begets
<1>4. /\ U \in [Ref -> SUBSET S] /\ U[Nil] = {} /\ U[x.root] = S
      /\ \A a \in S : /\ U[a] = {a} \cup U[x.l[a]] \cup U[x.r[a]]
                      /\ a \notin U[x.l[a]] /\ a \notin U[x.r[a]]
                      /\ U[x.l[a]] \cap U[x.r[a]] = {}
  BY DEF Holds
<1>5. PICK V : V = HungSets(U, n, q)
  OBVIOUS
<1>6. \A k \in Ref : V[k] = IF k = n THEN {n} ELSE IF q \in U[k] THEN U[k] \cup {n} ELSE U[k]
  BY <1>5 DEF HungSets
<1>7. V \in [Ref -> SUBSET (S \cup {n})] /\ V[Nil] = {} /\ V[n] = {n}
  <2>1. ASSUME NEW k \in Ref
        PROVE  V[k] \in SUBSET (S \cup {n})
    <3>1. U[k] \subseteq S
      BY <1>4
    <3> QED
      BY <1>6, <3>1
  <2>2. V = [k \in Ref |-> V[k]]
    BY <1>5 DEF HungSets
  <2> QED
    BY <1>2, <1>4, <1>6, <2>1, <2>2
<1>8. /\ y.root = IF q = Nil THEN n ELSE x.root
      /\ \A m \in Ref : y.l[m] = IF m = q /\ q # Nil /\ side THEN n ELSE x.l[m]
      /\ \A m \in Ref : y.r[m] = IF m = q /\ q # Nil /\ ~ side THEN n ELSE x.r[m]
  BY DEF Hung
<1>9. V[y.root] = S \cup {n}
  <2>1. CASE q = Nil
    BY <1>4, <1>7, <1>8, <2>1
  <2>2. CASE q # Nil
    <3>1. x.root # n /\ x.root \in Ref /\ q \in U[x.root]
      BY <1>2, <1>4, <2>2
    <3> QED
      BY <1>4, <1>6, <1>8, <2>2, <3>1
  <2> QED
    BY <2>1, <2>2
<1>10. y.l[n] = Nil /\ y.r[n] = Nil
  BY <1>2, <1>8
<1>11. ASSUME NEW a \in S
       PROVE  /\ V[a] = {a} \cup V[y.l[a]] \cup V[y.r[a]]
              /\ a \notin V[y.l[a]] /\ a \notin V[y.r[a]]
              /\ V[y.l[a]] \cap V[y.r[a]] = {}
  <2>1. PICK i, j : x.l[a] = i /\ x.r[a] = j
    OBVIOUS
  <2>2. /\ i \in Ref /\ j \in Ref /\ i # n /\ j # n /\ a # n /\ a \in Ref /\ a # Nil
        /\ n \notin U[a] /\ n \notin U[i] /\ n \notin U[j]
        /\ U[a] = {a} \cup U[i] \cup U[j] /\ a \notin U[i] /\ a \notin U[j] /\ U[i] \cap U[j] = {}
    BY <1>2, <1>3, <1>4, <2>1
  <2>3. /\ V[a] = IF q \in U[a] THEN U[a] \cup {n} ELSE U[a]
        /\ V[i] = IF q \in U[i] THEN U[i] \cup {n} ELSE U[i]
        /\ V[j] = IF q \in U[j] THEN U[j] \cup {n} ELSE U[j]
    BY <1>6, <2>2
  <2>4. CASE a # q
    <3>1. y.l[a] = i /\ y.r[a] = j
      BY <1>8, <2>1, <2>2, <2>4
    <3> QED
      BY <2>2, <2>3, <2>4, <3>1
  <2>5. CASE a = q /\ side
    <3>1. y.l[a] = n /\ y.r[a] = j /\ i = Nil
      BY <1>8, <2>1, <2>2, <2>5
    <3> QED
      BY <1>4, <1>7, <2>2, <2>3, <2>5, <3>1
  <2>6. CASE a = q /\ ~ side
    <3>1. y.l[a] = i /\ y.r[a] = n /\ j = Nil
      BY <1>8, <2>1, <2>2, <2>6
    <3> QED
      BY <1>4, <1>7, <2>2, <2>3, <2>6, <3>1
  <2> QED
    BY <2>4, <2>5, <2>6
<1>12. Holds(y, S \cup {n}, V)
  <2>1. ASSUME NEW a \in S \cup {n}
        PROVE  /\ V[a] = {a} \cup V[y.l[a]] \cup V[y.r[a]]
               /\ a \notin V[y.l[a]] /\ a \notin V[y.r[a]]
               /\ V[y.l[a]] \cap V[y.r[a]] = {}
    <3>1. CASE a = n
      <4>1. V[a] = {a} /\ V[y.l[a]] = {} /\ V[y.r[a]] = {}
        BY <1>7, <1>10, <3>1
      <4> QED
        BY <4>1
    <3>2. CASE a # n
      BY <1>11, <3>2
    <3> QED
      BY <3>1, <3>2
  <2> QED
    BY <1>7, <1>9, <2>1 DEF Holds
<1>13. ASSUME Sorted(x, S, U, Key),
              q # Nil => IF side THEN Key[n] < Key[q] ELSE Key[q] < Key[n],
              \A a \in S : /\ q \in U[x.l[a]] => Key[n] < Key[a]
                           /\ q \in U[x.r[a]] => Key[a] < Key[n]
       PROVE  Sorted(y, S \cup {n}, V, Key)
  <2>1. ASSUME NEW a \in S, NEW m \in V[y.l[a]]
        PROVE  Key[m] < Key[a]
    <3>1. CASE m # n
      <4>1. y.l[a] # n /\ y.l[a] = x.l[a]
        BY <1>2, <1>7, <1>8, <2>1, <3>1
      <4>2. m \in U[x.l[a]]
        BY <1>2, <1>6, <2>1, <3>1, <4>1
      <4> QED
        BY <1>13, <4>2 DEF Sorted
    <3>2. CASE m = n
      <4>1. CASE y.l[a] = n
        BY <1>2, <1>3, <1>8, <1>13, <3>2, <4>1
      <4>2. CASE y.l[a] # n
        <5>1. y.l[a] = x.l[a] /\ x.l[a] \in Ref /\ x.l[a] # n
          BY <1>2, <1>8, <4>2
        <5>2. n \notin U[x.l[a]] /\ n \in V[x.l[a]]
          BY <1>4, <2>1, <3>2, <5>1
        <5>3. q \in U[x.l[a]]
          BY <1>6, <5>1, <5>2
        <5> QED
          BY <1>13, <3>2, <5>3
      <4> QED
        BY <4>1, <4>2
    <3> QED
      BY <3>1, <3>2
  <2>2. ASSUME NEW a \in S, NEW m \in V[y.r[a]]
        PROVE  Key[a] < Key[m]
    <3>1. CASE m # n
      <4>1. y.r[a] # n /\ y.r[a] = x.r[a]
        BY <1>2, <1>7, <1>8, <2>2, <3>1
      <4>2. m \in U[x.r[a]]
        BY <1>2, <1>6, <2>2, <3>1, <4>1
      <4> QED
        BY <1>13, <4>2 DEF Sorted
    <3>2. CASE m = n
      <4>1. CASE y.r[a] = n
        BY <1>2, <1>3, <1>8, <1>13, <3>2, <4>1
      <4>2. CASE y.r[a] # n
        <5>1. y.r[a] = x.r[a] /\ x.r[a] \in Ref /\ x.r[a] # n
          BY <1>2, <1>8, <4>2
        <5>2. n \notin U[x.r[a]] /\ n \in V[x.r[a]]
          BY <1>4, <2>2, <3>2, <5>1
        <5>3. q \in U[x.r[a]]
          BY <1>6, <5>1, <5>2
        <5> QED
          BY <1>13, <3>2, <5>3
      <4> QED
        BY <4>1, <4>2
    <3> QED
      BY <3>1, <3>2
  <2>3. V[y.l[n]] = {} /\ V[y.r[n]] = {}
    BY <1>7, <1>10
  <2> QED
    BY <2>1, <2>2, <2>3 DEF Sorted
<1> QED
  BY <1>5, <1>12, <1>13

(* The new node is hung where the keys want it.                            *)
LEMMA AttachOrdered ==
    ASSUME IInv, Ordered, Attach
    PROVE  Ordered'
<1>1. TypeOK /\ Fixing(t, present, Nil) /\ Places /\ pc = "down" /\ cur = Nil
  BY DEF IInv, Attach, TreeAt
<1>2. /\ new \in Node \ present /\ up \in present \cup {Nil} /\ up # new
      /\ up = Nil => t.root = Nil
      /\ up # Nil => Side(new, up) = Nil
  BY <1>1, TreeHas DEF Places
<1>3. PICK side \in BOOLEAN : side <=> Key[new] < Key[up]
  OBVIOUS
<1>4. (LET v == [t EXCEPT !.p[new] = up]
       IN  IF up = Nil THEN [v EXCEPT !.root = new]
           ELSE IF side THEN [v EXCEPT !.l[up] = new]
           ELSE [v EXCEPT !.r[up] = new]) = t'
  BY <1>3 DEF Attach
<1>5. PICK y : y = t'
  OBVIOUS
<1>6. Hung(t, y, new, up, side)
  <2>1. t \in Tree /\ new \in Node /\ up \in Ref /\ up # new /\ side \in BOOLEAN
    BY <1>1, <1>2, TreeHas
  <2> QED
    BY ONLY <1>4, <1>5, <2>1, HangGives
<1>7. up # Nil => IF side THEN t.l[up] = Nil ELSE t.r[up] = Nil
  BY <1>2, <1>3 DEF Side
<1>8. PICK d : Shape(t, present) /\ Deep(t, d)
  BY <1>1 DEF Fixing
<1>9. PICK U : /\ Holds(t, present, U) /\ (~ swapped => Sorted(t, present, U, Key))
               /\ Fits(U)
  BY <1>1 DEF Ordered
<1>10. PICK V : HungSets(U, new, up) = V
  OBVIOUS
<1>11. /\ up # Nil => IF side THEN Key[new] < Key[up] ELSE Key[up] < Key[new]
       /\ \A a \in present : /\ up \in U[t.l[a]] => Key[new] < Key[a]
                             /\ up \in U[t.r[a]] => Key[a] < Key[new]
  <2>1. up # Nil => Key[up] \in Int /\ Key[new] \in Int /\ Key[new] # Key[up]
    BY <1>1, <1>2, <1>9, TreeHas, TreeAssumption DEF Fits
  <2> QED
    BY <1>3, <1>9, <2>1 DEF Fits
<1>12. /\ Holds(y, present \cup {new}, V)
       /\ ~ swapped => Sorted(y, present \cup {new}, V, Key)
  <2>1. present \in SUBSET Node
    BY <1>1, TreeHas
  <2> QED
    BY <1>2, <1>6, <1>7, <1>8, <1>9, <1>10, <1>11, <2>1, HungHolds
<1>13. present' = present \cup {new} /\ swapped' = swapped /\ pc' = "fix"
  BY DEF Attach
<1> QED
  BY <1>5, <1>12, <1>13 DEF Ordered

(* Two nodes that change places: no longer in the order of the keys.       *)
LEMMA RenamedHolds ==
    ASSUME NEW S \in SUBSET Node, NEW x \in Tree, NEW m \in S, NEW n \in S, NEW y,
           Renames(x, y, Other(m, n)), NEW U, Holds(x, S, U)
    PROVE  \E V : Holds(y, S, V)
<1>1. PICK o : Other(m, n) = o
  OBVIOUS
<1>2. /\ o \in [Ref -> Ref] /\ \A k \in Ref : o[o[k]] = k
      /\ \A k \in S : o[k] \in S
      /\ o[Nil] = Nil
      /\ Nil \in Ref /\ S \subseteq Ref
  BY <1>1, TreeAssumption DEF Other, Ref
<1>3. PICK V : V = [k \in Ref |-> {o[j] : j \in U[o[k]]}]
  OBVIOUS
<1>4. /\ U \in [Ref -> SUBSET S] /\ U[Nil] = {} /\ U[x.root] = S
      /\ \A a \in S : /\ U[a] = {a} \cup U[x.l[a]] \cup U[x.r[a]]
                      /\ a \notin U[x.l[a]] /\ a \notin U[x.r[a]]
                      /\ U[x.l[a]] \cap U[x.r[a]] = {}
  BY DEF Holds
<1>5. x.root \in Ref /\ \A k \in Ref : x.l[k] \in Ref /\ x.r[k] \in Ref
  BY DEF Tree
<1>6. \A k \in Ref : V[k] = {o[j] : j \in U[o[k]]}
  BY <1>3
<1>7. V \in [Ref -> SUBSET S]
  <2>1. ASSUME NEW k \in Ref
        PROVE  {o[j] : j \in U[o[k]]} \in SUBSET S
    <3>1. U[o[k]] \subseteq S
      BY <1>2, <1>4
    <3> QED
      BY <1>2, <3>1
  <2> QED
    BY <1>3, <2>1
<1>8. /\ y.root = o[x.root]
      /\ \A k \in Ref : y.l[k] = o[x.l[o[k]]] /\ y.r[k] = o[x.r[o[k]]]
  BY <1>1 DEF Renames
<1>9. V[Nil] = {}
  BY <1>2, <1>4, <1>6
<1>10. V[y.root] = S
  <2>1. V[y.root] = {o[j] : j \in S}
    BY <1>2, <1>4, <1>5, <1>6, <1>8
  <2> QED
    BY <1>2, <2>1
<1>11. ASSUME NEW a \in S
       PROVE  /\ V[a] = {a} \cup V[y.l[a]] \cup V[y.r[a]]
              /\ a \notin V[y.l[a]] /\ a \notin V[y.r[a]]
              /\ V[y.l[a]] \cap V[y.r[a]] = {}
  <2>1. PICK b, i, j : o[a] = b /\ x.l[b] = i /\ x.r[b] = j
    OBVIOUS
  <2>2. /\ a \in Ref /\ b \in S /\ b \in Ref /\ i \in Ref /\ j \in Ref /\ o[b] = a
        /\ y.l[a] = o[i] /\ y.r[a] = o[j]
    BY <1>2, <1>5, <1>8, <2>1
  <2>3. /\ o[i] \in Ref /\ o[j] \in Ref /\ o[o[i]] = i /\ o[o[j]] = j
    BY <1>2, <2>2
  <2>4. /\ V[a] = {o[k] : k \in U[b]} /\ V[y.l[a]] = {o[k] : k \in U[i]}
        /\ V[y.r[a]] = {o[k] : k \in U[j]}
    BY <1>6, <2>1, <2>2, <2>3
  <2>5. /\ U[b] = {b} \cup U[i] \cup U[j] /\ b \notin U[i] /\ b \notin U[j]
        /\ U[i] \cap U[j] = {}
    BY <1>4, <2>1, <2>2
  <2>6. U[i] \subseteq Ref /\ U[j] \subseteq Ref
    BY <1>2, <1>4, <2>2
  <2>7. \A k1, k2 \in Ref : o[k1] = o[k2] => k1 = k2
    BY <1>2
  <2> QED
    BY <2>2, <2>4, <2>5, <2>6, <2>7
<1> QED
  BY <1>7, <1>9, <1>10, <1>11 DEF Holds

LEMMA SwapOrdered ==
    ASSUME IInv, Ordered, Swap
    PROVE  Ordered'
<1>1. TypeOK /\ new \in present /\ cur \in present
  BY DEF IInv, Swap, Places
<1>2. t \in Tree /\ present \in SUBSET Node
  BY <1>1, TreeHas
<1>3. PICK y : Exchange(t, new, cur) = y
  OBVIOUS
<1>4. Renames(t, y, Other(new, cur))
  BY <1>1, <1>2, <1>3, ExchangeGives
<1>5. PICK U : Holds(t, present, U)
  BY DEF Ordered
<1>6. \E V : Holds(y, present, V)
  BY <1>1, <1>2, <1>4, <1>5, RenamedHolds
<1>7. t' = y /\ present' = present /\ swapped' = TRUE /\ pc' = "cut"
  BY <1>3 DEF Swap
<1> QED
  BY <1>6, <1>7 DEF Ordered

(* The child of the removed node takes its place: the rest is as before.   *)
LEMMA ReplacedHolds ==
    ASSUME NEW S \in SUBSET Node, NEW x, NEW d, Shape(x, S), Deep(x, d), NEW g \in S, NEW c,
           Child(x, g) = c, x.l[g] = Nil \/ x.r[g] = Nil, NEW q, x.p[g] = q,
           NEW y, Replaced(x, y, g, c, q), NEW U, Holds(x, S, U)
    PROVE  \E V : /\ Holds(y, S \ {g}, V)
                  /\ Sorted(x, S, U, Key) => Sorted(y, S \ {g}, V, Key)
<1>1. Family(x, S, d)
  BY Kin
<1>2. /\ Nil \in Ref /\ Nil \notin Node /\ S \subseteq Ref /\ Nil \notin S /\ g \in Ref /\ g # Nil
      /\ x.root \in S \cup {Nil} /\ q \in Ref /\ x.l[Nil] = Nil /\ x.r[Nil] = Nil
      /\ g = x.root \/ q # Nil
      /\ x.root # Nil => x.p[x.root] = Nil
      /\ \A k \in Ref : x.l[k] \in Ref /\ x.r[k] \in Ref
  BY TreeAssumption DEF Shape, Ref, Tree
<1>3. /\ \A k \in Ref : x.l[k] = g \/ x.r[k] = g => k = q /\ k # Nil
      /\ q # Nil => /\ q \in S /\ q # g /\ x.l[q] # x.r[q]
                    /\ x.l[q] = g \/ x.r[q] = g
  BY <1>1, <1>2 DEF Family, Begets, Kindred
<1>4. /\ U \in [Ref -> SUBSET S] /\ U[Nil] = {} /\ U[x.root] = S
      /\ \A a \in S : /\ U[a] = {a} \cup U[x.l[a]] \cup U[x.r[a]]
                      /\ a \notin U[x.l[a]] /\ a \notin U[x.r[a]]
                      /\ U[x.l[a]] \cap U[x.r[a]] = {}
  BY DEF Holds
<1>5. c \in Ref /\ U[g] = {g} \cup U[c] /\ g \notin U[c]
  BY <1>2, <1>4 DEF Child
<1>6. PICK V : V = [k \in Ref |-> U[k] \ {g}]
  OBVIOUS
<1>7. /\ \A k \in Ref : V[k] = U[k] \ {g}
      /\ V \in [Ref -> SUBSET (S \ {g})]
  BY <1>4, <1>6
<1>8. /\ y.root = IF q = Nil THEN c ELSE x.root
      /\ \A m \in Ref : y.l[m] = IF m = g THEN Nil
                                 ELSE IF m = q /\ m # Nil /\ x.l[m] = g THEN c ELSE x.l[m]
      /\ \A m \in Ref : y.r[m] = IF m = g THEN Nil
                                 ELSE IF m = q /\ m # Nil /\ x.l[m] # g THEN c ELSE x.r[m]
  BY DEF Replaced
<1>9. V[Nil] = {}
  BY <1>2, <1>4, <1>7
<1>10. V[y.root] = S \ {g}
  <2>1. CASE q = Nil
    <3>1. y.root = c /\ S = {g} \cup U[c]
      BY <1>2, <1>4, <1>5, <1>8, <2>1
    <3> QED
      BY <1>5, <1>7, <3>1
  <2>2. CASE q # Nil
    BY <1>2, <1>4, <1>7, <1>8, <2>2
  <2> QED
    BY <2>1, <2>2
<1>11. ASSUME NEW a \in S \ {g}
       PROVE  V[y.l[a]] = U[x.l[a]] \ {g} /\ V[y.r[a]] = U[x.r[a]] \ {g}
  <2>1. PICK i, j : x.l[a] = i /\ x.r[a] = j
    OBVIOUS
  <2>2. a \in Ref /\ a # g /\ a # Nil /\ i \in Ref /\ j \in Ref
    BY <1>2, <2>1
  <2>3. V[i] = U[i] \ {g} /\ V[j] = U[j] \ {g} /\ V[c] = U[g] \ {g}
    BY <1>5, <1>7, <2>2
  <2>4. CASE a # q
    BY <1>8, <2>1, <2>2, <2>3, <2>4
  <2>5. CASE a = q /\ i = g
    <3>1. y.l[a] = c /\ y.r[a] = j
      BY <1>8, <2>1, <2>2, <2>5
    <3> QED
      BY <2>1, <2>3, <2>5, <3>1
  <2>6. CASE a = q /\ i # g
    <3>1. y.l[a] = i /\ y.r[a] = c /\ j = g
      BY <1>3, <1>8, <2>1, <2>2, <2>6
    <3> QED
      BY <2>1, <2>3, <2>6, <3>1
  <2> QED
    BY <2>4, <2>5, <2>6
<1>12. Holds(y, S \ {g}, V)
  <2>1. ASSUME NEW a \in S \ {g}
        PROVE  /\ V[a] = {a} \cup V[y.l[a]] \cup V[y.r[a]]
               /\ a \notin V[y.l[a]] /\ a \notin V[y.r[a]]
               /\ V[y.l[a]] \cap V[y.r[a]] = {}
    <3>1. V[a] = U[a] \ {g} /\ a # g /\ a \in S
      BY <1>2, <1>7
    <3>2. V[y.l[a]] = U[x.l[a]] \ {g} /\ V[y.r[a]] = U[x.r[a]] \ {g}
      BY <1>11
    <3>3. /\ U[a] = {a} \cup U[x.l[a]] \cup U[x.r[a]]
          /\ a \notin U[x.l[a]] /\ a \notin U[x.r[a]]
          /\ U[x.l[a]] \cap U[x.r[a]] = {}
      BY <1>4
    <3> QED
      BY <3>1, <3>2, <3>3
  <2> QED
    BY <1>7, <1>9, <1>10, <2>1 DEF Holds
<1>13. Sorted(x, S, U, Key) => Sorted(y, S \ {g}, V, Key)
  BY <1>11 DEF Sorted
<1> QED
  BY <1>12, <1>13

LEMMA ReplaceOrdered ==
    ASSUME IInv, Ordered, Replace
    PROVE  Ordered'
<1>1. TypeOK /\ Removing(t, present, new, Nil) /\ new \in present
  BY DEF IInv, Replace, TreeAt, Places
<1>2. /\ t \in Tree /\ present \in SUBSET Node /\ new \in Node /\ new \in Ref
      /\ \A n \in Ref : t.l[n] \in Ref /\ t.r[n] \in Ref /\ t.p[n] \in Ref
  BY <1>1, TreeHas
<1>3. PICK c, q : Child(t, new) = c /\ t.p[new] = q
  OBVIOUS
<1>4. c \in Ref
  BY <1>2, <1>3 DEF Child
<1>5. PICK d : Shape(t, present) /\ Deep(t, d)
  BY <1>1 DEF Removing
<1>6. c # new
  <2>1. c # Nil => Begets(t, present, d, new, c)
    BY <1>2, <1>3, <1>5, Kin DEF Family, Child
  <2> QED
    BY <1>1, <1>2, <2>1, TreeAssumption DEF Begets
<1>7. (IF new = t.root THEN [t EXCEPT !.root = c] ELSE Relink(t, new, c)) = Relink(t, new, c)
  <2>1. new = t.root => t.p[new] = Nil
    BY <1>2, <1>5, TreeAssumption DEF Shape
  <2> QED
    BY <2>1 DEF Relink
<1>8. PICK gone, w : Relink(t, new, c) = gone /\ SetParent(gone, c, q) = w
  OBVIOUS
<1>9. PICK y : Forget(IF q = Nil /\ c # Nil THEN Paint(w, c, FALSE) ELSE w, new) = y
  OBVIOUS
<1>10. t' = y
  BY <1>3, <1>7, <1>8, <1>9, Zenon DEF Replace
<1>11. Replaced(t, y, new, c, q)
  BY <1>2, <1>3, <1>4, <1>6, <1>8, <1>9, ReplaceGives
<1>12. t.l[new] = Nil \/ t.r[new] = Nil
  BY <1>1 DEF Removing, RedCut
<1>13. PICK U : Holds(t, present, U) /\ (~ swapped => Sorted(t, present, U, Key))
  BY DEF Ordered
<1>14. PICK V : /\ Holds(y, present \ {new}, V)
                /\ Sorted(t, present, U, Key) => Sorted(y, present \ {new}, V, Key)
  BY <1>1, <1>2, <1>3, <1>5, <1>11, <1>12, <1>13, ReplacedHolds
<1>15. present' = present \ {new} /\ swapped' = swapped /\ pc' = "idle"
  BY DEF Replace
<1> QED
  BY <1>10, <1>13, <1>14, <1>15 DEF Ordered

(* The nodes of the tree are those present, in the order of the keys until *)
(* a node with two children is removed, at every step.                     *)
LEMMA AlwaysOrdered == Spec => [](IInv /\ Ordered)
<1>1. Init => IInv /\ Ordered
  BY InitInv, InitOrdered
<1>2. IInv /\ Ordered /\ [Next]_vars => Ordered'
  <2> SUFFICES ASSUME IInv, Ordered, [Next]_vars PROVE Ordered'
    OBVIOUS
  <2>1. CASE \E n \in Node : Insert(n)
    BY <2>1, InsertOrdered
  <2>2. CASE Descend
    BY <2>2, DescendOrdered
  <2>3. CASE Attach
    BY <2>3, AttachOrdered
  <2>4. CASE FixInner \/ FixOuter
    BY <2>4, FixTurnOrdered
  <2>5. CASE Swap
    BY <2>5, SwapOrdered
  <2>6. CASE RmRedSibling \/ RmNear \/ RmFar
    BY <2>6, RmTurnOrdered
  <2>7. CASE Replace
    BY <2>7, ReplaceOrdered
  <2>8. CASE \/ Conflict \/ FixRecolour \/ FixDone \/ Min \/ Cut \/ RmRoot \/ RmUp \/ RmExchange
             \/ IterBegin \/ IterLeaf \/ IterDown \/ IterBack \/ IterEnd
             \/ \E n \in Node : Remove(n)
    BY <2>8, StillOrdered
  <2>9. CASE UNCHANGED vars
    BY <2>9 DEF vars, Ordered, Fits
  <2> QED
    BY <2>1, <2>2, <2>3, <2>4, <2>5, <2>6, <2>7, <2>8, <2>9 DEF Next
<1> QED
  BY <1>1, <1>2, Invariance, PTL DEF Spec
-----------------------------------------------------------------------------

(* Functions on the nodes defined by recursion along the links.  The       *)
(* equation has a solution: one for the nodes of a rank below k, whatever  *)
(* k is, and two of them agree where both are solutions.                   *)
Solved(z, G, x, rank, k, f) ==
    \A n \in Ref : rank[n] < k =>
        f[n] = IF n = Nil THEN z ELSE G[n][f[x.l[n]]][f[x.r[n]]]

LEMMA SolvedAgree ==
    ASSUME NEW x \in Tree, NEW rank, Ranks(x, rank), NEW z, NEW G, NEW i \in Nat, NEW j \in Nat,
           NEW f, NEW g, Solved(z, G, x, rank, i, f), Solved(z, G, x, rank, j, g)
    PROVE  \A n \in Ref : rank[n] < i /\ rank[n] < j => f[n] = g[n]
<1>1. PICK X : X = {n \in Ref : rank[n] < i /\ rank[n] < j /\ f[n] # g[n]}
  OBVIOUS
<1>2. SUFFICES ASSUME X # {} PROVE FALSE
  BY <1>1
<1>3. rank \in [Ref -> Nat] /\ X \in SUBSET Ref
  BY <1>1 DEF Ranks
<1>4. PICK n \in X : \A m \in X : rank[n] <= rank[m]
  BY <1>2, <1>3, LeastRank
<1>5. n \in Ref /\ rank[n] < i /\ rank[n] < j /\ f[n] # g[n]
  BY <1>1, <1>4
<1>6. n # Nil /\ n \in Node
  BY <1>5 DEF Solved, Ref
<1>7. ASSUME NEW c \in Ref, c = x.l[n] \/ c = x.r[n]
      PROVE  f[c] = g[c]
  <2>1. rank[c] < rank[n] /\ rank[c] \in Nat /\ rank[n] \in Nat
    BY <1>3, <1>5, <1>6, <1>7 DEF Ranks
  <2> QED
    BY <1>1, <1>4, <1>5, <2>1
<1>8. f[x.l[n]] = g[x.l[n]] /\ f[x.r[n]] = g[x.r[n]]
  <2>1. x.l[n] \in Ref /\ x.r[n] \in Ref
    BY <1>5 DEF Tree
  <2> QED
    BY <1>7, <2>1
<1>9. /\ f[n] = G[n][f[x.l[n]]][f[x.r[n]]]
      /\ g[n] = G[n][g[x.l[n]]][g[x.r[n]]]
  BY <1>5, <1>6 DEF Solved
<1> QED
  BY <1>5, <1>8, <1>9

LEMMA SolvedFar ==
    ASSUME NEW x \in Tree, NEW rank, Ranks(x, rank), NEW V, NEW z \in V,
           NEW G \in [Node -> [V -> [V -> V]]]
    PROVE  \A k \in Nat : \E f \in [Ref -> V] : Solved(z, G, x, rank, k, f)
<1>1. PICK X : X = {k \in Nat : ~ \E f \in [Ref -> V] : Solved(z, G, x, rank, k, f)}
  OBVIOUS
<1>2. SUFFICES ASSUME X # {} PROVE FALSE
  BY <1>1
<1>3. X \in SUBSET Nat
  BY <1>1
<1>4. PICK k \in X : \A j \in X : k <= j
  BY <1>2, <1>3, LeastOf
<1>5. k \in Nat /\ ~ \E f \in [Ref -> V] : Solved(z, G, x, rank, k, f)
  BY <1>1, <1>4
<1>6. /\ rank \in [Ref -> Nat]
      /\ \A n \in Ref : x.l[n] \in Ref /\ x.r[n] \in Ref
  BY DEF Ranks, Tree
<1>7. k # 0
  <2>1. [n \in Ref |-> z] \in [Ref -> V]
    OBVIOUS
  <2>2. k = 0 => Solved(z, G, x, rank, k, [n \in Ref |-> z])
    BY <1>6 DEF Solved
  <2> QED
    BY <1>5, <2>1, <2>2
<1>8. PICK i \in Nat : k = i + 1
  BY <1>5, <1>7
<1>9. i \notin X
  BY <1>4, <1>8
<1>10. PICK f \in [Ref -> V] : Solved(z, G, x, rank, i, f)
  BY <1>1, <1>9
<1>11. PICK g : g = [n \in Ref |-> IF rank[n] < i THEN f[n]
                                   ELSE IF n = Nil THEN z ELSE G[n][f[x.l[n]]][f[x.r[n]]]]
  OBVIOUS
<1>12. \A n \in Ref : n # Nil => n \in Node
  BY DEF Ref
<1>13. g \in [Ref -> V]
  <2>1. ASSUME NEW n \in Ref, n # Nil
        PROVE  G[n][f[x.l[n]]][f[x.r[n]]] \in V
    <3>1. n \in Node /\ f[x.l[n]] \in V /\ f[x.r[n]] \in V
      BY <1>6, <1>10, <1>12, <2>1
    <3> QED
      BY <3>1
  <2> QED
    BY <1>10, <1>11, <2>1
<1>14. /\ \A n \in Ref : rank[n] < i => g[n] = f[n]
       /\ \A n \in Ref : ~ (rank[n] < i) =>
              g[n] = IF n = Nil THEN z ELSE G[n][f[x.l[n]]][f[x.r[n]]]
  BY <1>11
<1>15. ASSUME NEW n \in Ref, rank[n] < k
       PROVE  g[n] = IF n = Nil THEN z ELSE G[n][g[x.l[n]]][g[x.r[n]]]
  <2>1. g[n] = IF n = Nil THEN z ELSE G[n][f[x.l[n]]][f[x.r[n]]]
    BY <1>10, <1>14 DEF Solved
  <2>2. n # Nil => g[x.l[n]] = f[x.l[n]] /\ g[x.r[n]] = f[x.r[n]]
    <3>1. n # Nil => rank[x.l[n]] < i /\ rank[x.r[n]] < i
      <4>1. /\ rank[n] \in Nat /\ rank[x.l[n]] \in Nat /\ rank[x.r[n]] \in Nat
            /\ n # Nil => rank[x.l[n]] < rank[n] /\ rank[x.r[n]] < rank[n]
        BY <1>6, <1>12 DEF Ranks
      <4> QED
        BY <1>8, <1>15, <4>1
    <3> QED
      BY <1>6, <1>14, <3>1
  <2> QED
    BY <2>1, <2>2
<1>16. Solved(z, G, x, rank, k, g)
  BY <1>15 DEF Solved
<1> QED
  BY <1>5, <1>13, <1>16

(* A function on the nodes defined by its values at the children exists.   *)
Recurs(x, V, z, G) ==
    \E F \in [Ref -> V] :
        F = [n \in Ref |-> IF n = Nil THEN z ELSE G[n][F[x.l[n]]][F[x.r[n]]]]

LEMMA Recursion ==
    ASSUME NEW x \in Tree, NEW rank, Ranks(x, rank), NEW V, NEW z \in V,
           NEW G \in [Node -> [V -> [V -> V]]]
    PROVE  Recurs(x, V, z, G)
<1>1. PICK e : e = [k \in Nat |-> CHOOSE f \in [Ref -> V] : Solved(z, G, x, rank, k, f)]
  OBVIOUS
<1>2. \A k \in Nat : e[k] \in [Ref -> V] /\ Solved(z, G, x, rank, k, e[k])
  BY <1>1, SolvedFar
<1>3. /\ rank \in [Ref -> Nat]
      /\ \A n \in Ref : x.l[n] \in Ref /\ x.r[n] \in Ref
      /\ \A n \in Ref : n # Nil => n \in Node
  BY DEF Ranks, Tree, Ref
<1>4. PICK F : F = [n \in Ref |-> e[rank[n] + 1][n]]
  OBVIOUS
<1>5. \A n \in Ref : F[n] = e[rank[n] + 1][n] /\ F[n] \in V
  BY <1>2, <1>3, <1>4
<1>6. F = [n \in Ref |-> F[n]]
  BY <1>4
<1>7. ASSUME NEW n \in Ref
      PROVE  F[n] = IF n = Nil THEN z ELSE G[n][F[x.l[n]]][F[x.r[n]]]
  <2>1. PICK k \in Nat : k = rank[n] + 1
    BY <1>3
  <2>2. Solved(z, G, x, rank, k, e[k]) /\ rank[n] < k /\ F[n] = e[k][n]
    BY <1>2, <1>3, <1>5, <2>1
  <2>3. F[n] = IF n = Nil THEN z ELSE G[n][e[k][x.l[n]]][e[k][x.r[n]]]
    BY <2>2 DEF Solved
  <2>4. ASSUME NEW c \in Ref, n # Nil, c = x.l[n] \/ c = x.r[n]
        PROVE  e[k][c] = F[c]
    <3>1. PICK j \in Nat : j = rank[c] + 1
      BY <1>3
    <3>2. rank[c] < j /\ rank[c] < k /\ F[c] = e[j][c]
      <4>1. rank[c] \in Nat /\ rank[n] \in Nat /\ rank[c] < rank[n]
        BY <1>3, <2>4 DEF Ranks
      <4> QED
        BY <1>5, <2>1, <3>1, <4>1
    <3>3. Solved(z, G, x, rank, j, e[j])
      BY <1>2
    <3>4. PICK a, b : e[k] = a /\ e[j] = b
      OBVIOUS
    <3>5. Solved(z, G, x, rank, k, a) /\ Solved(z, G, x, rank, j, b)
      BY <2>2, <3>3, <3>4
    <3>6. a[c] = b[c]
      BY <3>2, <3>5, SolvedAgree
    <3> QED
      BY <3>2, <3>4, <3>6
  <2>5. n # Nil => e[k][x.l[n]] = F[x.l[n]] /\ e[k][x.r[n]] = F[x.r[n]]
    BY <1>3, <2>4
  <2> QED
    BY <2>3, <2>5
<1>8. F = [n \in Ref |-> IF n = Nil THEN z ELSE G[n][F[x.l[n]]][F[x.r[n]]]]
  BY ONLY <1>6, <1>7
<1>9. F \in [Ref -> V]
  BY <1>4, <1>5
<1> QED
  BY <1>8, <1>9 DEF Recurs
-----------------------------------------------------------------------------

(* The order.  A sequence lists a set when it has all of its elements and  *)
(* each of them once.                                                      *)
Lists(q, A) ==
    /\ q \in Seq(Node)
    /\ \A i \in 1..Len(q) : q[i] \in A
    /\ \A a \in A : \E i \in 1..Len(q) : q[i] = a
    /\ \A i, j \in 1..Len(q) : q[i] = q[j] => i = j

LEMMA ListsCounts ==
    ASSUME NEW q, NEW A, Lists(q, A)
    PROVE  Len(q) = Cardinality(A) /\ {q[i] : i \in 1..Len(q)} = A
<1>1. Len(q) \in Nat /\ q = [i \in 1..Len(q) |-> q[i]]
  BY DEF Lists
<1>2. q \in [1..Len(q) -> A]
  BY <1>1 DEF Lists
<1>3. q \in Bijection(1..Len(q), A)
  BY <1>2 DEF Lists, Bijection, Injection, Surjection, IsInjective
<1>4. Len(q) = Cardinality(A)
  BY <1>1, <1>3, FS_CountingElements DEF ExistsBijection
<1>5. {q[i] : i \in 1..Len(q)} = A
  BY DEF Lists
<1> QED
  BY <1>4, <1>5

LEMMA ListsJoin ==
    ASSUME NEW q1, NEW q2, NEW A1, NEW A2, Lists(q1, A1), Lists(q2, A2), A1 \cap A2 = {}
    PROVE  Lists(q1 \o q2, A1 \cup A2)
<1>1. PICK k1 \in Nat, k2 \in Nat : Len(q1) = k1 /\ Len(q2) = k2
  BY DEF Lists
<1>2. PICK q : q1 \o q2 = q
  OBVIOUS
<1>3. /\ q \in Seq(Node) /\ Len(q) = k1 + k2
      /\ \A i \in 1..(k1 + k2) : q[i] = IF i <= k1 THEN q1[i] ELSE q2[i - k1]
  <2>1. q1 \in Seq(Node) /\ q2 \in Seq(Node)
    BY DEF Lists
  <2>2. /\ q1 \o q2 \in Seq(Node) /\ Len(q1 \o q2) = Len(q1) + Len(q2)
        /\ \A i \in 1..(Len(q1) + Len(q2)) :
              (q1 \o q2)[i] = IF i <= Len(q1) THEN q1[i] ELSE q2[i - Len(q1)]
    BY ONLY <2>1
  <2> QED
    BY ONLY <1>1, <1>2, <2>2
<1>4. /\ \A i \in 1..k1 : i \in 1..(k1 + k2) /\ q[i] = q1[i]
      /\ \A i \in 1..k2 : i + k1 \in 1..(k1 + k2) /\ q[i + k1] = q2[i]
      /\ \A i \in 1..(k1 + k2) : \/ i \in 1..k1 /\ q[i] = q1[i]
                                 \/ i - k1 \in 1..k2 /\ q[i] = q2[i - k1]
  BY <1>3
<1>5. /\ \A i \in 1..k1 : q1[i] \in A1
      /\ \A a \in A1 : \E i \in 1..k1 : q1[i] = a
      /\ \A i, j \in 1..k1 : q1[i] = q1[j] => i = j
      /\ \A i \in 1..k2 : q2[i] \in A2
      /\ \A a \in A2 : \E i \in 1..k2 : q2[i] = a
      /\ \A i, j \in 1..k2 : q2[i] = q2[j] => i = j
  BY <1>1 DEF Lists
<1>6. \A i \in 1..(k1 + k2) : q[i] \in A1 \cup A2
  BY <1>4, <1>5
<1>7. \A a \in A1 \cup A2 : \E i \in 1..(k1 + k2) : q[i] = a
  BY <1>4, <1>5
<1>8. ASSUME NEW i \in 1..(k1 + k2), NEW j \in 1..(k1 + k2), q[i] = q[j]
      PROVE  i = j
  <2>1. CASE i \in 1..k1 /\ j \in 1..k1
    BY <1>4, <1>5, <1>8, <2>1
  <2>2. CASE i \notin 1..k1 /\ j \notin 1..k1
    <3>1. i - k1 \in 1..k2 /\ j - k1 \in 1..k2 /\ q2[i - k1] = q2[j - k1]
      BY <1>4, <1>8, <2>2
    <3>2. i - k1 = j - k1
      BY <1>5, <3>1
    <3> QED
      BY <3>2
  <2>3. CASE i \in 1..k1 /\ j \notin 1..k1
    <3>1. q[i] \in A1 /\ q[j] \in A2
      BY <1>4, <1>5, <2>3
    <3> QED
      BY <1>8, <3>1
  <2>4. CASE i \notin 1..k1 /\ j \in 1..k1
    <3>1. q[i] \in A2 /\ q[j] \in A1
      BY <1>4, <1>5, <2>4
    <3> QED
      BY <1>8, <3>1
  <2> QED
    BY <2>1, <2>2, <2>3, <2>4
<1>9. Lists(q, A1 \cup A2)
  BY <1>3, <1>6, <1>7, <1>8 DEF Lists
<1> QED
  BY <1>2, <1>9

LEMMA ListsAround ==
    ASSUME NEW q1, NEW q2, NEW A1, NEW A2, Lists(q1, A1), Lists(q2, A2), A1 \cap A2 = {},
           NEW n \in Node, n \notin A1, n \notin A2
    PROVE  Lists(q1 \o <<n>> \o q2, {n} \cup A1 \cup A2)
<1>1. Lists(<<n>>, {n})
  BY DEF Lists
<1>2. PICK q : q1 \o <<n>> = q
  OBVIOUS
<1>3. Lists(q, A1 \cup {n})
  BY <1>1, <1>2, ListsJoin
<1>4. Lists(q \o q2, (A1 \cup {n}) \cup A2)
  BY <1>3, ListsJoin
<1>5. (A1 \cup {n}) \cup A2 = {n} \cup A1 \cup A2
  OBVIOUS
<1> QED
  BY <1>2, <1>4, <1>5

(* The sequence of a subtree lists the nodes it holds.                     *)
Flat(F) ==
    F = [n \in Ref |-> IF n = Nil THEN <<>> ELSE F[t.l[n]] \o <<n>> \o F[t.r[n]]]

TheFlat == CHOOSE F : Flat(F)

LEMMA FlatExists ==
    ASSUME NEW S \in SUBSET Node, Fixing(t, S, Nil)
    PROVE  \E F : Flat(F)
<1>1. PICK rank : Ranks(t, rank)
  BY RankFound
<1>2. t \in Tree
  BY FixingTree
<1>3. PICK G : G = [n \in Node |-> [a \in Seq(Node) |-> [b \in Seq(Node) |-> a \o <<n>> \o b]]]
  OBVIOUS
<1>4. G \in [Node -> [Seq(Node) -> [Seq(Node) -> Seq(Node)]]]
  BY <1>3
<1>5. <<>> \in Seq(Node)
  OBVIOUS
<1>6. PICK F \in [Ref -> Seq(Node)] :
          F = [n \in Ref |-> IF n = Nil THEN <<>> ELSE G[n][F[t.l[n]]][F[t.r[n]]]]
  <2>1. PICK V, z, x : Seq(Node) = V /\ <<>> = z /\ t = x
    OBVIOUS
  <2>2. x \in Tree /\ Ranks(x, rank) /\ z \in V /\ G \in [Node -> [V -> [V -> V]]]
    BY <1>1, <1>2, <1>4, <1>5, <2>1
  <2>3. Recurs(x, V, z, G)
    BY ONLY <2>2, Recursion
  <2>4. Recurs(t, Seq(Node), <<>>, G)
    BY ONLY <2>1, <2>3
  <2> QED
    BY <2>4 DEF Recurs
<1>7. ASSUME NEW n \in Ref
      PROVE  F[n] = IF n = Nil THEN <<>> ELSE F[t.l[n]] \o <<n>> \o F[t.r[n]]
  <2>1. F[n] = IF n = Nil THEN <<>> ELSE G[n][F[t.l[n]]][F[t.r[n]]]
    BY <1>6, Zenon
  <2>2. CASE n # Nil
    <3>1. n \in Node /\ F[t.l[n]] \in Seq(Node) /\ F[t.r[n]] \in Seq(Node)
      BY <1>2, <1>6, <2>2 DEF Tree, Ref
    <3>2. PICK a \in Seq(Node), b \in Seq(Node) : F[t.l[n]] = a /\ F[t.r[n]] = b
      BY <3>1
    <3>3. G[n][a][b] = a \o <<n>> \o b
      BY <1>3, <3>1
    <3> QED
      BY <2>1, <2>2, <3>2, <3>3
  <2> QED
    BY <2>1, <2>2
<1>8. F = [n \in Ref |-> F[n]]
  BY <1>6
<1>9. F = [n \in Ref |-> IF n = Nil THEN <<>> ELSE F[t.l[n]] \o <<n>> \o F[t.r[n]]]
  BY ONLY <1>7, <1>8
<1> QED
  BY <1>9 DEF Flat

(* Each subtree's sequence lists its nodes.                                *)
LEMMA FlatLists ==
    ASSUME NEW S \in SUBSET Node, Fixing(t, S, Nil), NEW U, Holds(t, S, U), NEW F, Flat(F)
    PROVE  \A n \in S \cup {Nil} : Lists(F[n], U[n])
<1>1. PICK rank : Ranks(t, rank)
  BY RankFound
<1>2. PICK d : Shape(t, S) /\ Deep(t, d)
  BY DEF Fixing
<1>3. Family(t, S, d)
  BY <1>2, Kin
<1>4. /\ t.root \in S \cup {Nil} /\ S \subseteq Ref /\ Nil \in Ref /\ Nil \notin S
      /\ U[Nil] = {} /\ U[t.root] = S
  BY <1>2, TreeAssumption DEF Shape, Ref, Holds
<1>5. \A n \in Ref : F[n] = IF n = Nil THEN <<>> ELSE F[t.l[n]] \o <<n>> \o F[t.r[n]]
  BY Zenon DEF Flat
<1>6. PICK X : X = {n \in S \cup {Nil} : ~ Lists(F[n], U[n])}
  OBVIOUS
<1>7. X = {}
  <2>1. SUFFICES ASSUME X # {} PROVE FALSE
    OBVIOUS
  <2>2. X \in SUBSET Ref /\ rank \in [Ref -> Nat]
    BY <1>1, <1>4, <1>6 DEF Ranks
  <2>3. PICK n \in X : \A m \in X : rank[n] <= rank[m]
    BY <2>1, <2>2, LeastRank
  <2>4. n \in S \cup {Nil} /\ ~ Lists(F[n], U[n])
    BY <1>6, <2>3
  <2>5. n # Nil
    <3>1. Lists(<<>>, {})
      BY DEF Lists
    <3>2. F[Nil] = <<>>
      BY <1>4, <1>5
    <3> QED
      BY <1>4, <2>4, <3>1, <3>2
  <2>6. ASSUME NEW c, c = t.l[n] \/ c = t.r[n]
        PROVE  Lists(F[c], U[c])
    <3>1. c \in S \cup {Nil}
      BY <1>3, <1>4, <2>4, <2>5, <2>6 DEF Family, Begets
    <3>2. rank[c] < rank[n] /\ rank[c] \in Nat /\ rank[n] \in Nat
      BY <1>1, <1>4, <2>2, <2>4, <2>5, <2>6, <3>1 DEF Ranks
    <3>3. c \notin X
      BY <2>3, <3>2
    <3> QED
      BY <1>6, <3>1, <3>3
  <2>7. PICK a, b, A, B : F[t.l[n]] = a /\ F[t.r[n]] = b /\ U[t.l[n]] = A /\ U[t.r[n]] = B
    OBVIOUS
  <2>8. /\ n \in Node /\ U[n] = {n} \cup A \cup B /\ n \notin A /\ n \notin B
        /\ A \cap B = {}
    BY <2>4, <2>5, <2>7 DEF Holds
  <2>9. Lists(a \o <<n>> \o b, {n} \cup A \cup B)
    BY <2>6, <2>7, <2>8, ListsAround
  <2>10. F[n] = a \o <<n>> \o b
    BY <1>4, <1>5, <2>4, <2>5, <2>7
  <2> QED
    BY <2>4, <2>8, <2>9, <2>10
<1> QED
  BY <1>6, <1>7

(* HoldsAll, with its local definition named.                              *)
LEMMA FlatHoldsAll ==
    ASSUME Quiet =>
             /\ Len(TheFlat[t.root]) = Cardinality(present)
             /\ {TheFlat[t.root][i] : i \in 1..Len(TheFlat[t.root])} = present
    PROVE  HoldsAll
  BY Zenon DEF HoldsAll, InOrder, TheFlat, Flat

(* After every operation the tree holds exactly the nodes inserted and not *)
(* removed, each once, whatever the rotations and the exchanges did        *)
(* (lc_rbt.c).                                                             *)
THEOREM HoldsAlways == Spec => []HoldsAll
<1>1. IInv /\ Ordered => HoldsAll
  <2>1. SUFFICES ASSUME IInv, Ordered, Quiet PROVE HoldsAll
    BY Zenon DEF HoldsAll
  <2>2. Fixing(t, present, Nil) /\ present \in SUBSET Node
    BY <2>1 DEF IInv, TreeAt, Quiet, TypeOK
  <2>3. PICK U : Holds(t, present, U)
    BY <2>1 DEF Ordered
  <2>4. Flat(TheFlat)
    BY <2>2, FlatExists, Zenon DEF TheFlat
  <2>5. Lists(TheFlat[t.root], present)
    <3>1. t.root \in present \cup {Nil} /\ U[t.root] = present
      BY <2>2, <2>3 DEF Fixing, Shape, Holds
    <3>2. Lists(TheFlat[t.root], U[t.root])
      BY <2>2, <2>3, <2>4, <3>1, FlatLists
    <3> QED
      BY <3>1, <3>2
  <2>6. /\ Len(TheFlat[t.root]) = Cardinality(present)
        /\ {TheFlat[t.root][i] : i \in 1..Len(TheFlat[t.root])} = present
    BY <2>5, ListsCounts, Zenon
  <2> QED
    BY <2>6, FlatHoldsAll, Zenon
<1> QED
  BY <1>1, AlwaysOrdered, PTL
-----------------------------------------------------------------------------

(* The search for a key: where it ends, from each node.                    *)
Walks(k, F) ==
    F = [n \in Ref |->
            IF n = Nil THEN Nil
            ELSE IF k = Key[n] THEN n
            ELSE IF k < Key[n] THEN F[t.l[n]] ELSE F[t.r[n]]]

TheWalk(k) == CHOOSE F : Walks(k, F)

LEMMA WalkExists ==
    ASSUME NEW S \in SUBSET Node, Fixing(t, S, Nil), NEW k \in Int
    PROVE  \E F : Walks(k, F)
<1>1. PICK rank : Ranks(t, rank)
  BY RankFound
<1>2. t \in Tree /\ Nil \in Ref
  BY FixingTree DEF Ref
<1>3. PICK G : G = [n \in Node |-> [a \in Ref |-> [b \in Ref |->
                       IF k = Key[n] THEN n ELSE IF k < Key[n] THEN a ELSE b]]]
  OBVIOUS
<1>4. G \in [Node -> [Ref -> [Ref -> Ref]]]
  BY <1>3 DEF Ref
<1>5. Recurs(t, Ref, Nil, G)
  BY <1>1, <1>2, <1>4, Recursion
<1>6. PICK F \in [Ref -> Ref] :
          F = [n \in Ref |-> IF n = Nil THEN Nil ELSE G[n][F[t.l[n]]][F[t.r[n]]]]
  BY <1>5 DEF Recurs
<1>7. ASSUME NEW n \in Ref
      PROVE  F[n] = IF n = Nil THEN Nil
                    ELSE IF k = Key[n] THEN n
                    ELSE IF k < Key[n] THEN F[t.l[n]] ELSE F[t.r[n]]
  <2>1. F[n] = IF n = Nil THEN Nil ELSE G[n][F[t.l[n]]][F[t.r[n]]]
    BY <1>6, Zenon
  <2>2. CASE n # Nil
    <3>1. n \in Node /\ F[t.l[n]] \in Ref /\ F[t.r[n]] \in Ref
      BY <1>2, <1>6, <2>2 DEF Tree, Ref
    <3>2. PICK a \in Ref, b \in Ref : F[t.l[n]] = a /\ F[t.r[n]] = b
      BY <3>1
    <3>3. G[n][a][b] = IF k = Key[n] THEN n ELSE IF k < Key[n] THEN a ELSE b
      BY <1>3, <3>1
    <3> QED
      BY <2>1, <2>2, <3>2, <3>3
  <2> QED
    BY <2>1, <2>2
<1>8. F = [n \in Ref |-> F[n]]
  BY <1>6
<1>9. F = [n \in Ref |->
              IF n = Nil THEN Nil
              ELSE IF k = Key[n] THEN n
              ELSE IF k < Key[n] THEN F[t.l[n]] ELSE F[t.r[n]]]
  BY ONLY <1>7, <1>8
<1> QED
  BY <1>9 DEF Walks

(* In a tree in the order of the keys, the search for the key of a node    *)
(* ends at that node, from wherever the node is below.                     *)
LEMMA WalkEnds ==
    ASSUME NEW S \in SUBSET Node, Fixing(t, S, Nil), NEW U, Holds(t, S, U),
           Sorted(t, S, U, Key), NEW m \in S, NEW F, Walks(Key[m], F)
    PROVE  F[t.root] = m
<1>1. PICK rank : Ranks(t, rank)
  BY RankFound
<1>2. PICK d : Shape(t, S) /\ Deep(t, d)
  BY DEF Fixing
<1>3. Family(t, S, d)
  BY <1>2, Kin
<1>4. /\ t.root \in S \cup {Nil} /\ S \subseteq Ref /\ Nil \notin S
      /\ U[Nil] = {} /\ U[t.root] = S
      /\ \A n \in S : Key[n] \in Int
  BY <1>2, TreeAssumption DEF Shape, Ref, Holds
<1>5. \A n \in Ref : F[n] = IF n = Nil THEN Nil
                            ELSE IF Key[m] = Key[n] THEN n
                            ELSE IF Key[m] < Key[n] THEN F[t.l[n]] ELSE F[t.r[n]]
  BY Zenon DEF Walks
<1>6. PICK X : X = {n \in S : m \in U[n] /\ F[n] # m}
  OBVIOUS
<1>7. X = {}
  <2>1. SUFFICES ASSUME X # {} PROVE FALSE
    OBVIOUS
  <2>2. X \in SUBSET Ref /\ rank \in [Ref -> Nat]
    BY <1>1, <1>4, <1>6 DEF Ranks
  <2>3. PICK n \in X : \A i \in X : rank[n] <= rank[i]
    BY <2>1, <2>2, LeastRank
  <2>4. n \in S /\ m \in U[n] /\ F[n] # m /\ n # Nil /\ n \in Ref /\ n \in Node
    BY <1>4, <1>6, <2>3
  <2>5. ASSUME NEW c, c = t.l[n] \/ c = t.r[n], m \in U[c]
        PROVE  F[c] = m
    <3>1. c \in S
      BY <1>3, <1>4, <2>4, <2>5 DEF Family, Begets
    <3>2. rank[c] < rank[n] /\ rank[c] \in Nat /\ rank[n] \in Nat
      BY <1>1, <1>4, <2>2, <2>4, <2>5, <3>1 DEF Ranks
    <3>3. c \notin X
      BY <2>3, <3>2
    <3> QED
      BY <1>6, <2>5, <3>1, <3>3
  <2>6. m = n \/ m \in U[t.l[n]] \/ m \in U[t.r[n]]
    BY <2>4 DEF Holds
  <2>7. m # n
    BY <1>5, <2>4
  <2>8. CASE m \in U[t.l[n]]
    <3>1. Key[m] < Key[n]
      BY <2>4, <2>8 DEF Sorted
    <3>2. F[n] = F[t.l[n]]
      BY <1>4, <1>5, <2>4, <3>1
    <3> QED
      BY <2>4, <2>5, <2>8, <3>2
  <2>9. CASE m \in U[t.r[n]]
    <3>1. Key[n] < Key[m]
      BY <2>4, <2>9 DEF Sorted
    <3>2. F[n] = F[t.r[n]]
      BY <1>4, <1>5, <2>4, <3>1
    <3> QED
      BY <2>4, <2>5, <2>9, <3>2
  <2> QED
    BY <2>6, <2>7, <2>8, <2>9
<1>8. t.root \in S
  BY <1>4
<1> QED
  BY <1>4, <1>6, <1>7, <1>8

(* FindsUntilSwap, with its local definition named.                        *)
LEMMA WalkFinds ==
    ASSUME ~ swapped => (Quiet => \A n \in present : TheWalk(Key[n])[t.root] = n)
    PROVE  FindsUntilSwap
<1>1. \A k : Find(k) = TheWalk(k)[t.root]
  BY Zenon DEF Find, TheWalk, Walks
<1> QED
  BY <1>1, Zenon DEF FindsUntilSwap, FindsAll

(* What was inserted and not removed is found after every operation, until *)
(* a node with two children is removed (lc_rbt.c:78-80).                   *)
THEOREM FindsAlways == Spec => []FindsUntilSwap
<1>1. IInv /\ Ordered => FindsUntilSwap
  <2>1. SUFFICES ASSUME IInv, Ordered, ~ swapped, Quiet, NEW n \in present
                 PROVE  TheWalk(Key[n])[t.root] = n
    BY WalkFinds, Zenon
  <2>2. Fixing(t, present, Nil) /\ present \in SUBSET Node
    BY <2>1 DEF IInv, TreeAt, Quiet, TypeOK
  <2>3. PICK U : Holds(t, present, U) /\ Sorted(t, present, U, Key)
    BY <2>1 DEF Ordered
  <2>4. Key[n] \in Int
    BY <2>2, TreeAssumption
  <2>5. \E F : Walks(Key[n], F)
    BY <2>2, <2>4, WalkExists
  <2>6. Walks(Key[n], TheWalk(Key[n]))
    BY <2>5, Zenon DEF TheWalk
  <2> QED
    BY <2>2, <2>3, <2>6, WalkEnds
<1> QED
  BY <1>1, AlwaysOrdered, PTL
-----------------------------------------------------------------------------

(* The iterator.  What a node inherits from its parent, down from the root *)
(* of the tree.                                                            *)
Inherits(x, V, z, H) ==
    \E F \in [Ref -> V] : \A n \in Ref : F[n] = IF n = Nil THEN z ELSE H[n][F[x.p[n]]]

(* Such a function exists.                                                 *)
LEMMA FromRoot ==
    ASSUME NEW S \in SUBSET Node, NEW x, NEW d, Shape(x, S), Deep(x, d), NEW V, NEW z \in V,
           NEW H \in [Node -> [V -> V]]
    PROVE  Inherits(x, V, z, H)
<1>1. PICK w : w = [root |-> Nil, l |-> x.p, r |-> x.p, p |-> x.p, red |-> {}]
  OBVIOUS
<1>2. w \in Tree /\ w.l = x.p /\ w.r = x.p
  BY <1>1 DEF Shape, Tree, Ref
<1>3. PICK rank : rank = [n \in Ref |-> IF n = Nil THEN 0 ELSE d[n] + 1]
  OBVIOUS
<1>4. Ranks(w, rank)
  <2>1. rank \in [Ref -> Nat] /\ rank[Nil] = 0
    BY <1>3 DEF Deep, Ref
  <2>2. ASSUME NEW n \in Node
        PROVE  rank[x.p[n]] < rank[n]
    <3>1. n \in Ref /\ n # Nil /\ x.p[n] \in Ref /\ d[n] \in Nat
      BY TreeAssumption DEF Deep, Ref, Shape, Tree
    <3>2. rank[n] = d[n] + 1
      BY <1>3, <3>1
    <3>3. CASE x.p[n] = Nil
      BY <2>1, <3>1, <3>2, <3>3
    <3>4. CASE x.p[n] # Nil
      <4>1. rank[x.p[n]] = d[x.p[n]] + 1 /\ d[x.p[n]] \in Nat /\ d[x.p[n]] < d[n]
        BY <1>3, <3>1, <3>4 DEF Deep
      <4> QED
        BY <3>1, <3>2, <4>1
    <3> QED
      BY <3>3, <3>4
  <2> QED
    BY <1>2, <2>1, <2>2 DEF Ranks
<1>5. PICK G : G = [n \in Node |-> [a \in V |-> [b \in V |-> H[n][a]]]]
  OBVIOUS
<1>6. G \in [Node -> [V -> [V -> V]]]
  BY <1>5
<1>7. Recurs(w, V, z, G)
  BY <1>2, <1>4, <1>6, Recursion
<1>8. PICK F \in [Ref -> V] :
          F = [n \in Ref |-> IF n = Nil THEN z ELSE G[n][F[w.l[n]]][F[w.r[n]]]]
  BY <1>7 DEF Recurs
<1>9. ASSUME NEW n \in Ref
      PROVE  F[n] = IF n = Nil THEN z ELSE H[n][F[x.p[n]]]
  <2>1. F[n] = IF n = Nil THEN z ELSE G[n][F[w.l[n]]][F[w.r[n]]]
    BY <1>8, Zenon
  <2>2. CASE n # Nil
    <3>1. n \in Node /\ x.p[n] \in Ref
      BY <2>2 DEF Shape, Tree, Ref
    <3>2. PICK a \in V : F[x.p[n]] = a
      BY <1>8, <3>1
    <3>3. G[n][a][a] = H[n][a]
      BY <1>5, <3>1
    <3> QED
      BY <1>2, <2>1, <2>2, <3>2, <3>3
  <2> QED
    BY <2>1, <2>2
<1> QED
  BY <1>8, <1>9 DEF Inherits

(* The subtree of a node of a subtree is part of it.                       *)
LEMMA SubtreeWithin ==
    ASSUME NEW S \in SUBSET Node, NEW x, Fixing(x, S, Nil), NEW U, Holds(x, S, U)
    PROVE  \A k \in S : \A m \in U[k] : U[m] \subseteq U[k]
<1> SUFFICES ASSUME NEW k0 \in S, NEW m0 \in U[k0], ~ (U[m0] \subseteq U[k0])
             PROVE  FALSE
  OBVIOUS
<1>1. PICK rank : Ranks(x, rank)
  BY RankFound
<1>2. PICK X : X = {k \in S : \E m \in U[k] : ~ (U[m] \subseteq U[k])}
  OBVIOUS
<1>3. S \subseteq Ref /\ X \in SUBSET Ref /\ X # {} /\ Nil \notin S
  BY <1>2, TreeAssumption DEF Ref
<1>4. PICK k \in X : \A i \in X : rank[k] <= rank[i]
  BY <1>1, <1>3, LeastRank DEF Ranks
<1>5. PICK m \in U[k] : k \in S /\ ~ (U[m] \subseteq U[k])
  BY <1>2, <1>4
<1>6. U[k] = {k} \cup U[x.l[k]] \cup U[x.r[k]] /\ U[Nil] = {}
  BY <1>5 DEF Holds
<1>7. PICK c : (c = x.l[k] \/ c = x.r[k]) /\ m \in U[c]
  BY <1>5, <1>6
<1>8. c # Nil /\ c \in S
  <2>1. c # Nil
    BY <1>6, <1>7
  <2>2. PICK d : Shape(x, S) /\ Deep(x, d)
    BY DEF Fixing
  <2>3. Begets(x, S, d, k, c)
    BY <1>3, <1>5, <1>7, <2>1, <2>2, Kin DEF Family
  <2> QED
    BY <2>1, <2>3 DEF Begets
<1>9. rank[c] < rank[k] /\ rank[c] \in Nat /\ rank[k] \in Nat
  BY <1>1, <1>3, <1>5, <1>7, <1>8 DEF Ranks
<1>10. c \notin X
  BY <1>4, <1>9
<1>11. U[m] \subseteq U[c]
  BY <1>2, <1>7, <1>8, <1>10
<1> QED
  BY <1>5, <1>6, <1>7, <1>11

(* The iterator's map of a tree: F and U give the sequence and the set of  *)
(* each subtree, u the node that comes after a subtree, if there is one,   *)
(* and A all that comes after it.  A node after whose left subtree the     *)
(* iterator must come back is one that has n there.                        *)
Around(S, U, F, u, A, n) ==
    /\ t.l[n] # Nil => t.l[n] \in S /\ u[t.l[n]] = n
    /\ t.r[n] # Nil => t.r[n] \in S /\ u[t.r[n]] = u[n] /\ A[t.r[n]] = A[n]
    /\ u[n] = Nil => A[n] = <<>> /\ \A a \in S : n \notin U[t.l[a]]
    /\ u[n] # Nil =>
          /\ u[n] \in S /\ n \in U[t.l[u[n]]]
          /\ A[n] = <<u[n]>> \o F[t.r[u[n]]] \o A[u[n]]
          /\ \A a \in S : n \in U[t.l[a]] <=> (a = u[n] \/ u[n] \in U[t.l[a]])

Guides(S, U, F, u, A) ==
    /\ Holds(t, S, U) /\ Flat(F)
    /\ \A n \in S \cup {Nil} : Lists(F[n], U[n])
    /\ u \in [Ref -> Ref] /\ A \in [Ref -> Seq(Node)]
    /\ u[t.root] = Nil /\ A[t.root] = <<>>
    /\ \A n \in S : Around(S, U, F, u, A, n)

(* Every good tree has such a map.                                         *)
LEMMA GuidesExist ==
    ASSUME NEW S \in SUBSET Node, Fixing(t, S, Nil), NEW U, Holds(t, S, U)
    PROVE  \E F, u, A : Guides(S, U, F, u, A)
<1>1. PICK d : Shape(t, S) /\ Deep(t, d)
  BY DEF Fixing
<1>2. Family(t, S, d)
  BY <1>1, Kin
<1>3. /\ t \in Tree /\ S \subseteq Ref /\ Nil \notin S /\ Nil \in Ref /\ Nil \notin Node
      /\ t.root \in S \cup {Nil} /\ t.p[Nil] = Nil
      /\ t.root # Nil => t.p[t.root] = Nil
      /\ \A n \in Ref : t.l[n] \in Ref /\ t.r[n] \in Ref /\ t.p[n] \in Ref
      /\ d \in [Ref -> Nat]
  BY <1>1, TreeAssumption DEF Shape, Ref, Tree, Deep
<1>4. PICK F : Flat(F)
  BY FlatExists
<1>5. \A n \in S \cup {Nil} : Lists(F[n], U[n])
  BY <1>4, FlatLists
<1>6. PICK u \in [Ref -> Ref] :
          \A n \in Ref : u[n] = IF n = Nil \/ t.p[n] = Nil THEN Nil
                                ELSE IF n = t.l[t.p[n]] THEN t.p[n] ELSE u[t.p[n]]
  <2>1. PICK H : H = [n \in Node |-> [a \in Ref |-> IF t.p[n] = Nil THEN Nil
                                    ELSE IF n = t.l[t.p[n]] THEN t.p[n] ELSE a]]
    OBVIOUS
  <2>2. H \in [Node -> [Ref -> Ref]]
    BY <1>3, <2>1 DEF Ref
  <2>3. PICK f \in [Ref -> Ref] : \A n \in Ref : f[n] = IF n = Nil THEN Nil ELSE H[n][f[t.p[n]]]
    <3>1. Inherits(t, Ref, Nil, H)
      BY <1>1, <1>3, <2>2, FromRoot
    <3> QED
      BY <3>1 DEF Inherits
  <2>4. ASSUME NEW n \in Ref
        PROVE  f[n] = IF n = Nil \/ t.p[n] = Nil THEN Nil
                      ELSE IF n = t.l[t.p[n]] THEN t.p[n] ELSE f[t.p[n]]
    <3>1. n # Nil => n \in Node
      BY DEF Ref
    <3>2. PICK a \in Ref : f[t.p[n]] = a
      BY <1>3
    <3>3. n # Nil => H[n][a] = IF t.p[n] = Nil THEN Nil
                               ELSE IF n = t.l[t.p[n]] THEN t.p[n] ELSE a
      BY <2>1, <3>1
    <3> QED
      BY <2>3, <3>2, <3>3
  <2> QED
    BY <2>4
<1>7. \A n \in S \cup {Nil} : F[n] \in Seq(Node)
  BY <1>5 DEF Lists
<1>8. \A n \in S : /\ t.l[n] \in S \cup {Nil} /\ t.r[n] \in S \cup {Nil} /\ t.p[n] \in S \cup {Nil}
  BY <1>2, <1>3 DEF Family, Begets, Kindred
<1>9. PICK A \in [Ref -> Seq(Node)] :
          /\ A[Nil] = <<>>
          /\ \A n \in S : A[n] = IF t.p[n] = Nil THEN <<>>
                                 ELSE IF n = t.l[t.p[n]]
                                 THEN <<t.p[n]>> \o F[t.r[t.p[n]]] \o A[t.p[n]] ELSE A[t.p[n]]
  <2>1. PICK V, z : Seq(Node) = V /\ <<>> = z
    OBVIOUS
  <2>2. PICK H : H = [n \in Node |-> [a \in V |-> IF n \notin S \/ t.p[n] = Nil THEN z
                                    ELSE IF n = t.l[t.p[n]]
                                    THEN <<t.p[n]>> \o F[t.r[t.p[n]]] \o a ELSE a]]
    OBVIOUS
  <2>3. ASSUME NEW n \in S, NEW a \in V, t.p[n] # Nil
        PROVE  <<t.p[n]>> \o F[t.r[t.p[n]]] \o a \in V
    <3>1. PICK p \in Node, b \in Seq(Node) : t.p[n] = p /\ F[t.r[t.p[n]]] = b
      BY <1>7, <1>8, <2>3
    <3>2. <<p>> \o b \o a \in Seq(Node)
      BY <2>1
    <3> QED
      BY <2>1, <3>1, <3>2
  <2>9. z \in V
    <3>1. <<>> \in Seq(Node)
      OBVIOUS
    <3> QED
      BY ONLY <2>1, <3>1
  <2>4. H \in [Node -> [V -> V]]
    BY <2>2, <2>3, <2>9
  <2>6. PICK f \in [Ref -> V] : \A n \in Ref : f[n] = IF n = Nil THEN z ELSE H[n][f[t.p[n]]]
    <3>1. Inherits(t, V, z, H)
      BY <1>1, <2>4, <2>9, FromRoot
    <3> QED
      BY <3>1 DEF Inherits
  <2>7. ASSUME NEW n \in S
        PROVE  f[n] = IF t.p[n] = Nil THEN <<>>
                      ELSE IF n = t.l[t.p[n]]
                      THEN <<t.p[n]>> \o F[t.r[t.p[n]]] \o f[t.p[n]] ELSE f[t.p[n]]
    <3>1. n \in Node /\ n \in Ref /\ n # Nil /\ t.p[n] \in Ref
      BY <1>3
    <3>2. PICK a \in V : f[t.p[n]] = a
      BY <3>1
    <3>3. H[n][a] = IF t.p[n] = Nil THEN z
                    ELSE IF n = t.l[t.p[n]] THEN <<t.p[n]>> \o F[t.r[t.p[n]]] \o a ELSE a
      BY <2>2, <3>1
    <3> QED
      BY <2>1, <2>6, <3>1, <3>2, <3>3
  <2>8. f \in [Ref -> Seq(Node)]
    BY <2>1
  <2>10. f[Nil] = <<>>
    BY <1>3, <2>1, <2>6
  <2> QED
    BY <2>7, <2>8, <2>10
<1>10. u[t.root] = Nil /\ A[t.root] = <<>>
  <2>1. u[t.root] = Nil
    BY <1>3, <1>6
  <2>2. t.root # Nil => A[t.root] = <<>>
    BY <1>3, <1>9
  <2> QED
    BY <1>9, <2>1, <2>2
<1>11. ASSUME NEW n \in S, t.l[n] # Nil
       PROVE  /\ t.l[n] \in S /\ t.p[t.l[n]] = n /\ u[t.l[n]] = n
              /\ A[t.l[n]] = <<n>> \o F[t.r[n]] \o A[n]
  <2>1. PICK c : t.l[n] = c
    OBVIOUS
  <2>2. c \in S /\ t.p[c] = n /\ n # Nil /\ c # Nil
    BY <1>2, <1>3, <1>11, <2>1 DEF Family, Begets
  <2>3. u[c] = n
    BY <1>3, <1>6, <2>1, <2>2
  <2>4. A[c] = <<n>> \o F[t.r[n]] \o A[n]
    <3>1. A[c] = IF t.p[c] = Nil THEN <<>>
                 ELSE IF c = t.l[t.p[c]]
                 THEN <<t.p[c]>> \o F[t.r[t.p[c]]] \o A[t.p[c]] ELSE A[t.p[c]]
      BY <1>9, <2>2
    <3>2. t.p[c] # Nil /\ c = t.l[t.p[c]]
      BY <2>1, <2>2
    <3>3. A[c] = <<t.p[c]>> \o F[t.r[t.p[c]]] \o A[t.p[c]]
      BY <3>1, <3>2, Zenon
    <3> QED
      BY <2>2, <3>3, Zenon
  <2> QED
    BY <2>1, <2>2, <2>3, <2>4, Zenon
<1>12. ASSUME NEW n \in S, t.r[n] # Nil
       PROVE  /\ t.r[n] \in S /\ t.p[t.r[n]] = n /\ t.l[n] # t.r[n]
              /\ u[t.r[n]] = u[n] /\ A[t.r[n]] = A[n]
  <2>1. PICK c : t.r[n] = c
    OBVIOUS
  <2>2. c \in S /\ t.p[c] = n /\ n # Nil /\ c # Nil /\ c # t.l[n]
    BY <1>2, <1>3, <1>12, <2>1 DEF Family, Begets
  <2>3. u[c] = u[n]
    BY <1>3, <1>6, <2>2
  <2>4. A[c] = A[n]
    BY <1>9, <2>2
  <2> QED
    BY <2>1, <2>2, <2>3, <2>4
<1>13. PICK X : X = {n \in S : ~ Around(S, U, F, u, A, n)}
  OBVIOUS
<1>14. X = {}
  <2>1. SUFFICES ASSUME X # {} PROVE FALSE
    OBVIOUS
  <2>2. PICK n \in X : \A i \in X : d[n] <= d[i]
    <3>1. X \in SUBSET Ref
      BY <1>3, <1>13
    <3> QED
      BY <1>3, <2>1, <3>1, LeastRank
  <2>3. n \in S /\ ~ Around(S, U, F, u, A, n) /\ n \in Ref /\ n # Nil
    BY <1>3, <1>13, <2>2
  <2>4. PICK p : t.p[n] = p
    OBVIOUS
  <2>5. \A a \in S : n \in U[t.l[a]] => n = t.l[a] \/ p \in U[t.l[a]]
    <3>1. ASSUME NEW a \in S, n \in U[t.l[a]]
          PROVE  n = t.l[a] \/ p \in U[t.l[a]]
      <4>1. t.l[a] \in S
        BY <1>8, <3>1 DEF Holds
      <4> QED
        BY <2>4, <3>1, <4>1, ParentWithin
    <3> QED
      BY <3>1
  <2>6. \A a \in S : U[t.l[a]] \subseteq S
    BY <1>3, <1>8 DEF Holds
  <2>7. n \in U[n]
    BY <2>3 DEF Holds
  <2>8. CASE p = Nil
    <3>1. u[n] = Nil /\ A[n] = <<>>
      BY <1>6, <1>9, <2>3, <2>4, <2>8
    <3>2. \A a \in S : n # t.l[a]
      <4>1. \A a \in S : t.l[a] # Nil => t.p[t.l[a]] = a
        BY <1>11
      <4> QED
        BY <1>3, <2>3, <2>4, <2>8, <4>1
    <3>3. \A a \in S : n \notin U[t.l[a]]
      BY <1>3, <2>5, <2>6, <2>8, <3>2
    <3> QED
      BY <1>11, <1>12, <2>3, <3>1, <3>3 DEF Around
  <2>9. CASE p # Nil
    <3>1. p \in S /\ d[p] < d[n] /\ (n = t.l[p] \/ n = t.r[p])
      BY <1>2, <1>3, <2>3, <2>4, <2>9 DEF Family, Kindred
    <3>2. Around(S, U, F, u, A, p)
      <4>1. d[p] \in Nat /\ d[n] \in Nat
        BY <1>3, <2>3, <3>1
      <4> QED
        BY <1>13, <2>2, <3>1, <4>1
    <3>3. U[n] \subseteq U[p]
      BY <3>1 DEF Holds
    <3>4. \A a \in S : p \in U[t.l[a]] => n \in U[t.l[a]]
      <4>1. ASSUME NEW a \in S, p \in U[t.l[a]]
            PROVE  n \in U[t.l[a]]
        <5>1. t.l[a] \in S
          BY <1>8, <4>1 DEF Holds
        <5>2. U[p] \subseteq U[t.l[a]]
          BY <4>1, <5>1, SubtreeWithin
        <5> QED
          BY <2>7, <3>3, <5>2
      <4> QED
        BY <4>1
    <3>5. \A a \in S : n = t.l[a] => a = p
      BY <1>3, <1>11, <2>3, <2>4
    <3>6. CASE n = t.l[p]
      <4>1. u[n] = p /\ A[n] = <<p>> \o F[t.r[p]] \o A[p]
        BY <1>11, <2>3, <3>1, <3>6
      <4>2. n \in U[t.l[p]]
        BY <2>7, <3>6
      <4>3. \A a \in S : n \in U[t.l[a]] <=> (a = p \/ p \in U[t.l[a]])
        BY <2>5, <3>4, <3>5, <4>2
      <4> QED
        BY <1>11, <1>12, <2>3, <2>9, <3>1, <4>1, <4>2, <4>3 DEF Around
    <3>7. CASE n = t.r[p]
      <4>1. u[n] = u[p] /\ A[n] = A[p] /\ n # t.l[p]
        BY <1>12, <2>3, <3>1, <3>7
      <4>2. \A a \in S : n \in U[t.l[a]] <=> p \in U[t.l[a]]
        BY <2>5, <3>4, <3>5, <4>1
      <4> QED
        BY <1>11, <1>12, <2>3, <3>2, <4>1, <4>2 DEF Around
    <3> QED
      BY <3>1, <3>6, <3>7
  <2> QED
    BY <2>8, <2>9
<1>15. Guides(S, U, F, u, A)
  BY <1>4, <1>5, <1>6, <1>9, <1>10, <1>13, <1>14 DEF Guides
<1> QED
  BY <1>15

(* A thread at m leads to the node after m, for the nodes the iterator has *)
(* left for their left subtrees, and for c as it comes back to it.         *)
Threaded(S, U, u, c, back, m) ==
    /\ m \in S /\ t.r[m] = Nil /\ u[m] # Nil
    /\ c \in U[t.l[u[m]]] \/ (back /\ u[m] = c)

(* The links of all the nodes, the threads among them.                     *)
LinksAre(S, U, u, c, back, lk) ==
    /\ lk \in [Ref -> Ref]
    /\ \A m \in Ref : lk[m] = IF Threaded(S, U, u, c, back, m) THEN u[m] ELSE Nil

(* The links that Thread follows: every one leads to a later node.         *)
Threads(L) == L = [m \in Node |-> IF right(m) \in {Nil, cur} THEN m ELSE L[right(m)]]

TheThread == CHOOSE L : Threads(L)

LEMMA LenAround ==
    ASSUME NEW q1 \in Seq(Node), NEW q2 \in Seq(Node), NEW n \in Node
    PROVE  /\ Len(q1 \o <<n>> \o q2) = Len(q1) + Len(q2) + 1
           /\ Len(<<n>> \o q1 \o q2) = Len(q1) + Len(q2) + 1
           /\ Len(q1) \in Nat /\ Len(q2) \in Nat
  OBVIOUS

(* The sequences are sequences, and the links of the nodes of the tree     *)
(* lead to nodes of the tree.                                              *)
Sides(S, F, u, A) ==
    /\ F[Nil] = <<>>
    /\ \A n \in S \cup {Nil} : F[n] \in Seq(Node) /\ Len(F[n]) \in Nat
    /\ \A n \in S : /\ A[n] \in Seq(Node) /\ Len(A[n]) \in Nat
                    /\ F[n] = F[t.l[n]] \o <<n>> \o F[t.r[n]]
                    /\ t.l[n] \in S \cup {Nil} /\ t.r[n] \in S \cup {Nil}
                    /\ u[n] \in S \cup {Nil}

LEMMA GuidesSides ==
    ASSUME NEW S \in SUBSET Node, NEW U, NEW F, NEW u, NEW A, Guides(S, U, F, u, A)
    PROVE  Sides(S, F, u, A)
<1>1. S \subseteq Ref /\ Nil \notin S /\ Nil \in Ref
  BY TreeAssumption DEF Ref
<1>2. \A n \in Ref : F[n] = IF n = Nil THEN <<>> ELSE F[t.l[n]] \o <<n>> \o F[t.r[n]]
  BY Zenon DEF Guides, Flat
<1>3. F[Nil] = <<>>
  BY <1>1, <1>2
<1>4. ASSUME NEW n \in S \cup {Nil}
      PROVE  F[n] \in Seq(Node) /\ Len(F[n]) \in Nat
  <2>1. PICK q : F[n] = q
    OBVIOUS
  <2>2. Lists(F[n], U[n])
    BY DEF Guides
  <2>3. q \in Seq(Node)
    BY <2>1, <2>2 DEF Lists
  <2> QED
    BY <2>1, <2>3
<1>5. ASSUME NEW n \in S
      PROVE  /\ A[n] \in Seq(Node) /\ Len(A[n]) \in Nat
             /\ F[n] = F[t.l[n]] \o <<n>> \o F[t.r[n]]
             /\ t.l[n] \in S \cup {Nil} /\ t.r[n] \in S \cup {Nil}
             /\ u[n] \in S \cup {Nil}
  <2>1. n \in Ref /\ n # Nil
    BY <1>1
  <2>2. PICK q : A[n] = q
    OBVIOUS
  <2>3. q \in Seq(Node)
    BY <2>1, <2>2 DEF Guides
  <2>4. A[n] \in Seq(Node) /\ Len(A[n]) \in Nat
    BY <2>2, <2>3
  <2>5. F[n] = F[t.l[n]] \o <<n>> \o F[t.r[n]]
    BY <1>2, <2>1
  <2>6. Around(S, U, F, u, A, n)
    BY DEF Guides
  <2>7. t.l[n] \in S \cup {Nil} /\ t.r[n] \in S \cup {Nil} /\ u[n] \in S \cup {Nil}
    BY <2>6 DEF Around
  <2> QED
    BY <2>4, <2>5, <2>7
<1> QED
  BY <1>3, <1>4, <1>5 DEF Sides

(* How much comes after a node.                                            *)
Lengths(S, u, lf, la) ==
    /\ lf \in [S \cup {Nil} -> Nat] /\ la \in [S -> Nat]
    /\ \A n \in S :
          /\ lf[n] = lf[t.l[n]] + lf[t.r[n]] + 1
          /\ t.r[n] # Nil => la[t.r[n]] = la[n]
          /\ u[n] # Nil => la[n] = lf[t.r[u[n]]] + la[u[n]] + 1

LEMMA LengthsExist ==
    ASSUME NEW S \in SUBSET Node, NEW U, NEW F, NEW u, NEW A, Guides(S, U, F, u, A)
    PROVE  \E lf, la : Lengths(S, u, lf, la)
<1>1. Sides(S, F, u, A) /\ \A n \in S : Around(S, U, F, u, A, n)
  BY GuidesSides DEF Guides
<1>2. /\ \A n \in S \cup {Nil} : F[n] \in Seq(Node) /\ Len(F[n]) \in Nat
      /\ \A n \in S : A[n] \in Seq(Node) /\ Len(A[n]) \in Nat
      /\ \A n \in S : t.l[n] \in S \cup {Nil} /\ t.r[n] \in S \cup {Nil}
      /\ \A n \in S : u[n] \in S \cup {Nil}
  BY <1>1 DEF Sides
<1>3. PICK lf, la : lf = [n \in S \cup {Nil} |-> Len(F[n])] /\ la = [n \in S |-> Len(A[n])]
  OBVIOUS
<1>4. /\ lf \in [S \cup {Nil} -> Nat] /\ la \in [S -> Nat]
      /\ \A n \in S \cup {Nil} : lf[n] = Len(F[n])
      /\ \A n \in S : la[n] = Len(A[n])
  BY <1>2, <1>3
<1>5. ASSUME NEW n \in S
      PROVE  lf[n] = lf[t.l[n]] + lf[t.r[n]] + 1
  <2>1. PICK q1 \in Seq(Node), q2 \in Seq(Node) : F[t.l[n]] = q1 /\ F[t.r[n]] = q2
    BY <1>2
  <2>2. F[n] = q1 \o <<n>> \o q2
    BY <1>1, <2>1 DEF Sides
  <2>3. Len(F[n]) = Len(q1) + Len(q2) + 1
    BY <2>2, LenAround
  <2>4. lf[n] = Len(F[n]) /\ lf[t.l[n]] = Len(q1) /\ lf[t.r[n]] = Len(q2)
    BY <1>2, <1>4, <2>1
  <2> QED
    BY ONLY <2>3, <2>4
<1>6. ASSUME NEW n \in S, t.r[n] # Nil
      PROVE  la[t.r[n]] = la[n]
  <2>1. Around(S, U, F, u, A, n)
    BY <1>1
  <2>2. t.r[n] \in S /\ A[t.r[n]] = A[n]
    BY <1>6, <2>1 DEF Around
  <2>3. PICK b \in S : t.r[n] = b
    BY <2>2
  <2>4. PICK q : A[b] = q
    OBVIOUS
  <2>5. la[b] = Len(q)
    BY <1>4, <2>4
  <2>6. A[n] = q
    BY <2>2, <2>3, <2>4
  <2>7. la[n] = Len(q)
    BY <1>4, <2>6
  <2> QED
    BY <2>3, <2>5, <2>7
<1>7. ASSUME NEW n \in S, u[n] # Nil
      PROVE  la[n] = lf[t.r[u[n]]] + la[u[n]] + 1
  <2>1. PICK a \in S : u[n] = a
    BY <1>2, <1>7
  <2>2. PICK q1 \in Seq(Node), q2 \in Seq(Node) : F[t.r[a]] = q1 /\ A[a] = q2
    BY <1>2
  <2>3. Around(S, U, F, u, A, n)
    BY <1>1
  <2>4. A[n] = <<a>> \o q1 \o q2
    BY <1>7, <2>1, <2>2, <2>3 DEF Around
  <2>5. Len(A[n]) = Len(q1) + Len(q2) + 1
    BY <2>4, LenAround
  <2>6. la[n] = Len(A[n]) /\ lf[t.r[a]] = Len(q1) /\ la[a] = Len(q2)
    BY <1>2, <1>4, <2>2
  <2> QED
    BY ONLY <2>1, <2>5, <2>6
<1> QED
  BY <1>4, <1>5, <1>6, <1>7 DEF Lengths

(* The search for a thread's node ends, at any place of the iterator.      *)
LEMMA ThreadsExist ==
    ASSUME NEW S \in SUBSET Node, NEW d, Shape(t, S), Deep(t, d), NEW U, NEW F, NEW u, NEW A,
           Guides(S, U, F, u, A), NEW back, LinksAre(S, U, u, cur, back, link)
    PROVE  \E L : Threads(L)
<1>1. /\ t \in Tree /\ S \subseteq Ref /\ Nil \notin S /\ Nil \in Ref /\ Nil \notin Node
      /\ Node \subseteq Ref /\ link \in [Ref -> Ref]
      /\ \A n \in Ref : t.l[n] \in Ref /\ t.r[n] \in Ref
      /\ \A n \in Node \ S : t.r[n] = Nil
  BY TreeAssumption DEF Shape, Ref, Tree, LinksAre
<1>2. PICK rt : rt = [m \in Ref |-> IF m = Nil THEN Nil ELSE right(m)]
  OBVIOUS
<1>3. rt \in [Ref -> Ref] /\ rt[Nil] = Nil /\ \A m \in Node : rt[m] = right(m) /\ right(m) \in Ref
  BY <1>1, <1>2 DEF right
<1>4. PICK w : w = [root |-> Nil, l |-> rt, r |-> rt, p |-> rt, red |-> {}]
  OBVIOUS
<1>5. w \in Tree /\ w.l = rt /\ w.r = rt
  BY <1>1, <1>3, <1>4 DEF Tree
<1>6. PICK lf, la : Lengths(S, u, lf, la)
  BY LengthsExist
<1>7. PICK rank : rank = [m \in Ref |-> IF m = Nil THEN 0
                                        ELSE IF m \in S THEN lf[t.r[m]] + la[m] + 1 ELSE 1]
  OBVIOUS
<1>8. \A n \in S : t.l[n] \in S \cup {Nil} /\ t.r[n] \in S \cup {Nil} /\ u[n] \in S \cup {Nil}
  BY GuidesSides DEF Sides
<1>9. /\ rank \in [Ref -> Nat] /\ rank[Nil] = 0
      /\ \A n \in S : rank[n] = lf[t.r[n]] + la[n] + 1
      /\ \A n \in Node \ S : rank[n] = 1
  <2>1. \A n \in S : lf[t.r[n]] + la[n] + 1 \in Nat
    BY <1>6, <1>8 DEF Lengths
  <2> QED
    BY <1>1, <1>7, <2>1
<1>10. ASSUME NEW n \in Node
       PROVE  rank[rt[n]] < rank[n]
  <2>1. CASE n \notin S
    <3>1. right(n) = Nil
      BY <1>1, <2>1 DEF LinksAre, Threaded, right
    <3> QED
      BY <1>3, <1>9, <2>1, <3>1
  <2>2. CASE n \in S /\ t.r[n] # Nil
    <3>1. PICK b : t.r[n] = b
      OBVIOUS
    <3>2. rt[n] = b /\ b \in S
      BY <1>3, <1>8, <2>2, <3>1 DEF right
    <3>3. /\ lf[b] = lf[t.l[b]] + lf[t.r[b]] + 1 /\ la[b] = la[n]
          /\ lf[t.l[b]] \in Nat /\ lf[t.r[b]] \in Nat /\ la[n] \in Nat
      BY <1>6, <1>8, <2>2, <3>1, <3>2 DEF Lengths
    <3>4. rank[n] = lf[b] + la[n] + 1 /\ rank[b] = lf[t.r[b]] + la[b] + 1
      BY <1>9, <2>2, <3>1, <3>2
    <3> QED
      BY <3>2, <3>3, <3>4
  <2>3. CASE n \in S /\ t.r[n] = Nil
    <3>1. rt[n] = link[n]
      BY <1>3, <2>3 DEF right
    <3>2. rank[n] = lf[t.r[n]] + la[n] + 1 /\ lf[t.r[n]] \in Nat /\ la[n] \in Nat
      BY <1>6, <1>8, <1>9, <2>3 DEF Lengths
    <3>3. CASE link[n] = Nil
      BY <1>9, <3>1, <3>2, <3>3
    <3>4. CASE link[n] # Nil
      <4>1. PICK a : u[n] = a
        OBVIOUS
      <4>2. link[n] = a /\ a # Nil
        <5>1. n \in Ref
          BY <1>1
        <5> QED
          BY <3>4, <4>1, <5>1 DEF LinksAre
      <4>3. a \in S
        BY <1>8, <2>3, <4>1, <4>2
      <4>4. /\ la[n] = lf[t.r[a]] + la[a] + 1
            /\ lf[t.r[a]] \in Nat /\ la[a] \in Nat
        BY <1>6, <1>8, <2>3, <4>1, <4>2, <4>3 DEF Lengths
      <4>5. rank[a] = lf[t.r[a]] + la[a] + 1
        BY <1>9, <4>3
      <4> QED
        BY <3>1, <3>2, <4>2, <4>4, <4>5
    <3> QED
      BY <3>3, <3>4
  <2> QED
    BY <2>1, <2>2, <2>3
<1>11. Ranks(w, rank)
  BY <1>5, <1>9, <1>10 DEF Ranks
<1>12. PICK G : G = [n \in Node |-> [a \in Ref |-> [b \in Ref |->
                        IF right(n) \in {Nil, cur} THEN n ELSE a]]]
  OBVIOUS
<1>13. G \in [Node -> [Ref -> [Ref -> Ref]]]
  BY <1>1, <1>12
<1>14. Recurs(w, Ref, Nil, G)
  BY <1>1, <1>5, <1>11, <1>13, Recursion
<1>15. PICK f \in [Ref -> Ref] :
           f = [n \in Ref |-> IF n = Nil THEN Nil ELSE G[n][f[w.l[n]]][f[w.r[n]]]]
  BY <1>14 DEF Recurs
<1>16. ASSUME NEW n \in Node
       PROVE  f[n] = IF right(n) \in {Nil, cur} THEN n ELSE f[right(n)]
  <2>1. f[n] = IF n = Nil THEN Nil ELSE G[n][f[w.l[n]]][f[w.r[n]]]
    BY <1>1, <1>15, Zenon
  <2>2. right(n) \in Ref
    BY <1>1, <1>3
  <2>3. PICK a \in Ref : f[right(n)] = a
    BY <1>15, <2>2
  <2>4. G[n][a][a] = IF right(n) \in {Nil, cur} THEN n ELSE a
    BY <1>12
  <2> QED
    BY <1>1, <1>3, <1>5, <2>1, <2>3, <2>4
<1>17. PICK L : L = [n \in Node |-> f[n]]
  OBVIOUS
<1>18. ASSUME NEW n \in Node
       PROVE  L[n] = IF right(n) \in {Nil, cur} THEN n ELSE L[right(n)]
  <2>1. right(n) # Nil => right(n) \in Node
    BY <1>3 DEF Ref
  <2> QED
    BY <1>16, <1>17, <2>1
<1>19. L = [n \in Node |-> L[n]]
  BY <1>17
<1>20. L = [n \in Node |-> IF right(n) \in {Nil, cur} THEN n ELSE L[right(n)]]
  BY ONLY <1>18, <1>19
<1> QED
  BY <1>20 DEF Threads

(* Thread, with its local definition named.                                *)
LEMMA ThreadUnfolds == Thread = TheThread[t.l[cur]]
  BY Zenon DEF Thread, TheThread, Threads

(* Under the left child of cur there is one node without a right child     *)
(* that cur comes after, and Thread finds it.                              *)
Ends(S, u, c, m) ==
    /\ m \in S /\ t.r[m] = Nil /\ u[m] = c
    /\ \A k \in S : t.r[k] = Nil /\ u[k] = c => k = m

LEMMA ThreadEnds ==
    ASSUME NEW S \in SUBSET Node, Fixing(t, S, Nil), NEW U, NEW F, NEW u, NEW A,
           Guides(S, U, F, u, A), NEW back \in BOOLEAN, LinksAre(S, U, u, cur, back, link),
           cur \in S, t.l[cur] # Nil
    PROVE  Ends(S, u, cur, Thread)
<1>1. PICK d : Shape(t, S) /\ Deep(t, d)
  BY DEF Fixing
<1>2. Family(t, S, d)
  BY <1>1, Kin
<1>3. PICK rank : Ranks(t, rank)
  BY RankFound
<1>4. PICK L : TheThread = L
  OBVIOUS
<1>5. Threads(L)
  <2>1. \E M : Threads(M)
    BY <1>1, ThreadsExist
  <2> QED
    BY <1>4, <2>1, Zenon DEF TheThread
<1>6. \A n \in Node : L[n] = IF right(n) \in {Nil, cur} THEN n ELSE L[right(n)]
  BY <1>5, Zenon DEF Threads
<1>7. PICK b \in S : t.l[cur] = b
  <2>1. cur \in Ref
    BY DEF Ref
  <2> QED
    BY <1>2, <2>1 DEF Family, Begets
<1>8. Thread = L[b]
  BY <1>4, <1>7, ThreadUnfolds
<1>9. /\ \A n \in S : Around(S, U, F, u, A, n)
      /\ Holds(t, S, U) /\ u[t.root] = Nil
  BY DEF Guides
<1>10. S \subseteq Ref /\ Nil \notin S /\ cur # Nil
  BY TreeAssumption DEF Ref
<1>11. \A n \in S : u[n] = cur => n \in U[b]
  BY <1>7, <1>9, <1>10 DEF Around
<1>12. cur \notin U[b] /\ u[b] = cur
  BY <1>7, <1>9 DEF Holds, Around
<1>13. ASSUME NEW n \in S, u[n] = cur, t.r[n] # Nil
       PROVE  t.r[n] \in S /\ u[t.r[n]] = cur /\ L[n] = L[t.r[n]]
  <2>1. t.r[n] \in S /\ u[t.r[n]] = cur
    BY <1>9, <1>13 DEF Around
  <2>2. right(n) = t.r[n] /\ t.r[n] # cur
    BY <1>11, <1>12, <1>13, <2>1 DEF right
  <2> QED
    BY <1>6, <1>13, <2>1, <2>2
<1>14. ASSUME NEW n \in S, u[n] = cur, t.r[n] = Nil
       PROVE  L[n] = n
  <2>1. right(n) = link[n] /\ n \in Ref
    BY <1>10, <1>14 DEF right
  <2>2. link[n] \in {Nil, u[n]}
    BY <2>1 DEF LinksAre
  <2> QED
    BY <1>6, <1>14, <2>1, <2>2
<1>15. ASSUME NEW n0 \in S, u[n0] = cur
       PROVE  L[n0] = L[b]
  <2>1. SUFFICES ASSUME L[n0] # L[b] PROVE FALSE
    OBVIOUS
  <2>2. PICK X : X = {n \in S : u[n] = cur /\ L[n] # L[b]}
    OBVIOUS
  <2>3. X \in SUBSET Ref /\ X # {} /\ d \in [Ref -> Nat]
    BY <1>1, <1>10, <1>15, <2>1, <2>2 DEF Deep
  <2>4. PICK n \in X : \A m \in X : d[n] <= d[m]
    BY <2>3, LeastRank
  <2>5. n \in S /\ u[n] = cur /\ L[n] # L[b]
    BY <2>2, <2>4
  <2>6. PICK p : t.p[n] = p
    OBVIOUS
  <2>7. p # Nil
    BY <1>1, <1>9, <1>10, <2>5, <2>6 DEF Shape
  <2>8. p \in S /\ d[p] < d[n] /\ d[p] \in Nat /\ d[n] \in Nat /\ (n = t.l[p] \/ n = t.r[p])
    BY <1>2, <1>10, <2>5, <2>6, <2>7 DEF Family, Kindred
  <2>9. CASE n = t.l[p]
    <3>1. u[n] = p
      BY <1>9, <1>10, <2>5, <2>8, <2>9 DEF Around
    <3> QED
      BY <1>7, <2>5, <2>9, <3>1
  <2>10. CASE n = t.r[p]
    <3>1. u[p] = cur
      BY <1>9, <1>10, <2>5, <2>8, <2>10 DEF Around
    <3>2. L[p] = L[n]
      BY <1>10, <1>13, <2>5, <2>8, <2>10, <3>1
    <3>3. p \notin X
      BY <2>4, <2>8
    <3> QED
      BY <2>2, <2>5, <2>8, <3>1, <3>2, <3>3
  <2> QED
    BY <2>8, <2>9, <2>10
<1>16. L[b] \in S /\ t.r[L[b]] = Nil /\ u[L[b]] = cur
  <2>1. SUFFICES ASSUME ~ (L[b] \in S /\ t.r[L[b]] = Nil /\ u[L[b]] = cur) PROVE FALSE
    OBVIOUS
  <2>2. PICK X : X = {n \in S : u[n] = cur}
    OBVIOUS
  <2>3. X \in SUBSET Ref /\ X # {} /\ rank \in [Ref -> Nat]
    BY <1>3, <1>7, <1>10, <1>12, <2>2 DEF Ranks
  <2>4. PICK n \in X : \A m \in X : rank[n] <= rank[m]
    BY <2>3, LeastRank
  <2>5. n \in S /\ u[n] = cur
    BY <2>2, <2>4
  <2>6. L[n] = L[b]
    BY <1>15, <2>5
  <2>7. t.r[n] # Nil
    BY <1>14, <2>1, <2>5, <2>6
  <2>8. t.r[n] \in X
    BY <1>13, <2>2, <2>5, <2>7
  <2>9. rank[t.r[n]] < rank[n] /\ rank[t.r[n]] \in Nat /\ rank[n] \in Nat
    BY <1>3, <2>3, <2>4, <2>5, <2>8 DEF Ranks
  <2> QED
    BY <2>4, <2>8, <2>9
<1>17. \A k \in S : t.r[k] = Nil /\ u[k] = cur => k = L[b]
  BY <1>14, <1>15
<1> QED
  BY <1>8, <1>16, <1>17 DEF Ends

(* Concatenation.                                                          *)
LEMMA Associates ==
    ASSUME NEW a \in Seq(Node), NEW b \in Seq(Node), NEW c \in Seq(Node)
    PROVE  a \o (b \o c) = (a \o b) \o c
<1>1. PICK x : x = a \o (b \o c)
  OBVIOUS
<1>2. PICK y : y = (a \o b) \o c
  OBVIOUS
<1>3. Len(a) \in Nat /\ Len(b) \in Nat /\ Len(c) \in Nat
  OBVIOUS
<1>4. x \in Seq(Node) /\ y \in Seq(Node)
  BY <1>1, <1>2
<1>5. Len(x) = Len(a) + Len(b) + Len(c) /\ Len(y) = Len(a) + Len(b) + Len(c)
  BY <1>1, <1>2, <1>3
<1>6. ASSUME NEW i \in 1..Len(x)
      PROVE  x[i] = y[i]
  <2>1. CASE i <= Len(a)
    BY <1>1, <1>2, <1>3, <1>5, <2>1
  <2>2. CASE i > Len(a) /\ i <= Len(a) + Len(b)
    BY <1>1, <1>2, <1>3, <1>5, <2>2
  <2>3. CASE i > Len(a) + Len(b)
    BY <1>1, <1>2, <1>3, <1>5, <2>3
  <2> QED
    BY <1>3, <1>5, <2>1, <2>2, <2>3
<1> QED
  BY <1>1, <1>2, <1>4, <1>5, <1>6

(* The same under a name, to be cited of sequences that are concatenations. *)
Regroups(a, b, c) == a \o (b \o c) = (a \o b) \o c

LEMMA AllRegroup ==
    ASSUME NEW a \in Seq(Node), NEW b \in Seq(Node), NEW c \in Seq(Node)
    PROVE  Regroups(a, b, c)
  BY Associates, Zenon DEF Regroups

LEMMA EmptyJoins ==
    ASSUME NEW a \in Seq(Node)
    PROVE  a \o <<>> = a /\ <<>> \o a = a
  OBVIOUS

(* Where the iterator stands: at its end; at a node it comes to from       *)
(* above; back at a node by a thread; or past a node it has just returned. *)
Ended(F, c, q, lk) == c = Nil /\ q = F[t.root] /\ lk = AllNil

Fresh(S, U, F, u, A, c, q, lk) ==
    /\ c \in S /\ q \in Seq(Node) /\ LinksAre(S, U, u, c, FALSE, lk)
    /\ q \o (F[c] \o A[c]) = F[t.root]

Returned(S, U, F, u, A, c, q, lk) ==
    /\ c \in S /\ q \in Seq(Node) /\ LinksAre(S, U, u, c, TRUE, lk)
    /\ t.l[c] # Nil
    /\ q \o (<<c>> \o (F[t.r[c]] \o A[c])) = F[t.root]

Past(S, U, F, u, A, c, q, lk) ==
    /\ c \in S /\ q \in Seq(Node) /\ LinksAre(S, U, u, c, FALSE, lk)
    /\ q \o (F[t.r[c]] \o A[c]) = F[t.root]

At(S, U, F, u, A, c, q, lk) ==
    \/ Ended(F, c, q, lk)
    \/ Fresh(S, U, F, u, A, c, q, lk)
    \/ Returned(S, U, F, u, A, c, q, lk)

(* From a node that was returned the iterator goes to the right child or,  *)
(* by the thread, to the node that comes after.                            *)
LEMMA MovesOn ==
    ASSUME NEW S \in SUBSET Node, NEW U, NEW F, NEW u, NEW A, Guides(S, U, F, u, A),
           NEW c, NEW q, NEW lk, Past(S, U, F, u, A, c, q, lk),
           NEW b, b = IF t.r[c] # Nil THEN t.r[c] ELSE lk[c]
    PROVE  At(S, U, F, u, A, b, q, lk)
<1>1. /\ c \in S /\ q \in Seq(Node) /\ LinksAre(S, U, u, c, FALSE, lk)
      /\ q \o (F[t.r[c]] \o A[c]) = F[t.root]
  BY DEF Past
<1>2. /\ \A n \in S : Around(S, U, F, u, A, n)
      /\ Holds(t, S, U)
  BY DEF Guides
<1>3. Around(S, U, F, u, A, c)
  BY <1>1, <1>2
<1>4. Sides(S, F, u, A)
  BY GuidesSides
<1>5. S \subseteq Ref /\ Nil \notin S /\ c \in Ref
  BY <1>1, TreeAssumption DEF Ref
<1>6. \A m \in S : u[m] # Nil => u[m] \in S
  BY <1>4 DEF Sides
<1>7. CASE t.r[c] # Nil
  <2>1. b \in S /\ u[b] = u[c] /\ A[b] = A[c] /\ b = t.r[c]
    BY <1>3, <1>7 DEF Around
  <2>2. Around(S, U, F, u, A, b)
    BY <1>2, <2>1
  <2>3. \A a \in S : c \in U[t.l[a]] <=> b \in U[t.l[a]]
    <3>1. CASE u[c] = Nil
      BY <1>3, <2>1, <2>2, <3>1 DEF Around
    <3>2. CASE u[c] # Nil
      <4>1. \A a \in S : c \in U[t.l[a]] <=> (a = u[c] \/ u[c] \in U[t.l[a]])
        BY <1>3, <3>2 DEF Around
      <4>2. \A a \in S : b \in U[t.l[a]] <=> (a = u[b] \/ u[b] \in U[t.l[a]])
        BY <2>1, <2>2, <3>2 DEF Around
      <4> QED
        BY <2>1, <4>1, <4>2
    <3> QED
      BY <3>1, <3>2
  <2>4. LinksAre(S, U, u, b, FALSE, lk)
    <3>1. \A m : Threaded(S, U, u, c, FALSE, m) <=> Threaded(S, U, u, b, FALSE, m)
      BY <1>6, <2>3 DEF Threaded
    <3> QED
      BY <1>1, <3>1 DEF LinksAre
  <2>5. q \o (F[b] \o A[b]) = F[t.root]
    BY <1>1, <2>1
  <2> QED
    BY <1>1, <2>1, <2>4, <2>5 DEF At, Fresh
<1>8. CASE t.r[c] = Nil /\ u[c] = Nil
  <2>1. A[c] = <<>> /\ \A a \in S : c \notin U[t.l[a]]
    BY <1>3, <1>8 DEF Around
  <2>2. \A m : ~ Threaded(S, U, u, c, FALSE, m)
    BY <1>6, <2>1 DEF Threaded
  <2>3. lk = AllNil
    BY <1>1, <2>2 DEF LinksAre, AllNil
  <2>4. b = Nil
    BY <1>5, <1>8, <2>3 DEF AllNil
  <2>5. q = F[t.root]
    <3>1. F[t.r[c]] = <<>>
      BY <1>4, <1>8 DEF Sides
    <3>2. <<>> \o <<>> = <<>> /\ q \o <<>> = q
      BY <1>1
    <3> QED
      BY <1>1, <2>1, <3>1, <3>2
  <2> QED
    BY <2>3, <2>4, <2>5 DEF At, Ended
<1>9. CASE t.r[c] = Nil /\ u[c] # Nil
  <2>1. PICK a \in S : u[c] = a
    BY <1>1, <1>6, <1>9
  <2>2. /\ c \in U[t.l[a]] /\ A[c] = <<a>> \o F[t.r[a]] \o A[a]
        /\ \A k \in S : c \in U[t.l[k]] <=> (k = a \/ a \in U[t.l[k]])
    BY <1>3, <1>9, <2>1 DEF Around
  <2>3. Threaded(S, U, u, c, FALSE, c)
    BY <1>1, <1>9, <2>1, <2>2 DEF Threaded
  <2>4. b = a
    BY <1>1, <1>5, <1>9, <2>1, <2>3 DEF LinksAre
  <2>5. t.l[a] # Nil
    BY <1>2, <2>2 DEF Holds
  <2>6. LinksAre(S, U, u, a, TRUE, lk)
    <3>1. \A m : Threaded(S, U, u, c, FALSE, m) <=> Threaded(S, U, u, a, TRUE, m)
      BY <1>6, <2>2 DEF Threaded
    <3> QED
      BY <1>1, <3>1 DEF LinksAre
  <2>7. q \o (<<a>> \o (F[t.r[a]] \o A[a])) = F[t.root]
    <3>1. F[t.r[c]] = <<>>
      BY <1>4, <1>9 DEF Sides
    <3>2. PICK f \in Seq(Node), g \in Seq(Node) : F[t.r[a]] = f /\ A[a] = g
      BY <1>4 DEF Sides
    <3>3. A[c] = <<a>> \o (f \o g)
      <4>1. <<a>> \in Seq(Node)
        OBVIOUS
      <4> QED
        BY <2>2, <3>2, <4>1, Associates
    <3>4. <<>> \o A[c] = A[c]
      BY <1>1, <1>4, EmptyJoins DEF Sides
    <3> QED
      BY <1>1, <3>1, <3>2, <3>3, <3>4
  <2> QED
    BY <1>1, <2>1, <2>4, <2>5, <2>6, <2>7 DEF At, Returned
<1> QED
  BY <1>7, <1>8, <1>9

(* A node without a left child is returned at once.                        *)
LEMMA LeafPasses ==
    ASSUME NEW S \in SUBSET Node, NEW U, NEW F, NEW u, NEW A, Guides(S, U, F, u, A),
           NEW c, NEW q, NEW lk, At(S, U, F, u, A, c, q, lk), c # Nil, t.l[c] = Nil
    PROVE  Past(S, U, F, u, A, c, Append(q, c), lk)
<1>1. /\ c \in S /\ q \in Seq(Node) /\ LinksAre(S, U, u, c, FALSE, lk)
      /\ q \o (F[c] \o A[c]) = F[t.root]
  BY DEF At, Ended, Fresh, Returned
<1>2. PICK f \in Seq(Node), g \in Seq(Node) : F[t.r[c]] = f /\ A[c] = g
  <2>1. Sides(S, F, u, A)
    BY GuidesSides
  <2>2. t.r[c] \in S \cup {Nil} /\ A[c] \in Seq(Node)
    BY <1>1, <2>1 DEF Sides
  <2>3. F[t.r[c]] \in Seq(Node)
    BY <2>1, <2>2 DEF Sides
  <2> QED
    BY <2>2, <2>3
<1>3. F[c] = <<>> \o <<c>> \o f
  <2>1. Sides(S, F, u, A)
    BY GuidesSides
  <2>2. F[t.l[c]] = <<>> /\ F[c] = F[t.l[c]] \o <<c>> \o F[t.r[c]]
    BY <1>1, <2>1 DEF Sides
  <2> QED
    BY <1>2, <2>2
<1>4. <<c>> \in Seq(Node) /\ <<>> \o <<c>> = <<c>> /\ f \o g \in Seq(Node)
  BY <1>1
<1>5. F[c] \o A[c] = <<c>> \o (f \o g)
  BY <1>2, <1>3, <1>4, Associates
<1>6. q \o (<<c>> \o (f \o g)) = (q \o <<c>>) \o (f \o g)
  BY <1>1, <1>4, Associates
<1>7. q \o <<c>> = Append(q, c) /\ Append(q, c) \in Seq(Node)
  BY <1>1
<1> QED
  BY <1>1, <1>2, <1>5, <1>6, <1>7 DEF Past

(* A node that is met again is returned, and its thread is taken away.     *)
LEMMA BackPasses ==
    ASSUME NEW S \in SUBSET Node, NEW U, NEW F, NEW u, NEW A, Guides(S, U, F, u, A),
           NEW c, NEW q, NEW lk, Returned(S, U, F, u, A, c, q, lk), NEW m, Ends(S, u, c, m)
    PROVE  Past(S, U, F, u, A, c, Append(q, c), [lk EXCEPT ![m] = Nil])
<1>1. /\ c \in S /\ q \in Seq(Node) /\ LinksAre(S, U, u, c, TRUE, lk)
      /\ q \o (<<c>> \o (F[t.r[c]] \o A[c])) = F[t.root]
  BY DEF Returned
<1>2. m \in S /\ t.r[m] = Nil /\ u[m] = c /\ \A k \in S : t.r[k] = Nil /\ u[k] = c => k = m
  BY DEF Ends
<1>3. c \notin U[t.l[c]]
  BY <1>1 DEF Guides, Holds
<1>4. S \subseteq Ref /\ Nil \in Ref
  BY DEF Ref
<1>5. PICK lk1 : [lk EXCEPT ![m] = Nil] = lk1
  OBVIOUS
<1>6. LinksAre(S, U, u, c, FALSE, lk1)
  <2>1. lk1 \in [Ref -> Ref] /\ \A k \in Ref : lk1[k] = IF k = m THEN Nil ELSE lk[k]
    BY <1>1, <1>2, <1>4, <1>5 DEF LinksAre
  <2>2. ~ Threaded(S, U, u, c, FALSE, m)
    BY <1>2, <1>3 DEF Threaded
  <2>3. \A k : k # m => (Threaded(S, U, u, c, FALSE, k) <=> Threaded(S, U, u, c, TRUE, k))
    BY <1>2 DEF Threaded
  <2> QED
    BY <1>1, <2>1, <2>2, <2>3 DEF LinksAre
<1>7. PICK f \in Seq(Node), g \in Seq(Node) : F[t.r[c]] = f /\ A[c] = g
  <2>1. Sides(S, F, u, A)
    BY GuidesSides
  <2>2. t.r[c] \in S \cup {Nil} /\ A[c] \in Seq(Node)
    BY <1>1, <2>1 DEF Sides
  <2>3. F[t.r[c]] \in Seq(Node)
    BY <2>1, <2>2 DEF Sides
  <2> QED
    BY <2>2, <2>3
<1>8. <<c>> \in Seq(Node) /\ f \o g \in Seq(Node)
  BY <1>1
<1>9. q \o (<<c>> \o (f \o g)) = (q \o <<c>>) \o (f \o g)
  BY <1>1, <1>8, Associates
<1>10. q \o <<c>> = Append(q, c) /\ Append(q, c) \in Seq(Node)
  BY <1>1
<1> QED
  BY <1>1, <1>5, <1>6, <1>7, <1>9, <1>10 DEF Past

(* Going down, the iterator leaves a thread to where it was.               *)
LEMMA DownFresh ==
    ASSUME NEW S \in SUBSET Node, NEW U, NEW F, NEW u, NEW A, Guides(S, U, F, u, A),
           NEW c, NEW q, NEW lk, Fresh(S, U, F, u, A, c, q, lk), t.l[c] # Nil,
           NEW m, Ends(S, u, c, m)
    PROVE  Fresh(S, U, F, u, A, t.l[c], q, [lk EXCEPT ![m] = c])
<1>1. /\ c \in S /\ q \in Seq(Node) /\ LinksAre(S, U, u, c, FALSE, lk)
      /\ q \o (F[c] \o A[c]) = F[t.root]
  BY DEF Fresh
<1>2. m \in S /\ t.r[m] = Nil /\ u[m] = c /\ \A k \in S : t.r[k] = Nil /\ u[k] = c => k = m
  BY DEF Ends
<1>3. /\ \A n \in S : Around(S, U, F, u, A, n)
      /\ Holds(t, S, U)
  BY DEF Guides
<1>4. S \subseteq Ref /\ Nil \notin S /\ c \in Ref
  BY <1>1, TreeAssumption DEF Ref
<1>5. PICK b \in S : t.l[c] = b /\ u[b] = c
  BY <1>1, <1>3 DEF Around
<1>6. /\ A[b] = <<c>> \o F[t.r[c]] \o A[c]
      /\ \A a \in S : b \in U[t.l[a]] <=> (a = c \/ c \in U[t.l[a]])
  <2>1. Around(S, U, F, u, A, b)
    BY <1>3, <1>5
  <2> QED
    BY <1>1, <1>4, <1>5, <2>1 DEF Around
<1>7. Sides(S, F, u, A) /\ \A k \in S : u[k] # Nil => u[k] \in S
  <2>1. Sides(S, F, u, A)
    BY GuidesSides
  <2> QED
    BY <2>1 DEF Sides
<1>8. PICK lk1 : [lk EXCEPT ![m] = c] = lk1
  OBVIOUS
<1>9. LinksAre(S, U, u, b, FALSE, lk1)
  <2>1. lk1 \in [Ref -> Ref] /\ \A k \in Ref : lk1[k] = IF k = m THEN c ELSE lk[k]
    BY <1>1, <1>2, <1>4, <1>8 DEF LinksAre
  <2>2. Threaded(S, U, u, b, FALSE, m)
    BY <1>1, <1>2, <1>4, <1>6 DEF Threaded
  <2>3. \A k : k # m => (Threaded(S, U, u, b, FALSE, k) <=> Threaded(S, U, u, c, FALSE, k))
    BY <1>2, <1>6, <1>7 DEF Threaded
  <2> QED
    BY <1>1, <1>2, <2>1, <2>2, <2>3 DEF LinksAre
<1>10. q \o (F[b] \o A[b]) = F[t.root]
  <2>1. PICK e \in Seq(Node), f \in Seq(Node), g \in Seq(Node) :
             F[b] = e /\ F[t.r[c]] = f /\ A[c] = g
    BY <1>1, <1>5, <1>7 DEF Sides
  <2>2. F[c] = e \o <<c>> \o f
    <3>1. F[c] = F[t.l[c]] \o <<c>> \o F[t.r[c]]
      BY <1>1, <1>7 DEF Sides
    <3> QED
      BY <1>5, <2>1, <3>1
  <2>3. A[b] = <<c>> \o f \o g
    BY <1>6, <2>1
  <2>4. PICK h \in Seq(Node) : <<c>> = h
    <3>1. <<c>> \in Seq(Node)
      BY <1>1
    <3> QED
      BY <3>1
  <2>5. (e \o h \o f) \o g = e \o ((h \o f) \o g)
    <3>1. e \in Seq(Node) /\ f \in Seq(Node) /\ g \in Seq(Node) /\ h \in Seq(Node)
      BY <2>1, <2>4
    <3>2. PICK i : i = h \o f
      OBVIOUS
    <3>3. i \in Seq(Node)
      BY <3>1, <3>2
    <3>4. Regroups(e, h, f) /\ Regroups(e, i, g)
      BY <3>1, <3>3, AllRegroup
    <3> QED
      BY <3>2, <3>4, Zenon DEF Regroups
  <2>6. F[c] \o A[c] = F[b] \o A[b]
    BY <2>1, <2>2, <2>3, <2>4, <2>5
  <2> QED
    BY <1>1, <2>6
<1> QED
  BY <1>1, <1>5, <1>8, <1>9, <1>10 DEF Fresh

(* The inductive invariant of the iterator: the map of the tree exists,    *)
(* and what the iterator has returned and what is before it make up the    *)
(* order of the tree.                                                      *)
Iterating ==
    /\ pc = "iterate" =>
          \E U, F, u, A : Guides(present, U, F, u, A) /\ At(present, U, F, u, A, cur, out, link)
    /\ pc # "iterate" => link = AllNil

(* The map of a tree that does not change stays what it is.                *)
LEMMA GuidesStay ==
    ASSUME t' = t, NEW S, NEW U, NEW F, NEW u, NEW A, Guides(S, U, F, u, A)
    PROVE  Guides(S, U, F, u, A)'
<1>1. Holds(t, S, U)' /\ Flat(F)'
  <2>1. Holds(t, S, U)'
    BY DEF Guides, Holds
  <2>2. Flat(F)
    BY DEF Guides
  <2>3. Flat(F)'
    BY <2>2, Zenon DEF Flat
  <2> QED
    BY <2>1, <2>3
<1>2. ASSUME NEW n \in S
      PROVE  Around(S, U, F, u, A, n)'
  <2>1. Around(S, U, F, u, A, n)
    BY DEF Guides
  <2> QED
    BY <2>1 DEF Around
<1>3. /\ \A n \in S \cup {Nil} : Lists(F[n], U[n])
      /\ u \in [Ref -> Ref] /\ A \in [Ref -> Seq(Node)]
      /\ u[t.root] = Nil /\ A[t.root] = <<>>
  BY DEF Guides
<1>4. u[t'.root] = Nil /\ A[t'.root] = <<>>
  BY <1>3
<1> QED
  BY <1>1, <1>2, <1>3, <1>4 DEF Guides

LEMMA AtStays ==
    ASSUME t' = t, NEW S, NEW U, NEW F, NEW u, NEW A, NEW c, NEW q, NEW lk,
           At(S, U, F, u, A, c, q, lk)
    PROVE  At(S, U, F, u, A, c, q, lk)'
<1>1. LinksAre(S, U, u, c, FALSE, lk) => LinksAre(S, U, u, c, FALSE, lk)'
  BY DEF LinksAre, Threaded
<1>2. LinksAre(S, U, u, c, TRUE, lk) => LinksAre(S, U, u, c, TRUE, lk)'
  BY DEF LinksAre, Threaded
<1>3. Ended(F, c, q, lk) => Ended(F, c, q, lk)'
  BY DEF Ended, AllNil
<1>4. Fresh(S, U, F, u, A, c, q, lk) => Fresh(S, U, F, u, A, c, q, lk)'
  BY <1>1 DEF Fresh
<1>5. Returned(S, U, F, u, A, c, q, lk) => Returned(S, U, F, u, A, c, q, lk)'
  BY <1>2 DEF Returned
<1> QED
  BY <1>3, <1>4, <1>5 DEF At

(* A step of the iterator, given where it leads.                           *)
LEMMA GoesOn ==
    ASSUME t' = t, present' = present, pc' = "iterate",
           NEW U, NEW F, NEW u, NEW A, Guides(present, U, F, u, A),
           NEW c, NEW q, NEW lk, cur' = c, out' = q, link' = lk,
           At(present, U, F, u, A, c, q, lk)
    PROVE  Iterating'
<1>1. PICK S : present = S
  OBVIOUS
<1>2. Guides(S, U, F, u, A) /\ At(S, U, F, u, A, c, q, lk)
  BY <1>1
<1>3. Guides(S, U, F, u, A)' /\ At(S, U, F, u, A, c, q, lk)'
  BY <1>2, GuidesStay, AtStays
<1>4. Guides(present, U, F, u, A)' /\ At(present, U, F, u, A, cur, out, link)'
  BY <1>1, <1>3
<1> QED
  BY <1>4 DEF Iterating

(* In the iterator the tree is good, and a node it is at is in it.         *)
LEMMA IterMap ==
    ASSUME IInv, Iterating, pc = "iterate"
    PROVE  /\ Fixing(t, present, Nil) /\ present \in SUBSET Node
           /\ \E U, F, u, A : Guides(present, U, F, u, A)
                              /\ At(present, U, F, u, A, cur, out, link)
  BY DEF IInv, TreeAt, Iterating, TypeOK

LEMMA AtNode ==
    ASSUME NEW S, NEW U, NEW F, NEW u, NEW A, NEW c, NEW q, NEW lk,
           At(S, U, F, u, A, c, q, lk), c # Nil
    PROVE  c \in S
  BY DEF At, Ended, Fresh, Returned

(* One lemma per step of the iterator.                                     *)
LEMMA IterLeafGoes ==
    ASSUME IInv, Iterating, IterLeaf
    PROVE  Iterating'
<1>1. /\ pc = "iterate" /\ cur # Nil /\ t.l[cur] = Nil /\ out' = Append(out, cur)
      /\ cur' = right(cur) /\ t' = t /\ pc' = "iterate" /\ link' = link /\ present' = present
  BY DEF IterLeaf
<1>2. Fixing(t, present, Nil) /\ present \in SUBSET Node
  BY <1>1, IterMap
<1>3. PICK U, F, u, A : /\ Guides(present, U, F, u, A)
                        /\ At(present, U, F, u, A, cur, out, link)
  BY <1>1, IterMap
<1>4. Past(present, U, F, u, A, cur, Append(out, cur), link)
  BY <1>1, <1>2, <1>3, LeafPasses
<1>5. cur' = IF t.r[cur] # Nil THEN t.r[cur] ELSE link[cur]
  BY <1>1 DEF right
<1>6. PICK c, q, lk, S, i, q0 : /\ cur' = c /\ out' = q /\ link' = lk /\ present = S
                                /\ cur = i
  OBVIOUS
<1>7. At(S, U, F, u, A, c, q, lk)
  <2>1. /\ S \in SUBSET Node /\ Guides(S, U, F, u, A) /\ Past(S, U, F, u, A, i, q, lk)
        /\ c = IF t.r[i] # Nil THEN t.r[i] ELSE lk[i]
    BY <1>1, <1>2, <1>3, <1>4, <1>5, <1>6
  <2> QED
    BY ONLY <2>1, MovesOn
<1> QED
  BY <1>1, <1>3, <1>6, <1>7, GoesOn

LEMMA IterDownGoes ==
    ASSUME IInv, Iterating, IterDown
    PROVE  Iterating'
<1>1. /\ pc = "iterate" /\ cur # Nil /\ t.l[cur] # Nil /\ out' = out /\ right(Thread) = Nil
      /\ link' = [link EXCEPT ![Thread] = cur]
      /\ cur' = t.l[cur] /\ t' = t /\ pc' = "iterate" /\ present' = present
  BY DEF IterDown
<1>2. Fixing(t, present, Nil) /\ present \in SUBSET Node
  BY <1>1, IterMap
<1>3. PICK U, F, u, A : /\ Guides(present, U, F, u, A)
                        /\ At(present, U, F, u, A, cur, out, link)
  BY <1>1, IterMap
<1>4. PICK c, q, lk, S, m : cur = c /\ out = q /\ link = lk /\ present = S /\ Thread = m
  OBVIOUS
<1>5. /\ c # Nil /\ S \in SUBSET Node /\ Guides(S, U, F, u, A) /\ At(S, U, F, u, A, c, q, lk)
      /\ c \in S /\ t.l[c] # Nil
  BY <1>1, <1>2, <1>3, <1>4, AtNode
<1>6. PICK back \in BOOLEAN : LinksAre(S, U, u, c, back, lk)
  BY <1>5 DEF At, Ended, Fresh, Returned
<1>7. Ends(S, u, c, m)
  BY <1>2, <1>4, <1>5, <1>6, ThreadEnds
<1>8. Fresh(S, U, F, u, A, c, q, lk)
  <2>1. SUFFICES ASSUME Returned(S, U, F, u, A, c, q, lk) PROVE FALSE
    BY <1>5 DEF At, Ended
  <2>2. LinksAre(S, U, u, c, TRUE, lk)
    BY <2>1 DEF Returned
  <2>3. Threaded(S, U, u, c, TRUE, m) /\ m \in Ref /\ t.r[m] = Nil /\ u[m] = c
    BY <1>5, <1>7 DEF Ends, Threaded, Ref
  <2>4. lk[m] = c
    BY <2>2, <2>3 DEF LinksAre
  <2>5. right(m) = lk[m]
    BY <1>4, <2>3 DEF right
  <2> QED
    BY <1>1, <1>4, <1>5, <2>4, <2>5
<1>9. Fresh(S, U, F, u, A, t.l[c], q, [lk EXCEPT ![m] = c])
  BY <1>5, <1>7, <1>8, DownFresh
<1>10. PICK c1, lk1 : cur' = c1 /\ link' = lk1
  OBVIOUS
<1>11. At(S, U, F, u, A, c1, q, lk1) /\ out' = q
  BY <1>1, <1>4, <1>9, <1>10 DEF At
<1> QED
  BY <1>1, <1>3, <1>4, <1>10, <1>11, GoesOn

LEMMA IterBackGoes ==
    ASSUME IInv, Iterating, IterBack
    PROVE  Iterating'
<1>1. /\ pc = "iterate" /\ cur # Nil /\ t.l[cur] # Nil /\ out' = Append(out, cur)
      /\ right(Thread) = cur /\ link' = [link EXCEPT ![Thread] = Nil]
      /\ cur' = IF t.r[cur] # Nil THEN t.r[cur] ELSE link'[cur]
      /\ t' = t /\ pc' = "iterate" /\ present' = present
  BY DEF IterBack
<1>2. Fixing(t, present, Nil) /\ present \in SUBSET Node
  BY <1>1, IterMap
<1>3. PICK U, F, u, A : /\ Guides(present, U, F, u, A)
                        /\ At(present, U, F, u, A, cur, out, link)
  BY <1>1, IterMap
<1>4. PICK c, q, lk, S, m : cur = c /\ out = q /\ link = lk /\ present = S /\ Thread = m
  OBVIOUS
<1>5. /\ c # Nil /\ S \in SUBSET Node /\ Guides(S, U, F, u, A) /\ At(S, U, F, u, A, c, q, lk)
      /\ c \in S /\ t.l[c] # Nil
  BY <1>1, <1>2, <1>3, <1>4, AtNode
<1>6. PICK back \in BOOLEAN : LinksAre(S, U, u, c, back, lk)
  BY <1>5 DEF At, Ended, Fresh, Returned
<1>7. Ends(S, u, c, m)
  BY <1>2, <1>4, <1>5, <1>6, ThreadEnds
<1>8. Returned(S, U, F, u, A, c, q, lk)
  <2>1. SUFFICES ASSUME Fresh(S, U, F, u, A, c, q, lk) PROVE FALSE
    BY <1>5 DEF At, Ended
  <2>2. LinksAre(S, U, u, c, FALSE, lk)
    BY <2>1 DEF Fresh
  <2>3. m \in Ref /\ t.r[m] = Nil /\ u[m] = c /\ c \notin U[t.l[c]]
    BY <1>5, <1>7 DEF Ends, Ref, Guides, Holds
  <2>4. ~ Threaded(S, U, u, c, FALSE, m)
    BY <2>3 DEF Threaded
  <2>5. lk[m] = Nil
    BY <2>2, <2>3, <2>4 DEF LinksAre
  <2>6. right(m) = lk[m]
    BY <1>4, <2>3 DEF right
  <2> QED
    BY <1>1, <1>4, <1>5, <2>5, <2>6
<1>9. Past(S, U, F, u, A, c, Append(q, c), [lk EXCEPT ![m] = Nil])
  BY <1>5, <1>7, <1>8, BackPasses
<1>10. PICK c1, q1, lk1 : cur' = c1 /\ out' = q1 /\ link' = lk1
  OBVIOUS
<1>11. /\ Past(S, U, F, u, A, c, q1, lk1)
       /\ c1 = IF t.r[c] # Nil THEN t.r[c] ELSE lk1[c]
  BY <1>1, <1>4, <1>9, <1>10
<1>12. At(S, U, F, u, A, c1, q1, lk1)
  BY ONLY <1>5, <1>11, MovesOn
<1> QED
  BY <1>1, <1>3, <1>4, <1>10, <1>12, GoesOn

LEMMA IterBeginGoes ==
    ASSUME IInv, Ordered, Iterating, IterBegin
    PROVE  Iterating'
<1>1. /\ pc = "idle" /\ present # {} /\ cur' = t.root /\ out' = <<>> /\ link' = link
      /\ t' = t /\ pc' = "iterate" /\ present' = present /\ link = AllNil
  BY DEF IterBegin, Iterating
<1>2. Fixing(t, present, Nil) /\ present \in SUBSET Node
  BY <1>1 DEF IInv, TreeAt, TypeOK
<1>3. PICK U : Holds(t, present, U)
  BY DEF Ordered
<1>4. PICK F, u, A : Guides(present, U, F, u, A)
  BY <1>2, <1>3, GuidesExist
<1>5. PICK c, q, lk, S : cur' = c /\ out' = q /\ link' = lk /\ present = S
  OBVIOUS
<1>6. /\ c = t.root /\ q = <<>> /\ lk = AllNil /\ S \in SUBSET Node /\ S # {}
      /\ Fixing(t, S, Nil) /\ Holds(t, S, U) /\ Guides(S, U, F, u, A)
  BY <1>1, <1>2, <1>3, <1>4, <1>5
<1>7. c \in S
  <2>1. U[c] = S /\ U[Nil] = {}
    BY <1>6 DEF Holds
  <2> QED
    BY <1>6, <2>1 DEF Fixing, Shape
<1>8. Sides(S, F, u, A)
  BY <1>6, GuidesSides
<1>9. u[c] = Nil /\ A[c] = <<>> /\ \A a \in S : c \notin U[t.l[a]]
  <2>1. u[c] = Nil /\ Around(S, U, F, u, A, c)
    BY <1>6, <1>7 DEF Guides
  <2> QED
    BY <2>1 DEF Around
<1>10. LinksAre(S, U, u, c, FALSE, lk)
  <2>1. \A m : ~ Threaded(S, U, u, c, FALSE, m)
    BY <1>8, <1>9 DEF Threaded, Sides
  <2>2. lk \in [Ref -> Ref] /\ \A m \in Ref : lk[m] = Nil
    BY <1>6 DEF AllNil, Ref
  <2> QED
    BY <2>1, <2>2 DEF LinksAre
<1>11. q \o (F[c] \o A[c]) = F[t.root] /\ q \in Seq(Node)
  <2>1. PICK f \in Seq(Node) : F[c] = f
    BY <1>7, <1>8 DEF Sides
  <2>2. <<>> \o (f \o <<>>) = f /\ <<>> \in Seq(Node)
    BY EmptyJoins
  <2> QED
    BY <1>6, <1>9, <2>1, <2>2
<1>12. At(S, U, F, u, A, c, q, lk)
  BY <1>7, <1>10, <1>11 DEF At, Fresh
<1> QED
  BY <1>1, <1>4, <1>5, <1>12, GoesOn

(* At its end the iterator has returned the sequence of the whole tree.    *)
LEMMA IterEnds ==
    ASSUME IInv, Iterating, pc = "iterate", cur = Nil
    PROVE  /\ link = AllNil
           /\ \E F : Flat(F) /\ out = F[t.root]
<1>1. PICK U, F, u, A : /\ Guides(present, U, F, u, A)
                        /\ At(present, U, F, u, A, cur, out, link)
  BY DEF Iterating
<1>2. Nil \notin present
  BY TreeAssumption DEF IInv, TypeOK
<1>3. Ended(F, cur, out, link)
  BY <1>1, <1>2 DEF At, Fresh, Returned
<1> QED
  BY <1>1, <1>3 DEF Ended, Guides

(* Outside the iterator there are no threads.                              *)
LEMMA LinksRest ==
    ASSUME IInv, Iterating,
           \/ \E n \in Node : Insert(n) \/ Remove(n)
           \/ Descend \/ Conflict \/ Attach
           \/ FixRecolour \/ FixInner \/ FixOuter \/ FixDone
           \/ Min \/ Swap \/ Cut
           \/ RmRoot \/ RmRedSibling \/ RmUp \/ RmExchange \/ RmNear \/ RmFar \/ Replace
           \/ IterEnd
    PROVE  Iterating'
<1> SUFFICES pc' # "iterate" /\ link' = AllNil
  BY DEF Iterating, AllNil
<1>1. CASE \E n \in Node : Insert(n)
  <2>1. PICK n \in Node : Insert(n)
    BY <1>1
  <2>2. link = AllNil /\ link' = [link EXCEPT ![n] = Nil] /\ pc' # "iterate"
    BY <2>1 DEF Insert, Iterating
  <2> QED
    BY <2>2 DEF AllNil
<1>2. CASE Swap
  <2>1. /\ link = AllNil /\ link' = [link EXCEPT ![new] = link[cur], ![cur] = link[new]]
        /\ pc' # "iterate" /\ new \in Ref /\ cur \in Ref
    BY <1>2 DEF Swap, Iterating, IInv, TypeOK
  <2> QED
    BY <2>1 DEF AllNil
<1>3. CASE IterEnd
  BY <1>3, IterEnds DEF IterEnd
<1>4. CASE \E n \in Node : Remove(n)
  BY <1>4 DEF Remove, Iterating
<1>5. CASE Descend \/ Conflict \/ Attach
  BY <1>5 DEF Descend, Conflict, Attach, Iterating
<1>6. CASE FixRecolour \/ FixInner \/ FixOuter \/ FixDone
  BY <1>6 DEF FixRecolour, FixInner, FixOuter, FixDone, Iterating
<1>7. CASE Min \/ Cut \/ RmRoot \/ RmRedSibling
  BY <1>7 DEF Min, Cut, RmRoot, RmRedSibling, Iterating
<1>8. CASE RmUp \/ RmExchange \/ RmNear \/ RmFar \/ Replace
  BY <1>8 DEF RmUp, RmExchange, RmNear, RmFar, Replace, Iterating
<1> QED
  BY <1>1, <1>2, <1>3, <1>4, <1>5, <1>6, <1>7, <1>8

(* There is one such sequence.                                             *)
LEMMA FlatUnique ==
    ASSUME NEW S \in SUBSET Node, Fixing(t, S, Nil), NEW F, Flat(F), NEW G, Flat(G)
    PROVE  F[t.root] = G[t.root]
<1>1. PICK rank : Ranks(t, rank)
  BY RankFound
<1>2. t \in Tree
  BY FixingTree
<1>3. /\ \A n \in Ref : F[n] = IF n = Nil THEN <<>> ELSE F[t.l[n]] \o <<n>> \o F[t.r[n]]
      /\ \A n \in Ref : G[n] = IF n = Nil THEN <<>> ELSE G[t.l[n]] \o <<n>> \o G[t.r[n]]
  BY Zenon DEF Flat
<1>4. PICK X : X = {n \in Ref : F[n] # G[n]}
  OBVIOUS
<1>5. SUFFICES ASSUME X # {} PROVE FALSE
  BY <1>2, <1>4 DEF Tree
<1>6. rank \in [Ref -> Nat] /\ X \in SUBSET Ref
  BY <1>1, <1>4 DEF Ranks
<1>7. PICK n \in X : \A m \in X : rank[n] <= rank[m]
  BY <1>5, <1>6, LeastRank
<1>8. n \in Ref /\ F[n] # G[n]
  BY <1>4, <1>7
<1>9. n # Nil /\ n \in Node
  BY <1>3, <1>8 DEF Ref
<1>10. ASSUME NEW c \in Ref, c = t.l[n] \/ c = t.r[n]
       PROVE  F[c] = G[c]
  <2>1. rank[c] < rank[n] /\ rank[c] \in Nat /\ rank[n] \in Nat
    BY <1>1, <1>6, <1>8, <1>9, <1>10 DEF Ranks
  <2> QED
    BY <1>4, <1>7, <2>1
<1>11. F[t.l[n]] = G[t.l[n]] /\ F[t.r[n]] = G[t.r[n]]
  BY <1>2, <1>8, <1>10 DEF Tree
<1> QED
  BY <1>3, <1>8, <1>9, <1>11

(* InOrder, with its local definition named.                               *)
LEMMA InOrderUnfolds == InOrder = TheFlat[t.root]
  BY Zenon DEF InOrder, TheFlat, Flat

(* The iterator returns every node of the tree once, in the order of the   *)
(* tree, and leaves no thread behind it (lc_rbt.c, the Morris iterator).   *)
THEOREM IteratesAlways == Spec => []IteratesAll
<1>1. Init => Iterating
  BY DEF Init, Iterating
<1>2. IInv /\ Ordered /\ Iterating /\ [Next]_vars => Iterating'
  <2> SUFFICES ASSUME IInv, Ordered, Iterating, [Next]_vars PROVE Iterating'
    OBVIOUS
  <2>1. CASE IterBegin
    BY <2>1, IterBeginGoes
  <2>2. CASE IterLeaf
    BY <2>2, IterLeafGoes
  <2>3. CASE IterDown
    BY <2>3, IterDownGoes
  <2>4. CASE IterBack
    BY <2>4, IterBackGoes
  <2>5. CASE UNCHANGED vars
    <3>1. t' = t /\ pc' = pc /\ cur' = cur /\ out' = out /\ link' = link /\ present' = present
      BY <2>5 DEF vars
    <3>2. CASE pc = "iterate"
      <4>1. PICK U, F, u, A : /\ Guides(present, U, F, u, A)
                              /\ At(present, U, F, u, A, cur, out, link)
        BY <3>2 DEF Iterating
      <4> QED
        BY <3>1, <3>2, <4>1, GoesOn
    <3>3. CASE pc # "iterate"
      BY <3>1, <3>3 DEF Iterating, AllNil
    <3> QED
      BY <3>2, <3>3
  <2>6. CASE \/ \E n \in Node : Insert(n) \/ Remove(n)
             \/ Descend \/ Conflict \/ Attach
             \/ FixRecolour \/ FixInner \/ FixOuter \/ FixDone
             \/ Min \/ Swap \/ Cut
             \/ RmRoot \/ RmRedSibling \/ RmUp \/ RmExchange \/ RmNear \/ RmFar \/ Replace
             \/ IterEnd
    BY <2>6, LinksRest
  <2> QED
    BY <2>1, <2>2, <2>3, <2>4, <2>5, <2>6 DEF Next
<1>3. IInv /\ Iterating => IteratesAll
  <2> SUFFICES ASSUME IInv, Iterating PROVE IteratesAll
    OBVIOUS
  <2>1. pc # "iterate" => link = AllNil
    BY DEF Iterating
  <2>2. ASSUME pc = "iterate", cur = Nil
        PROVE  out = InOrder /\ link = AllNil
    <3>1. PICK F : Flat(F) /\ out = F[t.root] /\ link = AllNil
      BY <2>2, IterEnds
    <3>2. Flat(TheFlat)
      BY <3>1, Zenon DEF TheFlat
    <3>3. F[t.root] = TheFlat[t.root]
      BY <2>2, <3>1, <3>2, IterMap, FlatUnique
    <3> QED
      BY <3>1, <3>3, InOrderUnfolds
  <2> QED
    BY <2>1, <2>2 DEF IteratesAll
<1> QED
  BY <1>1, <1>2, <1>3, AlwaysOrdered, PTL DEF Spec
=============================================================================
