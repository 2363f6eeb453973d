---------------------------- MODULE RbTreeProofs ----------------------------
(***************************************************************************)
(* Proofs about RbTree, for any set of nodes and any keys: the links of    *)
(* the tree, the sentinel and the balance, at every step of an insertion   *)
(* and of a removal. Existential witnesses in the invariant carry what the *)
(* tree does not store: a depth for each node, which rules out cycles, its *)
(* black height, and the nodes on the path to the one that is removed.     *)
(***************************************************************************)
EXTENDS RbTree, FiniteSetTheorems, WellFoundedInduction, TLAPS

(* The mirror image of a tree. A right-hand case of a proof is the left-   *)
(* hand case of the mirror image.                                          *)
Mirror(x) == [root |-> x.root, l |-> x.r, r |-> x.l, p |-> x.p, red |-> x.red]

(* The links of a tree: a child's parent is the node it hangs on, a node   *)
(* with a parent is one of its children, and what is not in S hangs        *)
(* nowhere.                                                                *)
Shape(x, S) ==
    /\ x \in Tree
    /\ x.l[Nil] = Nil /\ x.r[Nil] = Nil /\ x.p[Nil] = Nil /\ Nil \notin x.red
    /\ x.root # Nil => x.root \in S /\ x.p[x.root] = Nil
    /\ \A n \in S : n = x.root \/ x.p[n] # Nil
    /\ \A n \in Node \ S : x.l[n] = Nil /\ x.r[n] = Nil /\ x.p[n] = Nil
    /\ \A n \in Node :
          /\ x.l[n] # Nil => x.p[x.l[n]] = n /\ x.l[n] # x.r[n]
          /\ x.r[n] # Nil => x.p[x.r[n]] = n
          /\ x.p[n] # Nil => n \in {x.l[x.p[n]], x.r[x.p[n]]}

(* The tree has no cycle: a node is deeper than its parent.                *)
Deep(x, d) ==
    /\ d \in [Ref -> Nat]
    /\ \A n \in Node : x.p[n] # Nil => d[x.p[n]] < d[n]

(* What a rotation to the left at n makes of a tree, node by node          *)
(* (__lr, lc_rbt.c:108).                                                   *)
Turned(x, y, n) ==
    LET c == x.r[n]
        q == x.p[n]
    IN  /\ y \in Tree
        /\ y.red = x.red
        /\ y.root = IF q = Nil THEN c ELSE x.root
        /\ \A m \in Ref : y.l[m] = IF m = c THEN n
                                   ELSE IF m = q /\ m # Nil /\ x.l[m] = n THEN c ELSE x.l[m]
        /\ \A m \in Ref : y.r[m] = IF m = n THEN x.l[c]
                                   ELSE IF m = q /\ m # Nil /\ x.l[m] # n THEN c ELSE x.r[m]
        /\ \A m \in Ref : y.p[m] = IF m = n THEN c
                                   ELSE IF m = c THEN q
                                   ELSE IF m = x.l[c] /\ m # Nil THEN n ELSE x.p[m]

(* What the operators on trees do, field by field and node by node.        *)
ParentIs(x, y, n, q) ==
    /\ y \in Tree
    /\ y.root = x.root /\ y.l = x.l /\ y.r = x.r /\ y.red = x.red
    /\ \A m \in Ref : y.p[m] = IF m = n /\ n # Nil THEN q ELSE x.p[m]

LeftIs(x, y, n, c) ==
    /\ y \in Tree
    /\ y.root = x.root /\ y.r = x.r /\ y.p = x.p /\ y.red = x.red
    /\ \A m \in Ref : y.l[m] = IF m = n THEN c ELSE x.l[m]

RightIs(x, y, n, c) ==
    /\ y \in Tree
    /\ y.root = x.root /\ y.l = x.l /\ y.p = x.p /\ y.red = x.red
    /\ \A m \in Ref : y.r[m] = IF m = n THEN c ELSE x.r[m]

LinkIs(x, y, n, c) ==
    /\ y \in Tree
    /\ y.p = x.p /\ y.red = x.red
    /\ y.root = IF x.p[n] = Nil THEN c ELSE x.root
    /\ \A m \in Ref : y.l[m] = IF m = x.p[n] /\ m # Nil /\ x.l[m] = n THEN c ELSE x.l[m]
    /\ \A m \in Ref : y.r[m] = IF m = x.p[n] /\ m # Nil /\ x.l[m] # n THEN c ELSE x.r[m]

(* Each of the operators does what its relation says.                      *)
LEMMA SetParentGives ==
    ASSUME NEW x \in Tree, NEW n \in Ref, NEW q \in Ref
    PROVE  ParentIs(x, SetParent(x, n, q), n, q)
<1>1. CASE n = Nil
  BY <1>1 DEF SetParent, ParentIs
<1>2. CASE n # Nil
  BY <1>2 DEF SetParent, Tree, ParentIs
<1> QED
  BY <1>1, <1>2

LEMMA RelinkGives ==
    ASSUME NEW x \in Tree, NEW n \in Ref, NEW c \in Ref
    PROVE  LinkIs(x, Relink(x, n, c), n, c)
<1>1. CASE x.p[n] = Nil
  BY <1>1 DEF Relink, Tree, LinkIs
<1>2. CASE x.p[n] # Nil /\ x.l[x.p[n]] = n
  BY <1>2 DEF Relink, Tree, LinkIs
<1>3. CASE x.p[n] # Nil /\ x.l[x.p[n]] # n
  BY <1>3 DEF Relink, Tree, LinkIs
<1> QED
  BY <1>1, <1>2, <1>3

LEMMA ChildGives ==
    ASSUME NEW x \in Tree, NEW n \in Ref, NEW c \in Ref
    PROVE  LeftIs(x, [x EXCEPT !.l[n] = c], n, c) /\ RightIs(x, [x EXCEPT !.r[n] = c], n, c)
  BY DEF Tree, LeftIs, RightIs

(* RotateLeft is a turn, wherever there is a right child to come up.       *)
LEMMA LeftTurns ==
    ASSUME NEW S \in SUBSET Node, NEW x, NEW d, Shape(x, S), Deep(x, d),
           NEW n \in Node, x.r[n] # Nil
    PROVE  Turned(x, RotateLeft(x, n), n)
<1>1. PICK c, q, b : c = x.r[n] /\ q = x.p[n] /\ b = x.l[c]
  OBVIOUS
<1>2. /\ x \in Tree /\ c \in Node /\ q \in Ref /\ b \in Ref /\ n \in Ref /\ c \in Ref
      /\ n # Nil /\ c # Nil /\ x.p[c] = n /\ n # c /\ q # n /\ q # c /\ b # c /\ b # n
      /\ (b # Nil => b # q)
  BY <1>1, TreeAssumption DEF Shape, Deep, Tree, Ref
<1>3. PICK x0 : x0 = [x EXCEPT !.r[n] = b] /\ RightIs(x, x0, n, b)
  BY <1>2, ChildGives
<1>4. PICK x1 : x1 = SetParent(x0, b, n) /\ ParentIs(x0, x1, b, n)
  <2>1. x0 \in Tree
    BY <1>3 DEF RightIs
  <2> QED
    BY <1>2, <2>1, SetParentGives
<1>5. x1.p[n] = q
  <2>1. x0.p = x.p
    BY <1>3 DEF RightIs
  <2>2. x1.p[n] = x0.p[n]
    BY <1>2, <1>4 DEF ParentIs
  <2> QED
    BY <1>1, <2>1, <2>2
<1>6. PICK x2 : x2 = SetParent(x1, c, q) /\ ParentIs(x1, x2, c, q)
  <2>1. x1 \in Tree
    BY <1>4 DEF ParentIs
  <2> QED
    BY <1>2, <2>1, SetParentGives
<1>7. x2.p[n] = q
  BY <1>2, <1>5, <1>6 DEF ParentIs
<1>8. PICK x3 : x3 = Relink(x2, n, c) /\ LinkIs(x2, x3, n, c)
  BY <1>2, <1>6, RelinkGives DEF ParentIs
<1>9. PICK x4 : x4 = [x3 EXCEPT !.l[c] = n] /\ LeftIs(x3, x4, c, n)
  BY <1>2, <1>8, ChildGives DEF LinkIs
<1>10. PICK y : y = SetParent(x4, n, c) /\ ParentIs(x4, y, n, c)
  BY <1>2, <1>9, SetParentGives DEF LeftIs
<1>11. RotateLeft(x, n) = y
  BY <1>1, <1>3, <1>4, <1>5, <1>6, <1>8, <1>9, <1>10, Zenon DEF RotateLeft
<1>12. /\ y \in Tree /\ y.red = x.red /\ y.root = IF q = Nil THEN c ELSE x.root
       /\ y.l = x4.l /\ x3.r = x4.r /\ y.r = x4.r /\ x4.p = x2.p /\ x3.p = x2.p
       /\ x0.p = x.p /\ x0.l = x.l /\ x2.r = x0.r /\ x2.l = x.l
  <2>1. x0.root = x.root /\ x0.l = x.l /\ x0.p = x.p /\ x0.red = x.red
    BY <1>3 DEF RightIs
  <2>2. x1.root = x0.root /\ x1.l = x0.l /\ x1.r = x0.r /\ x1.red = x0.red
    BY <1>4 DEF ParentIs
  <2>3. x2.root = x1.root /\ x2.l = x1.l /\ x2.r = x1.r /\ x2.red = x1.red
    BY <1>6 DEF ParentIs
  <2>4. x3.p = x2.p /\ x3.red = x2.red /\ x3.root = IF q = Nil THEN c ELSE x2.root
    BY <1>7, <1>8 DEF LinkIs
  <2>5. x4.root = x3.root /\ x4.r = x3.r /\ x4.p = x3.p /\ x4.red = x3.red
    BY <1>9 DEF LeftIs
  <2>6. y \in Tree /\ y.root = x4.root /\ y.l = x4.l /\ y.r = x4.r /\ y.red = x4.red
    BY <1>10 DEF ParentIs
  <2> QED
    BY <2>1, <2>2, <2>3, <2>4, <2>5, <2>6
<1>13. ASSUME NEW m \in Ref
       PROVE  y.l[m] = IF m = c THEN n
                       ELSE IF m = q /\ m # Nil /\ x.l[m] = n THEN c ELSE x.l[m]
  <2>1. y.l[m] = IF m = c THEN n ELSE x3.l[m]
    BY <1>9, <1>12 DEF LeftIs
  <2>2. x3.l[m] = IF m = q /\ m # Nil /\ x.l[m] = n THEN c ELSE x.l[m]
    BY <1>7, <1>8, <1>12 DEF LinkIs
  <2> QED
    BY <2>1, <2>2
<1>14. ASSUME NEW m \in Ref
       PROVE  y.r[m] = IF m = n THEN b
                       ELSE IF m = q /\ m # Nil /\ x.l[m] # n THEN c ELSE x.r[m]
  <2>1. y.r[m] = IF m = q /\ m # Nil /\ x.l[m] # n THEN c ELSE x0.r[m]
    BY <1>7, <1>8, <1>12 DEF LinkIs
  <2>2. x0.r[m] = IF m = n THEN b ELSE x.r[m]
    BY <1>3 DEF RightIs
  <2> QED
    BY <1>2, <2>1, <2>2
<1>15. ASSUME NEW m \in Ref
       PROVE  y.p[m] = IF m = n THEN c
                       ELSE IF m = c THEN q
                       ELSE IF m = b /\ m # Nil THEN n ELSE x.p[m]
  <2>1. y.p[m] = IF m = n THEN c ELSE x2.p[m]
    BY <1>2, <1>10, <1>12 DEF ParentIs
  <2>2. x2.p[m] = IF m = c THEN q ELSE x1.p[m]
    BY <1>2, <1>6 DEF ParentIs
  <2>3. x1.p[m] = IF m = b /\ m # Nil THEN n ELSE x.p[m]
    BY <1>4, <1>12 DEF ParentIs
  <2> QED
    BY <2>1, <2>2, <2>3
<1> QED
  BY <1>1, <1>11, <1>12, <1>13, <1>14, <1>15 DEF Turned

(* The mirror image of a tree has its nodes, its links and its depths.     *)
LEMMA MirrorShape ==
    ASSUME NEW x \in Tree, NEW S
    PROVE  /\ Mirror(x) \in Tree /\ Mirror(Mirror(x)) = x
           /\ Mirror(x).root = x.root /\ Mirror(x).l = x.r /\ Mirror(x).r = x.l
           /\ Mirror(x).p = x.p /\ Mirror(x).red = x.red
           /\ Shape(Mirror(x), S) <=> Shape(x, S)
           /\ \A d : Deep(Mirror(x), d) <=> Deep(x, d)
<1>1. /\ Mirror(x) \in Tree /\ Mirror(Mirror(x)) = x
      /\ Mirror(x).root = x.root /\ Mirror(x).l = x.r /\ Mirror(x).r = x.l
      /\ Mirror(x).p = x.p /\ Mirror(x).red = x.red
  BY DEF Tree, Mirror
<1>2. Shape(Mirror(x), S) <=> Shape(x, S)
  BY <1>1 DEF Shape
<1>3. \A d : Deep(Mirror(x), d) <=> Deep(x, d)
  BY <1>1 DEF Deep
<1> QED
  BY <1>1, <1>2, <1>3

(* A turn of the tree keeps its links, and depths are easily found anew.   *)
LEMMA TurnKeepsShape ==
    ASSUME NEW S \in SUBSET Node, NEW x, NEW y, NEW d, Shape(x, S), Deep(x, d),
           NEW n \in Node, x.r[n] # Nil, Turned(x, y, n)
    PROVE  Shape(y, S)
<1>1. PICK c, q, b : c = x.r[n] /\ q = x.p[n] /\ b = x.l[c]
  OBVIOUS
<1>2. /\ x \in Tree /\ c \in Node /\ q \in Ref /\ b \in Ref /\ n \in Ref /\ c \in Ref
      /\ n # Nil /\ c # Nil /\ x.p[c] = n /\ n # c /\ q # n /\ q # c /\ b # c /\ b # n
      /\ (b # Nil => b # q) /\ n \in S /\ c \in S /\ Nil \notin Node /\ Nil \in Ref
      /\ Node \subseteq Ref /\ (q # Nil => q \in Node) /\ (b # Nil => b \in Node /\ x.p[b] = c)
  BY <1>1, TreeAssumption DEF Shape, Deep, Tree, Ref
<1>3. /\ y \in Tree /\ y.red = x.red /\ y.root = IF q = Nil THEN c ELSE x.root
      /\ \A m \in Ref : y.l[m] = IF m = c THEN n
                               ELSE IF m = q /\ m # Nil /\ x.l[m] = n THEN c ELSE x.l[m]
      /\ \A m \in Ref : y.r[m] = IF m = n THEN b
                               ELSE IF m = q /\ m # Nil /\ x.l[m] # n THEN c ELSE x.r[m]
      /\ \A m \in Ref : y.p[m] = IF m = n THEN c
                               ELSE IF m = c THEN q
                               ELSE IF m = b /\ m # Nil THEN n ELSE x.p[m]
  BY <1>1 DEF Turned
<1>4. /\ y.l[Nil] = Nil /\ y.r[Nil] = Nil /\ y.p[Nil] = Nil /\ Nil \notin y.red
      /\ y.root # Nil => y.root \in S /\ y.p[y.root] = Nil
      /\ \A m \in S : m = y.root \/ y.p[m] # Nil
      /\ \A m \in Node \ S : y.l[m] = Nil /\ y.r[m] = Nil /\ y.p[m] = Nil
  BY <1>1, <1>2, <1>3 DEF Shape
<1>5. ASSUME NEW m \in Node
      PROVE  /\ y.l[m] # Nil => y.p[y.l[m]] = m /\ y.l[m] # y.r[m]
             /\ y.r[m] # Nil => y.p[y.r[m]] = m
             /\ y.p[m] # Nil => m \in {y.l[y.p[m]], y.r[y.p[m]]}
  <2>1. PICK i, j, z : i = x.l[m] /\ j = x.r[m] /\ z = x.p[m]
    OBVIOUS
  <2>2. /\ m \in Ref /\ m # Nil /\ i \in Ref /\ j \in Ref /\ z \in Ref
        /\ i # Nil => x.p[i] = m /\ i # j /\ i # m
        /\ j # Nil => x.p[j] = m /\ j # m
        /\ z # Nil => m \in {x.l[z], x.r[z]} /\ z # m
    BY <1>2, <2>1 DEF Shape, Deep, Tree, Ref
  <2>3. y.l[m] = IF m = c THEN n ELSE IF m = q /\ i = n THEN c ELSE i
    BY <1>3, <2>1, <2>2
  <2>4. y.r[m] = IF m = n THEN b ELSE IF m = q /\ i # n THEN c ELSE j
    BY <1>3, <2>1, <2>2
  <2>5. y.p[m] = IF m = n THEN c ELSE IF m = c THEN q ELSE IF m = b THEN n ELSE z
    BY <1>3, <2>1, <2>2
  <2>6. y.p[n] = c /\ y.p[c] = q /\ (b # Nil => y.p[b] = n)
    BY <1>2, <1>3
  <2>7. \A k \in Ref : k \notin {n, c, b} => y.p[k] = x.p[k]
    BY <1>3
  <2>8. x.p[n] = q /\ x.l[c] = b /\ x.r[n] = c /\ (q # Nil => n \in {x.l[q], x.r[q]} /\ x.l[q] # x.r[q])
    BY <1>1, <1>2 DEF Shape
  <2>9. y.l[m] # Nil => y.p[y.l[m]] = m
    <3>1. m # c /\ ~(m = q /\ i = n) /\ i # Nil => i \notin {n, c, b}
      BY <1>2, <2>1, <2>2, <2>8
    <3> QED
      BY <1>2, <2>2, <2>3, <2>6, <2>7, <3>1
  <2>10. y.r[m] # Nil => y.p[y.r[m]] = m
    <3>1. m # n /\ ~(m = q /\ i # n) /\ j # Nil => j \notin {n, c, b}
      BY <1>2, <2>1, <2>2, <2>8
    <3>2. m = q /\ i # n => q # Nil
      BY <2>2
    <3> QED
      BY <1>2, <2>2, <2>4, <2>6, <2>7, <3>1
  <2>11. y.l[m] # Nil => y.l[m] # y.r[m]
    BY <1>2, <2>1, <2>2, <2>3, <2>4, <2>8
  <2>12. y.p[m] # Nil => m \in {y.l[y.p[m]], y.r[y.p[m]]}
    <3>1. CASE m = n
      BY <1>2, <1>3, <2>5, <3>1
    <3>2. CASE m = c
      BY <1>2, <1>3, <2>5, <2>8, <3>2
    <3>3. CASE m = b
      BY <1>2, <1>3, <2>2, <2>5, <3>3
    <3>4. CASE m \notin {n, c, b}
      <4>1. y.p[m] = z
        BY <2>5, <3>4
      <4>2. z # Nil => y.l[z] = x.l[z] \/ (z = c /\ x.l[z] = b) \/ (x.l[z] = n)
        BY <1>3, <2>2, <2>8
      <4>3. z # Nil => y.r[z] = x.r[z] \/ (z = n /\ x.r[z] = c) \/ (z = q /\ x.l[z] # n)
        BY <1>3, <2>2, <2>8
      <4> QED
        BY <2>2, <2>8, <3>4, <4>1, <4>2, <4>3
    <3> QED
      BY <3>1, <3>2, <3>3, <3>4
  <2> QED
    BY <2>9, <2>10, <2>11, <2>12
<1> QED
  BY <1>3, <1>4, <1>5 DEF Shape

(* Depths for the turned tree: the child that comes up takes the place of  *)
(* n.                                                                      *)
TurnDepth(x, d, n) == [m \in Ref |-> IF m = x.r[n] THEN 2 * d[n] ELSE 2 * d[m] + 1]

LEMMA TurnKeepsDeep ==
    ASSUME NEW S \in SUBSET Node, NEW x, NEW y, NEW d, Shape(x, S), Deep(x, d),
           NEW n \in Node, x.r[n] # Nil, Turned(x, y, n)
    PROVE  Deep(y, TurnDepth(x, d, n))
<1>1. PICK c, q, b : c = x.r[n] /\ q = x.p[n] /\ b = x.l[c]
  OBVIOUS
<1>2. PICK e : e = [m \in Ref |-> IF m = c THEN 2 * d[n] ELSE 2 * d[m] + 1]
  OBVIOUS
<1>3. /\ c \in Ref /\ n \in Ref /\ Node \subseteq Ref /\ c # Nil /\ n # Nil /\ x.p[c] = n
      /\ d \in [Ref -> Nat] /\ d[n] < d[c] /\ x \in Tree /\ c \in Node
      /\ (b # Nil => x.p[b] = c) /\ b # n /\ b # c /\ n # c
  BY <1>1, TreeAssumption DEF Shape, Deep, Tree, Ref
<1>4. e \in [Ref -> Nat]
  BY <1>2, <1>3
<1>5. ASSUME NEW m \in Node, y.p[m] # Nil
      PROVE  e[y.p[m]] < e[m]
  <2>1. PICK z : z = x.p[m]
    OBVIOUS
  <2>2. /\ m \in Ref /\ z \in Ref /\ m # Nil /\ d[m] \in Nat /\ d[n] \in Nat /\ d[c] \in Nat
        /\ d[z] \in Nat /\ (z # Nil => d[z] < d[m])
    BY <1>3, <2>1, TreeAssumption DEF Deep, Tree, Ref
  <2>3. y.p[m] = IF m = n THEN c ELSE IF m = c THEN q ELSE IF m = b THEN n ELSE z
    BY <1>1, <2>1, <2>2 DEF Turned
  <2>4. e[c] = 2 * d[n] /\ e[n] = 2 * d[n] + 1
    BY <1>2, <1>3
  <2>5. \A k \in Ref : k # c => e[k] = 2 * d[k] + 1
    BY <1>2
  <2>6. CASE m = n
    BY <1>3, <2>2, <2>3, <2>4, <2>6
  <2>7. CASE m = c
    <3>1. q # Nil /\ q \in Ref /\ d[q] \in Nat /\ d[q] < d[n] /\ q # c
      BY <1>1, <1>3, <1>5, <2>2, <2>3, <2>7 DEF Deep, Tree
    <3> QED
      BY <1>3, <2>2, <2>3, <2>4, <2>5, <2>7, <3>1
  <2>8. CASE m = b
    <3>1. d[c] < d[m]
      BY <1>3, <2>1, <2>2, <2>8
    <3> QED
      BY <1>3, <2>2, <2>3, <2>4, <2>5, <2>8, <3>1
  <2>9. CASE m \notin {n, c, b}
    <3>1. CASE z = c
      BY <1>3, <1>5, <2>2, <2>3, <2>4, <2>5, <2>9, <3>1
    <3>2. CASE z # c
      BY <1>3, <1>5, <2>2, <2>3, <2>4, <2>5, <2>9, <3>2
    <3> QED
      BY <3>1, <3>2
  <2> QED
    BY <2>6, <2>7, <2>8, <2>9
<1> QED
  BY <1>1, <1>2, <1>4, <1>5 DEF Deep, TurnDepth

(* Black heights. h[n] counts the black nodes on every path from n down; a *)
(* node that is being removed (gone) no longer counts, and the subtree of  *)
(* low is short of one black node.                                         *)
Weight(x, n, gone) == IF n \in x.red \/ n = gone THEN 0 ELSE 1

Height(h, low, n) == IF n = low /\ n # Nil THEN h[n] + 1 ELSE h[n]

Level(x, h, low, gone, n) ==
    /\ Height(h, low, x.l[n]) = Height(h, low, x.r[n])
    /\ h[n] = Height(h, low, x.l[n]) + Weight(x, n, gone)

Levels(x, S, h, low, gone) ==
    /\ h \in [Ref -> Nat] /\ h[Nil] = 0
    /\ \A n \in S : Level(x, h, low, gone, n)

(* A turn keeps the heights, given those of the two nodes that turn.       *)
LEMMA TurnKeepsLevels ==
    ASSUME NEW S \in SUBSET Node, NEW x, NEW y, NEW d, Shape(x, S), Deep(x, d),
           NEW n \in Node, NEW c, c = x.r[n], c # Nil, Turned(x, y, n),
           NEW h \in [Ref -> Nat], h[Nil] = 0, NEW low, NEW gone, low \notin {n, c},
           \A m \in S \ {n, c} : Level(x, h, low, gone, m),
           NEW a \in Nat, Height(h, low, x.l[n]) = Height(h, low, x.l[c]),
           a = Height(h, low, x.l[n]) + Weight(x, n, gone),
           a = Height(h, low, x.r[c]), h[n] = a + Weight(x, c, gone)
    PROVE  Levels(y, S, [h EXCEPT ![n] = a, ![c] = h[n]], low, gone)
<1>1. PICK q, b, f : q = x.p[n] /\ b = x.l[c] /\ f = [h EXCEPT ![n] = a, ![c] = h[n]]
  OBVIOUS
<1>2. /\ c \in Node /\ c \in Ref /\ n \in Ref /\ n # c /\ n # Nil /\ x.p[c] = n
      /\ q # n /\ q # c /\ b # n /\ b # c /\ x \in Tree /\ x.p[n] = q
      /\ S \subseteq Ref /\ n \in S /\ c \in S /\ Nil \in Ref /\ Nil \notin S
      /\ x.l[n] # n /\ x.l[n] # c /\ x.r[c] # n /\ x.r[c] # c
  BY <1>1, TreeAssumption DEF Shape, Deep, Tree, Ref
<1>3. /\ f \in [Ref -> Nat] /\ f[Nil] = 0 /\ f[n] = a /\ f[c] = h[n]
      /\ \A m \in Ref : m \notin {n, c} => f[m] = h[m]
  BY <1>1, <1>2
<1>4. \A m \in Ref : Weight(y, m, gone) = Weight(x, m, gone)
  BY DEF Turned, Weight
<1>5. \A m \in Ref : m \notin {n, c} => Height(f, low, m) = Height(h, low, m)
  BY <1>3 DEF Height
<1>6. Height(f, low, c) = h[n] /\ Height(h, low, n) = h[n] /\ Height(f, low, n) = a
  BY <1>2, <1>3 DEF Height
<1>7. /\ \A m \in Ref : y.l[m] = IF m = c THEN n
                               ELSE IF m = q /\ m # Nil /\ x.l[m] = n THEN c ELSE x.l[m]
      /\ \A m \in Ref : y.r[m] = IF m = n THEN b
                               ELSE IF m = q /\ m # Nil /\ x.l[m] # n THEN c ELSE x.r[m]
  BY <1>1 DEF Turned
<1>8. ASSUME NEW m \in S
      PROVE  Level(y, f, low, gone, m)
  <2>1. CASE m = n
    <3>1. y.l[n] = x.l[n] /\ y.r[n] = b
      BY <1>2, <1>7
    <3>2. Height(f, low, x.l[n]) = Height(h, low, x.l[n]) /\ Height(f, low, b) = Height(h, low, b)
      BY <1>1, <1>2, <1>5 DEF Tree
    <3>3. Height(f, low, y.l[n]) = Height(h, low, x.l[n]) /\ Height(f, low, y.r[n]) = Height(h, low, b)
      BY <3>1, <3>2
    <3>4. f[n] = a /\ Weight(y, n, gone) = Weight(x, n, gone)
      BY <1>2, <1>3, <1>4
    <3>5. Level(y, f, low, gone, n)
      BY <1>1, <3>3, <3>4 DEF Level
    <3> QED
      BY <2>1, <3>5
  <2>2. CASE m = c
    <3>1. y.l[c] = n /\ y.r[c] = x.r[c]
      BY <1>2, <1>7
    <3>2. Height(f, low, x.r[c]) = Height(h, low, x.r[c])
      BY <1>2, <1>5 DEF Tree
    <3> QED
      BY <1>2, <1>3, <1>4, <1>6, <2>2, <3>1, <3>2 DEF Level
  <2>3. CASE m \notin {n, c}
    <3>1. PICK i, j : i = x.l[m] /\ j = x.r[m]
      OBVIOUS
    <3>2. /\ m \in Ref /\ m # Nil /\ i \in Ref /\ j \in Ref /\ i # c /\ j # c
          /\ (i = n => m = q) /\ (j = n => m = q /\ i # n)
      BY <1>2, <2>3, <3>1, TreeAssumption DEF Shape, Tree, Ref
    <3>3. m = q => n \in {i, j}
      BY <1>2, <3>1, <3>2 DEF Shape
    <3>4. y.l[m] = IF i = n THEN c ELSE i
      BY <1>7, <2>3, <3>1, <3>2
    <3>5. y.r[m] = IF j = n THEN c ELSE j
      BY <1>7, <2>3, <3>1, <3>2, <3>3
    <3>6. Height(f, low, y.l[m]) = Height(h, low, i)
      BY <1>5, <1>6, <3>2, <3>4
    <3>7. Height(f, low, y.r[m]) = Height(h, low, j)
      BY <1>5, <1>6, <3>2, <3>5
    <3>8. Level(x, h, low, gone, m)
      BY <2>3
    <3> QED
      BY <1>3, <1>4, <2>3, <3>1, <3>2, <3>6, <3>7, <3>8 DEF Level
  <2> QED
    BY <2>1, <2>2, <2>3
<1> QED
  BY <1>1, <1>3, <1>8 DEF Levels

(* The operators on the mirror image do the mirror image of what they do.  *)
LEMMA MirrorSetParent ==
    ASSUME NEW x \in Tree, NEW n \in Ref, NEW m \in Ref
    PROVE  SetParent(Mirror(x), n, m) = Mirror(SetParent(x, n, m))
  BY DEF SetParent, Mirror, Tree

(* The two assignments to a link to a child.                               *)
SetLeft(x, n, m) == [x EXCEPT !.l[n] = m]
SetRight(x, n, m) == [x EXCEPT !.r[n] = m]

LEMMA MirrorSetLink ==
    ASSUME NEW x \in Tree, NEW n \in Ref, NEW m \in Ref
    PROVE  /\ SetRight(Mirror(x), n, m) = Mirror(SetLeft(x, n, m))
           /\ SetLeft(Mirror(x), n, m) = Mirror(SetRight(x, n, m))
  BY DEF Mirror, Tree, SetLeft, SetRight

LEMMA MirrorRelink ==
    ASSUME NEW x \in Tree, NEW n \in Ref, NEW m \in Ref,
           x.p[n] # Nil => (n = x.l[x.p[n]] <=> n # x.r[x.p[n]])
    PROVE  Relink(Mirror(x), n, m) = Mirror(Relink(x, n, m))
<1>1. CASE x.p[n] = Nil
  BY <1>1 DEF Relink, Mirror, Tree
<1>2. CASE x.p[n] # Nil /\ n = x.l[x.p[n]]
  BY <1>2 DEF Relink, Mirror, Tree
<1>3. CASE x.p[n] # Nil /\ n # x.l[x.p[n]]
  BY <1>3 DEF Relink, Mirror, Tree
<1> QED
  BY <1>1, <1>2, <1>3

(* RotateRight is a turn of the mirror image.                              *)
LEMMA RightTurns ==
    ASSUME NEW S \in SUBSET Node, NEW x, NEW d, Shape(x, S), Deep(x, d),
           NEW n \in Node, x.l[n] # Nil
    PROVE  RotateRight(x, n) \in Tree /\ Turned(Mirror(x), Mirror(RotateRight(x, n)), n)
<1>1. PICK c, q, b : c = x.l[n] /\ q = x.p[n] /\ b = x.r[c]
  OBVIOUS
<1>2. /\ x \in Tree /\ c \in Node /\ q \in Ref /\ b \in Ref /\ n \in Ref /\ c \in Ref
      /\ n # Nil /\ c # Nil /\ x.p[c] = n /\ n # c /\ q # n /\ q # c /\ b # c /\ b # n
      /\ (q # Nil => (n = x.l[q] <=> n # x.r[q]))
  BY <1>1, TreeAssumption DEF Shape, Deep, Tree, Ref
<1>3. PICK x0 : x0 = SetLeft(x, n, b) /\ LeftIs(x, x0, n, b)
  BY <1>2, ChildGives DEF SetLeft
<1>4. PICK x1 : x1 = SetParent(x0, b, n) /\ ParentIs(x0, x1, b, n)
  BY <1>2, <1>3, SetParentGives DEF LeftIs
<1>5. x1.p[n] = q
  <2>1. x0.p = x.p
    BY <1>3 DEF LeftIs
  <2>2. x1.p[n] = x0.p[n]
    BY <1>2, <1>4 DEF ParentIs
  <2> QED
    BY <1>1, <2>1, <2>2
<1>6. PICK x2 : x2 = SetParent(x1, c, q) /\ ParentIs(x1, x2, c, q)
  <2>1. x1 \in Tree
    BY <1>4 DEF ParentIs
  <2> QED
    BY <1>2, <2>1, SetParentGives
<1>7. x2.p[n] = q
  BY <1>2, <1>5, <1>6 DEF ParentIs
<1>8. PICK x3 : x3 = Relink(x2, n, c) /\ LinkIs(x2, x3, n, c)
  BY <1>2, <1>6, RelinkGives DEF ParentIs
<1>9. PICK x4 : x4 = SetRight(x3, c, n) /\ RightIs(x3, x4, c, n)
  BY <1>2, <1>8, ChildGives DEF LinkIs, SetRight
<1>10. RotateRight(x, n) = SetParent(x4, n, c)
  BY <1>1, <1>3, <1>4, <1>5, <1>6, <1>8, <1>9, Zenon DEF RotateRight, SetLeft, SetRight
<1>11. x0 \in Tree /\ x1 \in Tree /\ x2 \in Tree /\ x3 \in Tree /\ x4 \in Tree
  BY <1>3, <1>4, <1>6, <1>8, <1>9 DEF LeftIs, RightIs, ParentIs, LinkIs
<1>12. x2.l = x0.l /\ x2.r = x.r
  BY <1>3, <1>4, <1>6 DEF LeftIs, ParentIs
<1>13. q # Nil => x2.l[q] = x.l[q]
  BY <1>2, <1>3, <1>12 DEF LeftIs
<1>14. SetRight(Mirror(x), n, b) = Mirror(x0)
  BY <1>2, <1>3, MirrorSetLink
<1>15. SetParent(Mirror(x0), b, n) = Mirror(x1)
  BY <1>2, <1>4, <1>11, MirrorSetParent
<1>16. SetParent(Mirror(x1), c, q) = Mirror(x2)
  BY <1>2, <1>6, <1>11, MirrorSetParent
<1>17. Relink(Mirror(x2), n, c) = Mirror(x3)
  BY <1>2, <1>7, <1>8, <1>11, <1>12, <1>13, MirrorRelink
<1>18. SetLeft(Mirror(x3), c, n) = Mirror(x4)
  BY <1>2, <1>9, <1>11, MirrorSetLink
<1>19. SetParent(Mirror(x4), n, c) = Mirror(RotateRight(x, n))
  BY <1>2, <1>10, <1>11, MirrorSetParent
<1>20. Shape(Mirror(x), S) /\ Deep(Mirror(x), d) /\ Mirror(x).r[n] # Nil
  BY <1>2, <1>11, MirrorShape
<1>21. RotateLeft(Mirror(x), n) = Mirror(RotateRight(x, n))
  <2>1. Mirror(x).r[n] = c /\ Mirror(x).l[c] = b /\ Mirror(x1).p[n] = q
    BY <1>1, <1>5 DEF Mirror
  <2>2. PICK z : z = Mirror(x)
    OBVIOUS
  <2>3. PICK z1 : z1 = SetParent(SetRight(z, n, b), b, n)
    OBVIOUS
  <2>4. z1 = Mirror(x1)
    BY <1>14, <1>15, <2>2, <2>3
  <2>5. z.r[n] = c /\ z.l[c] = b /\ z1.p[n] = q
    BY <2>1, <2>2, <2>4
  <2>6. RotateLeft(z, n) = SetParent(SetLeft(Relink(SetParent(z1, c, q), n, c), c, n), n, c)
    BY <2>3, <2>5, Zenon DEF RotateLeft, SetLeft, SetRight
  <2> QED
    BY <1>16, <1>17, <1>18, <1>19, <2>2, <2>4, <2>6, Zenon
<1>22. RotateRight(x, n) \in Tree
  BY <1>2, <1>10, <1>11, SetParentGives DEF ParentIs
<1> QED
  BY <1>20, <1>21, <1>22, LeftTurns

(* The same links, other colours.                                          *)
Repainted(x, z, R) ==
    /\ z \in Tree
    /\ z.root = x.root /\ z.l = x.l /\ z.r = x.r /\ z.p = x.p
    /\ z.red = R

LEMMA PaintGives ==
    ASSUME NEW x \in Tree, NEW n \in Ref, NEW b \in BOOLEAN
    PROVE  Repainted(x, Paint(x, n, b), IF b THEN x.red \cup {n} ELSE x.red \ {n})
  BY DEF Paint, Tree, Repainted

(* Colours do not matter to the links.                                     *)
LEMMA SameShape ==
    ASSUME NEW x, NEW z, NEW S, NEW d, NEW R, Repainted(x, z, R), Shape(x, S), Deep(x, d),
           Nil \notin R
    PROVE  Shape(z, S) /\ Deep(z, d)
  BY DEF Repainted, Shape, Deep

(* Who is who around a node with a parent, and around one with a child.    *)
Kindred(x, S, d, n) ==
    /\ n \in S /\ x.p[n] \in S /\ x.p[n] # n
    /\ d[x.p[n]] \in Nat /\ d[n] \in Nat /\ d[x.p[n]] < d[n]
    /\ x.l[x.p[n]] # x.r[x.p[n]]
    /\ IsLeft(x, n) => n = x.l[x.p[n]] /\ Sib(x, n) = x.r[x.p[n]]
    /\ ~ IsLeft(x, n) => n = x.r[x.p[n]] /\ Sib(x, n) = x.l[x.p[n]]

Begets(x, S, d, n, m) ==
    /\ m \in S /\ n \in S /\ x.p[m] = n /\ m # n /\ n # Nil
    /\ d[n] \in Nat /\ d[m] \in Nat /\ d[n] < d[m]
    /\ x.l[n] # x.r[n]

Family(x, S, d) ==
    \A n \in Ref : /\ x.p[n] # Nil => Kindred(x, S, d, n)
                   /\ x.l[n] # Nil => Begets(x, S, d, n, x.l[n])
                   /\ x.r[n] # Nil => Begets(x, S, d, n, x.r[n])

(* The links of a tree, as the steps of the code use them.                 *)
LEMMA Kin ==
    ASSUME NEW S \in SUBSET Node, NEW x, NEW d, Shape(x, S), Deep(x, d)
    PROVE  Family(x, S, d)
<1>1. ASSUME NEW n \in Ref, x.p[n] # Nil
      PROVE  Kindred(x, S, d, n)
  <2>1. PICK p : p = x.p[n]
    OBVIOUS
  <2>2. n \in Node /\ p \in Node
    BY <1>1, <2>1, TreeAssumption DEF Shape, Tree, Ref
  <2>3. n \in {x.l[p], x.r[p]} /\ x.l[p] # x.r[p]
    BY <1>1, <2>1, <2>2 DEF Shape
  <2>4. n \in S /\ p \in S
    BY <1>1, <2>1, <2>2, <2>3, TreeAssumption DEF Shape
  <2>5. d[p] \in Nat /\ d[n] \in Nat /\ d[p] < d[n] /\ p # n
    BY <1>1, <2>1, <2>2 DEF Deep, Ref
  <2> QED
    BY <2>1, <2>3, <2>4, <2>5 DEF IsLeft, Sib, Kindred
<1>2. ASSUME NEW n \in Ref, NEW m, m # Nil, m = x.l[n] \/ m = x.r[n]
      PROVE  Begets(x, S, d, n, m)
  <2>1. n \in Node /\ m \in Node /\ n # Nil
    BY <1>2, TreeAssumption DEF Shape, Tree, Ref
  <2>2. x.p[m] = n /\ x.l[n] # x.r[n] /\ m \in Ref
    BY <1>2, <2>1 DEF Shape, Ref
  <2>3. Kindred(x, S, d, m)
    BY <1>1, <2>1, <2>2
  <2> QED
    BY <2>1, <2>2, <2>3 DEF Kindred, Begets
<1> QED
  BY <1>1, <1>2 DEF Family

(* Red nodes while an insertion is made good: only c may have a red        *)
(* parent.                                                                 *)
RedFix(x, c) ==
    /\ \A n \in x.red : x.p[n] \in x.red => n = c
    /\ x.root \in x.red => x.root = c

(* A tree that is good but at c, and a good tree when c is Nil.            *)
Fixing(x, S, c) ==
    \E d, h : Shape(x, S) /\ Deep(x, d) /\ Levels(x, S, h, Nil, Nil) /\ RedFix(x, c)

(* Red nodes while g is removed: g has at most one child, and only g       *)
(* stands between two red nodes.                                           *)
RedCut(x, g, c) ==
    /\ \A n \in x.red : x.p[n] \in x.red => x.p[n] = g \/ (n = g /\ g = c)
    /\ \A n \in x.red : x.p[n] = g => g \in x.red
    /\ x.root \in x.red => x.root = g
    /\ x.l[g] = Nil \/ x.r[g] = Nil
    /\ c # g => c \notin x.red

(* The node that is being removed lies under the place that is short of a  *)
(* black node.                                                             *)
Path(x, S, d, B, c, g) ==
    /\ B \subseteq S /\ c \in B /\ g \in B
    /\ \A n \in B : (n = c \/ x.p[n] \in B) /\ d[c] <= d[n]

(* A tree from which g is to be taken away, short of a black node under c, *)
(* or nowhere when c is Nil.                                               *)
Removing(x, S, g, c) ==
    \E d, h : /\ Shape(x, S) /\ Deep(x, d) /\ Levels(x, S, h, c, g) /\ RedCut(x, g, c)
              /\ c # Nil => \E B : Path(x, S, d, B, c, g)

(* A node and its parent, both red and on the same side, under a black     *)
(* uncle.                                                                  *)
Outer(x, c) ==
    LET p == x.p[c]
        g == x.p[p]
    IN  /\ p \in x.red /\ g # Nil
        /\ \/ c = x.l[p] /\ p = x.l[g] /\ x.r[g] \notin x.red
           \/ c = x.r[p] /\ p = x.r[g] /\ x.l[g] \notin x.red

(* What is known of the neighbours of the node whose subtree is short of a *)
(* black node, once its sibling is black.                                  *)
Near(x, c) ==
    /\ x.p[c] # Nil
    /\ \A i \in {x.l[x.p[c]], x.r[x.p[c]]} : i = c \/ i \notin x.red

(* The far child of the sibling is red.                                    *)
Far(x, c) ==
    LET p == x.p[c]
    IN  \/ c = x.l[p] /\ x.r[x.r[p]] \in x.red
        \/ c = x.r[p] /\ x.l[x.l[p]] \in x.red

(* All of this holds of a tree if it holds of the mirror image.            *)
LEMMA MirrorSame ==
    ASSUME NEW x \in Tree, NEW S, NEW c, NEW g
    PROVE  /\ Fixing(Mirror(x), S, c) <=> Fixing(x, S, c)
           /\ Removing(Mirror(x), S, g, c) <=> Removing(x, S, g, c)
           /\ Outer(Mirror(x), c) <=> Outer(x, c)
           /\ Near(Mirror(x), c) <=> Near(x, c)
           /\ Far(Mirror(x), c) <=> Far(x, c)
<1>1. /\ Mirror(x).root = x.root /\ Mirror(x).l = x.r /\ Mirror(x).r = x.l
      /\ Mirror(x).p = x.p /\ Mirror(x).red = x.red
      /\ Shape(Mirror(x), S) <=> Shape(x, S)
      /\ \A d : Deep(Mirror(x), d) <=> Deep(x, d)
  BY MirrorShape
<1>2. \A h, low, gone : Levels(Mirror(x), S, h, low, gone) <=> Levels(x, S, h, low, gone)
  <2>1. ASSUME NEW h, NEW low, NEW gone, NEW n
        PROVE  Level(Mirror(x), h, low, gone, n) <=> Level(x, h, low, gone, n)
    BY <1>1 DEF Level, Weight
  <2> QED
    BY <2>1 DEF Levels
<1>3. RedFix(Mirror(x), c) <=> RedFix(x, c)
  BY <1>1 DEF RedFix
<1>4. RedCut(Mirror(x), g, c) <=> RedCut(x, g, c)
  BY <1>1 DEF RedCut
<1>5. \A d, B : Path(Mirror(x), S, d, B, c, g) <=> Path(x, S, d, B, c, g)
  BY <1>1 DEF Path
<1>6. /\ Outer(Mirror(x), c) <=> Outer(x, c)
      /\ Near(Mirror(x), c) <=> Near(x, c)
      /\ Far(Mirror(x), c) <=> Far(x, c)
  BY <1>1 DEF Outer, Near, Far
<1> QED
  BY <1>1, <1>2, <1>3, <1>4, <1>5, <1>6 DEF Fixing, Removing

LEMMA MirrorRepainted ==
    ASSUME NEW x \in Tree, NEW z \in Tree, NEW R, Repainted(x, z, R)
    PROVE  Repainted(Mirror(x), Mirror(z), R)
  BY DEF Repainted, Mirror, Tree

(* A red uncle: the grandparent turns red, and its parent is in question.  *)
LEMMA RecolourFixes ==
    ASSUME NEW S \in SUBSET Node, NEW x, NEW c, Fixing(x, S, c), c \in S, c \in x.red,
           NEW p, p = x.p[c], p \in x.red, NEW u, u = Sib(x, p), u \in x.red,
           NEW g, g = x.p[p], NEW z, Repainted(x, z, ((x.red \ {u}) \ {p}) \cup {g})
    PROVE  Fixing(z, S, g) /\ g \in S /\ g \in z.red
<1>1. PICK d, h : Shape(x, S) /\ Deep(x, d) /\ Levels(x, S, h, Nil, Nil) /\ RedFix(x, c)
  BY DEF Fixing
<1>0. Family(x, S, d)
  BY <1>1, Kin
<1>2. x \in Tree /\ p \in Ref /\ u \in Ref /\ p # Nil /\ u # Nil /\ Nil \notin x.red /\ c \in Ref
  BY <1>1 DEF Shape, Tree, Ref
<1>3. c \in S /\ p \in S /\ p # c
  <2>1. Kindred(x, S, d, c)
    BY <1>0, <1>2 DEF Family
  <2> QED
    BY <1>2, <2>1 DEF Kindred
<1>4. p # x.root
  BY <1>1, <1>3 DEF RedFix
<1>5. g # Nil /\ g \in Ref
  BY <1>1, <1>2, <1>3, <1>4 DEF Shape, Tree
<1>6. /\ g \in S /\ g # p /\ p # u /\ p \in {x.l[g], x.r[g]} /\ u \in {x.l[g], x.r[g]}
  <2>1. Kindred(x, S, d, p)
    BY <1>0, <1>2, <1>5 DEF Family
  <2> QED
    BY <1>2, <2>1 DEF Kindred
<1>7. x.p[u] = g /\ u \in S /\ u # g
  <2>1. Begets(x, S, d, g, u)
    BY <1>0, <1>2, <1>5, <1>6 DEF Family
  <2> QED
    BY <2>1 DEF Begets
<1>8. g \notin x.red
  BY <1>1, <1>3 DEF RedFix
<1>9. Shape(z, S) /\ Deep(z, d)
  BY <1>1, <1>2, <1>5, SameShape
<1>16. z.red = ((x.red \ {u}) \ {p}) \cup {g}
  BY DEF Repainted
<1>10. PICK k, f : /\ k \in Nat /\ h[p] = k /\ f = [h EXCEPT ![u] = k + 1, ![p] = k + 1]
  BY <1>1, <1>2 DEF Levels
<1>11. h \in [Ref -> Nat] /\ h[Nil] = 0 /\ Nil \in Ref /\ S \subseteq Ref
  BY <1>1 DEF Levels, Ref
<1>12. /\ f \in [Ref -> Nat] /\ f[Nil] = 0 /\ f[p] = k + 1 /\ f[u] = k + 1
       /\ \A m \in Ref : m \notin {p, u} => f[m] = h[m]
  BY <1>2, <1>6, <1>10, <1>11
<1>13. \A m \in Ref : Height(h, Nil, m) = h[m] /\ Height(f, Nil, m) = f[m]
  BY DEF Height
<1>14. ASSUME NEW m \in S
       PROVE  Level(z, f, Nil, Nil, m)
  <2>1. PICK i, j : i = x.l[m] /\ j = x.r[m]
    OBVIOUS
  <2>2. /\ m \in Ref /\ i \in Ref /\ j \in Ref /\ m # Nil
        /\ h[i] = h[j] /\ h[m] = h[i] + (IF m \in x.red THEN 0 ELSE 1)
    BY <1>1, <1>2, <1>11, <1>13, <2>1, TreeAssumption DEF Levels, Level, Weight, Tree
  <2>3. m # g => i \notin {p, u} /\ j \notin {p, u}
    <3>1. (i # Nil => Begets(x, S, d, m, i)) /\ (j # Nil => Begets(x, S, d, m, j))
      BY <1>0, <2>1, <2>2 DEF Family
    <3> QED
      BY <1>2, <1>7, <3>1 DEF Begets
  <2>4. f[i] = f[j] /\ f[m] = f[i] + (IF m \in z.red THEN 0 ELSE 1)
    <3>1. CASE m = g
      <4>1. h[u] = k
        BY <1>6, <1>10, <2>1, <2>2, <3>1
      <4>2. f[i] = k + 1 /\ f[j] = k + 1 /\ h[g] = k + 1
        <5>1. i \in {p, u} /\ j \in {p, u}
          BY <1>6, <2>1, <3>1
        <5>2. f[i] = k + 1 /\ f[j] = k + 1
          BY <1>12, <5>1
        <5>3. h[i] = k
          BY <1>10, <4>1, <5>1
        <5>4. h[g] = h[i] + 1
          BY <1>8, <2>2, <3>1
        <5> QED
          BY <5>2, <5>3, <5>4
      <4> QED
        BY <1>5, <1>6, <1>7, <1>12, <1>16, <3>1, <4>2
    <3>2. CASE m \in {p, u}
      <4>1. m \notin z.red /\ m \in x.red /\ m # g
        BY <1>6, <1>7, <1>16, <3>2
      <4>2. h[u] = k
        <5>1. h[x.l[g]] = h[x.r[g]]
          BY <1>1, <1>2, <1>6, <1>13 DEF Levels, Level, Tree
        <5> QED
          BY <1>6, <1>10, <5>1
      <4> QED
        BY <1>10, <1>11, <1>12, <2>2, <2>3, <3>2, <4>1, <4>2
    <3>3. CASE m \notin {g, p, u}
      BY <1>11, <1>12, <1>16, <2>2, <2>3, <3>3
    <3> QED
      BY <3>1, <3>2, <3>3
  <2> QED
    BY <1>13, <2>1, <2>2, <2>4, TreeAssumption DEF Level, Weight, Repainted
<1>15. RedFix(z, g)
  <2>1. ASSUME NEW m \in z.red, x.p[m] \in z.red, m # g
        PROVE  FALSE
    <3>1. m \in x.red /\ m \notin {p, u}
      BY <1>16, <2>1
    <3>2. m \in Ref /\ x.p[m] # Nil
      BY <1>2, <1>9, <2>1, <3>1 DEF Tree, Shape
    <3>3. CASE x.p[m] = g
      <4>1. Kindred(x, S, d, m)
        BY <1>0, <3>2 DEF Family
      <4> QED
        BY <1>6, <3>1, <3>3, <4>1 DEF Kindred
    <3>4. CASE x.p[m] # g
      <4>1. m = c
        BY <1>1, <1>16, <2>1, <3>1, <3>4 DEF RedFix
      <4> QED
        BY <1>6, <1>16, <2>1, <3>4, <4>1
    <3> QED
      BY <3>3, <3>4
  <2>2. ASSUME x.root \in z.red, x.root # g
        PROVE  FALSE
    <3>1. x.root = c
      BY <1>1, <1>16, <2>2 DEF RedFix
    <3> QED
      BY <1>1, <1>2, <3>1, TreeAssumption DEF Shape
  <2> QED
    BY <2>1, <2>2 DEF RedFix, Repainted
<1> QED
  BY <1>6, <1>9, <1>12, <1>14, <1>15, <1>16 DEF Levels, Fixing

(* Turned, with the names of the nodes it is about.                        *)
Turns(x, y, S, n, c, b, q) ==
    /\ y \in Tree /\ y.red = x.red
    /\ y.p[n] = c /\ y.p[c] = q /\ (b # Nil => y.p[b] = n)
    /\ \A m \in Ref : m \notin {n, c, b} => y.p[m] = x.p[m]
    /\ y.l[c] = n /\ y.r[c] = x.r[c] /\ y.l[n] = x.l[n] /\ y.r[n] = b
    /\ \A m \in Ref : m \notin {n, c, q} => y.l[m] = x.l[m] /\ y.r[m] = x.r[m]
    /\ q # Nil => /\ y.l[q] = IF x.l[q] = n THEN c ELSE x.l[q]
                  /\ y.r[q] = IF x.r[q] = n THEN c ELSE x.r[q]
    /\ q = Nil => y.root = c
    /\ q # Nil => y.root = x.root /\ x.root # n
    /\ b # n /\ b # c /\ q # n /\ q # c /\ n # c
    /\ b # Nil => b \in S /\ x.p[b] = c
    /\ c \in S /\ x.p[c] = n

(* A turn of the links, said of the nodes it is about.                     *)
LEMMA TurnGives ==
    ASSUME NEW S \in SUBSET Node, NEW x, NEW y, NEW d, Shape(x, S), Deep(x, d),
           NEW n \in Node, x.r[n] # Nil, Turned(x, y, n)
    PROVE  Turns(x, y, S, n, x.r[n], x.l[x.r[n]], x.p[n])
<1>0. PICK c, b, q : c = x.r[n] /\ b = x.l[c] /\ q = x.p[n]
  OBVIOUS
<1>1. Family(x, S, d)
  BY Kin
<1>2. x \in Tree /\ c # Nil /\ c \in Ref /\ n \in Ref /\ q \in Ref /\ b \in Ref /\ n # Nil /\ Nil \notin Node
  BY <1>0, TreeAssumption DEF Shape, Tree, Ref
<1>3. Begets(x, S, d, n, c) /\ (b # Nil => Begets(x, S, d, c, b)) /\ (q # Nil => Kindred(x, S, d, n))
  BY <1>0, <1>1, <1>2 DEF Family
<1>4. /\ c \in S /\ c # n /\ x.p[c] = n /\ b # c /\ (b # Nil => b \in S /\ x.p[b] = c)
      /\ q # n /\ b # n /\ q # c
  BY <1>0, <1>2, <1>3 DEF Begets, Kindred
<1>5. q # Nil => (x.l[q] = n <=> x.r[q] # n) /\ x.root # n
  BY <1>0, <1>2, <1>3 DEF Kindred, IsLeft, Shape
<1>6. /\ y \in Tree /\ y.red = x.red /\ y.root = IF q = Nil THEN c ELSE x.root
      /\ \A m \in Ref : y.l[m] = IF m = c THEN n
                               ELSE IF m = q /\ m # Nil /\ x.l[m] = n THEN c ELSE x.l[m]
      /\ \A m \in Ref : y.r[m] = IF m = n THEN b
                               ELSE IF m = q /\ m # Nil /\ x.l[m] # n THEN c ELSE x.r[m]
      /\ \A m \in Ref : y.p[m] = IF m = n THEN c
                               ELSE IF m = c THEN q
                               ELSE IF m = b /\ m # Nil THEN n ELSE x.p[m]
  BY <1>0 DEF Turned
<1>7. /\ y.p[n] = c /\ y.p[c] = q /\ (b # Nil => y.p[b] = n)
      /\ \A m \in Ref : m \notin {n, c, b} => y.p[m] = x.p[m]
  BY <1>2, <1>4, <1>6
<1>8. /\ y.l[c] = n /\ y.r[c] = x.r[c] /\ y.l[n] = x.l[n] /\ y.r[n] = b
      /\ \A m \in Ref : m \notin {n, c, q} => y.l[m] = x.l[m] /\ y.r[m] = x.r[m]
      /\ q # Nil => /\ y.l[q] = IF x.l[q] = n THEN c ELSE x.l[q]
                    /\ y.r[q] = IF x.r[q] = n THEN c ELSE x.r[q]
  BY <1>2, <1>4, <1>5, <1>6
<1> QED
  BY <1>0, <1>2, <1>4, <1>5, <1>6, <1>7, <1>8 DEF Turns

(* The inner case of an insertion, on the left: the turn at the parent     *)
(* makes it the outer case.                                                *)
LEMMA InnerTurn ==
    ASSUME NEW S \in SUBSET Node, NEW x, NEW g, NEW p, NEW c, Fixing(x, S, c), c \in x.red,
           p \in x.red, g \in S, p = x.l[g], c = x.r[p], x.r[g] \notin x.red,
           NEW y, Turned(x, y, p)
    PROVE  Fixing(y, S, p) /\ p \in S /\ p \in y.red /\ Outer(y, p)
<1>1. PICK d, h : Shape(x, S) /\ Deep(x, d) /\ Levels(x, S, h, Nil, Nil) /\ RedFix(x, c)
  BY DEF Fixing
<1>2. Family(x, S, d)
  BY <1>1, Kin
<1>3. /\ x \in Tree /\ p \in Ref /\ c \in Ref /\ g \in Ref /\ p # Nil /\ c # Nil /\ g # Nil
      /\ Nil \notin x.red /\ S \subseteq Ref
  BY <1>1, TreeAssumption DEF Shape, Tree, Ref
<1>4. Begets(x, S, d, g, p) /\ Begets(x, S, d, p, c)
  BY <1>2, <1>3 DEF Family
<1>5. /\ p \in S /\ c \in S /\ x.p[p] = g /\ x.p[c] = p /\ c # p /\ g # p /\ g # c
      /\ x.r[g] # p
  BY <1>3, <1>4 DEF Begets
<1>6. PICK b : b = x.l[c]
  OBVIOUS
<1>7. /\ y \in Tree /\ y.red = x.red
      /\ y.p[p] = c /\ y.p[c] = g /\ (b # Nil => y.p[b] = p)
      /\ \A m \in Ref : m \notin {p, c, b} => y.p[m] = x.p[m]
      /\ y.l[c] = p /\ y.l[g] = c /\ y.r[g] = x.r[g] /\ y.root = x.root
      /\ b # p /\ b # c /\ (b # Nil => b \in S /\ x.p[b] = c)
  <2>1. Turns(x, y, S, p, c, b, g)
    BY <1>1, <1>3, <1>5, <1>6, TurnGives
  <2> QED
    BY <1>3, <1>5, <2>1 DEF Turns
<1>8. Shape(y, S) /\ Deep(y, TurnDepth(x, d, p))
  <2>1. p \in Node /\ x.r[p] # Nil
    BY <1>3, <1>5
  <2>2. Shape(y, S)
    BY <1>1, <2>1, TurnKeepsShape
  <2>3. Deep(y, TurnDepth(x, d, p))
    BY <1>1, <2>1, TurnKeepsDeep
  <2> QED
    BY <2>2, <2>3
<1>9. PICK k \in Nat : k = h[p]
  BY <1>1, <1>3 DEF Levels
<1>10. /\ h \in [Ref -> Nat] /\ h[Nil] = 0
       /\ \A m \in S : Level(x, h, Nil, Nil, m)
       /\ \A m : Height(h, Nil, m) = h[m]
  BY <1>1 DEF Levels, Height
<1>11. h[x.l[p]] = k /\ h[c] = k /\ h[b] = k /\ h[x.r[c]] = k
  <2>1. Level(x, h, Nil, Nil, p) /\ Level(x, h, Nil, Nil, c)
    BY <1>5, <1>10
  <2>2. h[c] \in Nat /\ h[x.l[p]] \in Nat /\ h[b] \in Nat /\ h[x.r[c]] \in Nat
    BY <1>3, <1>6, <1>10 DEF Tree
  <2>3. Weight(x, p, Nil) = 0 /\ Weight(x, c, Nil) = 0
    BY DEF Weight
  <2>0. /\ Height(h, Nil, x.l[p]) = Height(h, Nil, x.r[p])
        /\ h[p] = Height(h, Nil, x.l[p]) + Weight(x, p, Nil)
        /\ Height(h, Nil, x.l[c]) = Height(h, Nil, x.r[c])
        /\ h[c] = Height(h, Nil, x.l[c]) + Weight(x, c, Nil)
    BY ONLY <2>1, Zenon DEF Level
  <2>4. h[x.l[p]] = h[x.r[p]] /\ h[p] = h[x.l[p]] + 0
    BY ONLY <1>10, <2>0, <2>3, Zenon
  <2>5. h[x.l[c]] = h[x.r[c]] /\ h[c] = h[x.l[c]] + 0
    BY ONLY <1>10, <2>0, <2>3, Zenon
  <2>6. x.r[p] = c /\ x.l[c] = b
    BY <1>6
  <2>7. h[x.l[p]] = k
    BY ONLY <1>9, <2>2, <2>4
  <2>8. h[c] = k
    BY ONLY <2>4, <2>6, <2>7, Zenon
  <2>9. h[b] = k
    BY ONLY <2>2, <2>5, <2>6, <2>8
  <2>10. h[x.r[c]] = k
    BY ONLY <2>5, <2>6, <2>9, Zenon
  <2> QED
    BY <2>7, <2>8, <2>9, <2>10
<1>12. Levels(y, S, [h EXCEPT ![p] = k, ![c] = h[p]], Nil, Nil)
  <2>1. Nil \notin {p, c} /\ Weight(x, p, Nil) = 0 /\ Weight(x, c, Nil) = 0 /\ p \in Node
    BY <1>3, <1>5 DEF Weight
  <2>2. /\ Height(h, Nil, x.l[p]) = Height(h, Nil, x.l[c])
        /\ k = Height(h, Nil, x.l[p]) + Weight(x, p, Nil)
        /\ k = Height(h, Nil, x.r[c]) /\ h[p] = k + Weight(x, c, Nil)
    <3>1. /\ Height(h, Nil, x.l[p]) = k /\ Height(h, Nil, x.l[c]) = k
          /\ Height(h, Nil, x.r[c]) = k
      BY <1>6, <1>10, <1>11
    <3> QED
      BY <1>9, <2>1, <3>1
  <2>3. \A m \in S \ {p, c} : Level(x, h, Nil, Nil, m)
    BY <1>10
  <2>4. /\ Shape(x, S) /\ Deep(x, d) /\ c = x.r[p] /\ c # Nil
        /\ h \in [Ref -> Nat] /\ h[Nil] = 0 /\ k \in Nat
    BY <1>1, <1>3, <1>9, <1>10
  <2> QED
    BY <2>1, <2>2, <2>3, <2>4, TurnKeepsLevels, Zenon
<1>13. RedFix(y, p)
  <2>1. ASSUME NEW m \in y.red, y.p[m] \in y.red, m # p
        PROVE  FALSE
    <3>1. m \in Ref /\ m \in x.red
      BY <1>3, <1>7, <2>1 DEF Tree
    <3>2. CASE m = c
      BY <1>1, <1>3, <1>5, <1>7, <2>1, <3>2 DEF RedFix
    <3>3. CASE m = b
      BY <1>1, <1>3, <1>5, <1>7, <3>1, <3>3 DEF RedFix
    <3>4. CASE m \notin {p, c, b}
      BY <1>1, <1>5, <1>7, <2>1, <3>1, <3>4 DEF RedFix
    <3> QED
      BY <2>1, <3>2, <3>3, <3>4
  <2>2. y.root \in y.red => y.root = p
    BY <1>1, <1>3, <1>5, <1>7 DEF RedFix, Shape
  <2> QED
    BY <2>1, <2>2 DEF RedFix
<1>14. Outer(y, p)
  BY <1>3, <1>7 DEF Outer
<1> QED
  BY <1>5, <1>7, <1>8, <1>12, <1>13, <1>14 DEF Fixing

(* The outer case of an insertion, on the right: the colours exchanged and *)
(* the grandparent turned, no red node has a red parent.                   *)
LEMMA OuterTurn ==
    ASSUME NEW S \in SUBSET Node, NEW x, NEW g, NEW p, NEW c, Fixing(x, S, c), c \in x.red,
           p \in x.red, g \in S, p = x.r[g], c = x.r[p], x.l[g] \notin x.red,
           NEW z, Repainted(x, z, (x.red \ {p}) \cup {g}), NEW y, Turned(z, y, g)
    PROVE  Fixing(y, S, c) /\ c \in S /\ c \in y.red
<1>1. PICK d, h : Shape(x, S) /\ Deep(x, d) /\ Levels(x, S, h, Nil, Nil) /\ RedFix(x, c)
  BY DEF Fixing
<1>2. Family(x, S, d)
  BY <1>1, Kin
<1>3. /\ x \in Tree /\ p \in Ref /\ c \in Ref /\ g \in Ref /\ p # Nil /\ c # Nil /\ g # Nil
      /\ Nil \notin x.red /\ S \subseteq Ref
      /\ z.root = x.root /\ z.l = x.l /\ z.r = x.r /\ z.p = x.p
  BY <1>1, TreeAssumption DEF Shape, Tree, Ref, Repainted
<1>4. Begets(x, S, d, g, p) /\ Begets(x, S, d, p, c)
  BY <1>2, <1>3 DEF Family
<1>5. /\ p \in S /\ c \in S /\ x.p[p] = g /\ x.p[c] = p /\ c # p /\ g # p /\ g # c
      /\ x.l[g] # p /\ x.l[p] # c
  BY <1>3, <1>4 DEF Begets
<1>6. PICK b, q : b = x.l[p] /\ q = x.p[g]
  OBVIOUS
<1>7. Shape(z, S) /\ Deep(z, d) /\ g \in Node /\ z.r[g] # Nil
  BY <1>1, <1>3, SameShape
<1>8. /\ y \in Tree /\ y.red = (x.red \ {p}) \cup {g}
      /\ y.p[g] = p /\ y.p[p] = q /\ (b # Nil => y.p[b] = g)
      /\ \A m \in Ref : m \notin {g, p, b} => y.p[m] = x.p[m]
      /\ q = Nil => y.root = p
      /\ q # Nil => y.root = x.root /\ x.root # g
      /\ b # g /\ b # p /\ (b # Nil => b \in S /\ x.p[b] = p)
  <2>1. Turns(z, y, S, g, p, b, q)
    BY <1>3, <1>6, <1>7, TurnGives
  <2> QED
    BY <1>3, <2>1 DEF Turns, Repainted
<1>9. Shape(y, S) /\ Deep(y, TurnDepth(z, d, g))
  BY <1>7, TurnKeepsShape, TurnKeepsDeep
<1>10. PICK k \in Nat : k = h[p]
  BY <1>1, <1>3 DEF Levels
<1>11. /\ h \in [Ref -> Nat] /\ h[Nil] = 0
       /\ \A m \in S : Level(x, h, Nil, Nil, m)
       /\ \A m : Height(h, Nil, m) = h[m]
  BY <1>1 DEF Levels, Height
<1>12. g \notin x.red
  BY <1>1, <1>5 DEF RedFix
<1>13. h[x.l[g]] = k /\ h[c] = k /\ h[b] = k /\ h[g] = k + 1
  <2>1. Level(x, h, Nil, Nil, p) /\ Level(x, h, Nil, Nil, g)
    BY <1>5, <1>11
  <2>2. h[c] \in Nat /\ h[x.l[g]] \in Nat /\ h[b] \in Nat /\ h[g] \in Nat
    BY <1>3, <1>6, <1>11 DEF Tree
  <2> QED
    BY <1>3, <1>6, <1>10, <1>11, <1>12, <2>1, <2>2 DEF Level, Weight
<1>14. Levels(y, S, [h EXCEPT ![g] = k, ![p] = h[g]], Nil, Nil)
  <2>1. Nil \notin {g, p} /\ Weight(z, g, Nil) = 0 /\ Weight(z, p, Nil) = 1
    BY <1>3, <1>5 DEF Weight, Repainted
  <2>2. /\ Height(h, Nil, z.l[g]) = Height(h, Nil, z.l[p])
        /\ k = Height(h, Nil, z.l[g]) + Weight(z, g, Nil)
        /\ k = Height(h, Nil, z.r[p]) /\ h[g] = k + Weight(z, p, Nil)
    BY <1>3, <1>6, <1>10, <1>11, <1>13, <2>1
  <2>3. \A m \in S \ {g, p} : Level(z, h, Nil, Nil, m)
    BY <1>3, <1>11 DEF Level, Weight, Repainted
  <2>4. /\ Shape(z, S) /\ Deep(z, d) /\ g \in Node /\ p = z.r[g] /\ p # Nil
        /\ h \in [Ref -> Nat] /\ h[Nil] = 0 /\ k \in Nat
    BY <1>3, <1>7, <1>10, <1>11
  <2> QED
    BY <2>1, <2>2, <2>3, <2>4, TurnKeepsLevels, Zenon
<1>15. RedFix(y, c)
  <2>1. ASSUME NEW m \in y.red, y.p[m] \in y.red, m # c
        PROVE  FALSE
    <3>1. m \in Ref /\ (m = g \/ (m \in x.red /\ m # p))
      BY <1>3, <1>8, <2>1 DEF Tree
    <3>2. CASE m = g
      BY <1>3, <1>5, <1>8, <2>1, <3>2
    <3>3. CASE m = b
      BY <1>1, <1>3, <1>5, <1>6, <1>8, <2>1, <3>1, <3>3 DEF RedFix
    <3>4. CASE m \notin {g, b}
      <4>1. y.p[m] = x.p[m] /\ m \in x.red /\ m # p
        BY <1>8, <3>1, <3>4
      <4>2. x.p[m] = g
        BY <1>1, <1>8, <2>1, <4>1 DEF RedFix
      <4>3. Kindred(x, S, d, m)
        BY <1>2, <1>3, <3>1, <4>2 DEF Family
      <4> QED
        BY <4>1, <4>2, <4>3 DEF Kindred
    <3> QED
      BY <3>2, <3>3, <3>4
  <2>2. y.root \in y.red => y.root = c
    BY <1>1, <1>3, <1>5, <1>8 DEF RedFix
  <2> QED
    BY <2>1, <2>2 DEF RedFix
<1> QED
  BY <1>5, <1>8, <1>9, <1>14, <1>15 DEF Fixing

(* A removal with a red sibling, on the left: the turn gives a black one.  *)
LEMMA RedSiblingTurn ==
    ASSUME NEW S \in SUBSET Node, NEW x, NEW c, NEW k, NEW p, NEW s, Removing(x, S, k, c),
           c \in Node, k \in S, p \in S, c = x.l[p], s = x.r[p], s \in x.red,
           NEW z, Repainted(x, z, (x.red \cup {p}) \ {s}), NEW y, Turned(z, y, p)
    PROVE  Removing(y, S, k, c) /\ Near(y, c)
<1>1. PICK d, h, B : /\ Shape(x, S) /\ Deep(x, d) /\ Levels(x, S, h, c, k)
                     /\ RedCut(x, k, c) /\ Path(x, S, d, B, c, k)
  BY TreeAssumption DEF Removing
<1>2. Family(x, S, d)
  BY <1>1, Kin
<1>3. /\ x \in Tree /\ p \in Ref /\ p # Nil /\ c \in Ref /\ s \in Ref /\ s # Nil /\ c # Nil
      /\ Nil \notin x.red /\ S \subseteq Ref /\ k # Nil /\ k \in Ref
      /\ z.root = x.root /\ z.l = x.l /\ z.r = x.r /\ z.p = x.p
  BY <1>1, TreeAssumption DEF Shape, Tree, Ref, Repainted
<1>4. Begets(x, S, d, p, c) /\ Begets(x, S, d, p, s)
  BY <1>2, <1>3 DEF Family
<1>5. /\ p \in S /\ c \in S /\ s \in S /\ x.p[c] = p /\ x.p[s] = p /\ c # s /\ c # p /\ s # p
      /\ d[p] \in Nat /\ d[c] \in Nat /\ d[p] < d[c] /\ d[s] \in Nat /\ d[p] < d[s]
  BY <1>3, <1>4 DEF Begets
<1>6. PICK b, q : b = x.l[s] /\ q = x.p[p]
  OBVIOUS
<1>7. Shape(z, S) /\ Deep(z, d) /\ p \in Node /\ z.r[p] # Nil
  BY <1>1, <1>3, <1>5, SameShape
<1>8. /\ y \in Tree /\ y.red = (x.red \cup {p}) \ {s}
      /\ y.p[p] = s /\ y.p[s] = q /\ (b # Nil => y.p[b] = p)
      /\ \A m \in Ref : m \notin {p, s, b} => y.p[m] = x.p[m]
      /\ \A m \in Ref : m \notin {p, s, q} => y.l[m] = x.l[m] /\ y.r[m] = x.r[m]
      /\ y.l[p] = c /\ y.r[p] = b
      /\ q = Nil => y.root = s
      /\ q # Nil => y.root = x.root /\ x.root # p
      /\ b # p /\ b # s /\ (b # Nil => b \in S /\ x.p[b] = s)
  <2>1. Turns(z, y, S, p, s, b, q)
    BY <1>3, <1>6, <1>7, TurnGives
  <2> QED
    BY <1>3, <2>1 DEF Turns, Repainted
<1>9. p \notin B /\ s \notin B /\ b \notin B /\ q \notin B /\ k \in B /\ c \in B /\ B \subseteq S
  <2>1. p \notin B /\ k \in B /\ c \in B /\ B \subseteq S
    BY <1>1, <1>5 DEF Path
  <2>2. s \notin B
    BY <1>1, <1>5, <2>1 DEF Path
  <2>3. b \notin B
    BY <1>1, <1>3, <1>5, <1>8, <2>2, TreeAssumption DEF Path
  <2>4. q # Nil => d[q] < d[p] /\ d[q] \in Nat
    BY <1>2, <1>3, <1>6 DEF Family, Kindred
  <2>5. q \notin B
    BY <1>1, <1>5, <2>1, <2>4, TreeAssumption DEF Path
  <2> QED
    BY <2>1, <2>2, <2>3, <2>5
<1>10. Shape(y, S) /\ Deep(y, TurnDepth(z, d, p))
  BY <1>7, TurnKeepsShape, TurnKeepsDeep
<1>11. p \notin x.red /\ b \notin x.red
  <2>1. s # k /\ p # k /\ b # k
    BY <1>9
  <2>2. p \notin x.red
    BY <1>1, <1>5, <2>1 DEF RedCut
  <2>3. b \in x.red => x.p[b] = s
    BY <1>3, <1>8
  <2> QED
    BY <1>1, <2>1, <2>2, <2>3 DEF RedCut
<1>12. PICK j \in Nat : j = h[c]
  BY <1>1, <1>3 DEF Levels
<1>13. /\ h \in [Ref -> Nat] /\ h[Nil] = 0
       /\ \A m \in S : Level(x, h, c, k, m)
       /\ \A m : Height(h, c, m) = IF m = c THEN h[m] + 1 ELSE h[m]
  BY <1>1, <1>3 DEF Levels, Height
<1>14. x.r[s] # c /\ b # c
  <2>1. x.r[s] # Nil => Begets(x, S, d, s, x.r[s])
    BY <1>2, <1>3 DEF Family
  <2> QED
    BY <1>3, <1>5, <1>8, <2>1 DEF Begets
<1>20. /\ Height(h, c, c) = j + 1 /\ Height(h, c, s) = h[s]
       /\ Height(h, c, b) = h[b] /\ Height(h, c, x.r[s]) = h[x.r[s]]
  BY <1>5, <1>12, <1>13, <1>14
<1>15. h[s] = j + 1 /\ h[b] = j + 1 /\ h[x.r[s]] = j + 1 /\ h[p] = j + 2
  <2>1. Level(x, h, c, k, p) /\ Level(x, h, c, k, s)
    BY <1>5, <1>13
  <2>2. h[s] \in Nat /\ h[x.r[s]] \in Nat /\ h[b] \in Nat /\ h[p] \in Nat
    BY <1>3, <1>6, <1>13 DEF Tree
  <2>3. Weight(x, p, k) = 1 /\ Weight(x, s, k) = 0
    BY <1>9, <1>11 DEF Weight
  <2>4. h[s] = j + 1 /\ h[p] = (j + 1) + 1
    BY <1>20, <2>1, <2>3 DEF Level
  <2>5. h[b] = h[x.r[s]] /\ h[s] = h[b] + 0
    BY <1>6, <1>20, <2>1, <2>3 DEF Level
  <2> QED
    BY <2>2, <2>4, <2>5
<1>16. Levels(y, S, [h EXCEPT ![p] = j + 1, ![s] = h[p]], c, k)
  <2>1. c \notin {p, s} /\ Weight(z, p, k) = 0 /\ Weight(z, s, k) = 1
    BY <1>3, <1>5, <1>9 DEF Weight, Repainted
  <2>2. /\ Height(h, c, z.l[p]) = Height(h, c, z.l[s])
        /\ j + 1 = Height(h, c, z.l[p]) + Weight(z, p, k)
        /\ j + 1 = Height(h, c, z.r[s]) /\ h[p] = j + 1 + Weight(z, s, k)
    <3>1. /\ Height(h, c, z.l[p]) = j + 1 /\ Height(h, c, z.l[s]) = j + 1
          /\ Height(h, c, z.r[s]) = j + 1
      BY <1>3, <1>6, <1>15, <1>20
    <3> QED
      BY <1>15, <2>1, <3>1
  <2>3. \A m \in S \ {p, s} : Level(z, h, c, k, m)
    BY <1>3, <1>13 DEF Level, Weight, Repainted
  <2>4. /\ Shape(z, S) /\ Deep(z, d) /\ p \in Node /\ s = z.r[p] /\ s # Nil
        /\ h \in [Ref -> Nat] /\ h[Nil] = 0 /\ j + 1 \in Nat
    BY <1>3, <1>7, <1>12, <1>13
  <2> QED
    BY <2>1, <2>2, <2>3, <2>4, TurnKeepsLevels, Zenon
<1>17. RedCut(y, k, c)
  <2>1. ASSUME NEW m \in y.red, y.p[m] \in y.red
        PROVE  y.p[m] = k \/ (m = k /\ k = c)
    <3>1. m \in Ref /\ m # s /\ m \in x.red \cup {p}
      BY <1>3, <1>8, <2>1 DEF Tree
    <3>2. m # p /\ m # b /\ m \in x.red /\ y.p[m] = x.p[m]
      BY <1>3, <1>8, <1>11, <2>1, <3>1
    <3>3. CASE m = c
      BY <1>1, <3>2, <3>3 DEF RedCut
    <3>4. CASE m # c
      <4>1. x.p[m] # p
        <5>1. x.p[m] # Nil => Kindred(x, S, d, m)
          BY <1>2, <3>1 DEF Family
        <5> QED
          BY <1>3, <1>5, <3>1, <3>2, <3>4, <5>1 DEF Kindred
      <4> QED
        BY <1>1, <1>8, <2>1, <3>2, <4>1 DEF RedCut
    <3> QED
      BY <3>3, <3>4
  <2>2. ASSUME NEW m \in y.red, y.p[m] = k
        PROVE  k \in y.red
    <3>1. m \in Ref /\ m \in x.red /\ x.p[m] = k
      <4>1. m \in Ref /\ m # s /\ m \in x.red \cup {p}
        BY <1>3, <1>8, <2>2 DEF Tree
      <4>2. m # p /\ m # b
        <5>1. s # k /\ p # k /\ m # Nil
          BY <1>3, <1>9, <4>1
        <5> QED
          BY <1>8, <2>2, <5>1
      <4> QED
        BY <1>8, <2>2, <4>1, <4>2
    <3> QED
      BY <1>1, <1>8, <1>9, <3>1 DEF RedCut
  <2>3. y.root \in y.red => y.root = k
    BY <1>1, <1>8 DEF RedCut
  <2>4. y.l[k] = Nil \/ y.r[k] = Nil
    BY <1>1, <1>3, <1>8, <1>9 DEF RedCut
  <2>5. c # k => c \notin y.red
    BY <1>1, <1>5, <1>8 DEF RedCut
  <2> QED
    BY <2>1, <2>2, <2>3, <2>4, <2>5 DEF RedCut
<1>18. Path(y, S, TurnDepth(z, d, p), B, c, k)
  <2>1. ASSUME NEW m \in B
        PROVE  (m = c \/ y.p[m] \in B) /\ TurnDepth(z, d, p)[c] <= TurnDepth(z, d, p)[m]
    <3>1. m \in Ref /\ m # s /\ y.p[m] = x.p[m] /\ d[c] <= d[m] /\ d[m] \in Nat
      BY <1>1, <1>3, <1>8, <1>9, <2>1 DEF Path, Deep
    <3>2. TurnDepth(z, d, p)[c] = 2 * d[c] + 1 /\ TurnDepth(z, d, p)[m] = 2 * d[m] + 1
      BY <1>3, <1>5, <3>1 DEF TurnDepth
    <3>3. m = c \/ x.p[m] \in B
      BY <1>1, <2>1 DEF Path
    <3> QED
      BY <1>5, <3>1, <3>2, <3>3
  <2> QED
    BY <1>9, <2>1 DEF Path
<1>19. Near(y, c)
  <2>1. y.p[c] = p /\ b \notin y.red
    BY <1>3, <1>5, <1>8, <1>11, <1>14
  <2> QED
    BY <1>3, <1>5, <1>8, <2>1 DEF Near
<1> QED
  BY <1>10, <1>16, <1>17, <1>18, <1>19 DEF Removing

(* A removal with the near nephew red, on the right: the turn makes the    *)
(* far one red.                                                            *)
LEMMA NephewTurn ==
    ASSUME NEW S \in SUBSET Node, NEW x, NEW c, NEW k, NEW p, NEW s, NEW a,
           Removing(x, S, k, c), Near(x, c), c \in Node, k \in S, p \in S, c = x.r[p],
           s = x.l[p], a = x.r[s], a \in x.red, x.l[s] \notin x.red,
           NEW z, Repainted(x, z, (x.red \cup {s}) \ {a}), NEW y, Turned(z, y, s)
    PROVE  Removing(y, S, k, c) /\ Near(y, c) /\ Far(y, c)
<1>1. PICK d, h, B : /\ Shape(x, S) /\ Deep(x, d) /\ Levels(x, S, h, c, k)
                     /\ RedCut(x, k, c) /\ Path(x, S, d, B, c, k)
  BY TreeAssumption DEF Removing
<1>2. Family(x, S, d)
  BY <1>1, Kin
<1>3. /\ x \in Tree /\ p \in Ref /\ p # Nil /\ c \in Ref /\ s \in Ref /\ c # Nil
      /\ Nil \notin x.red /\ S \subseteq Ref /\ k # Nil /\ k \in Ref /\ a \in Ref /\ a # Nil
      /\ x.r[Nil] = Nil /\ z.root = x.root /\ z.l = x.l /\ z.r = x.r /\ z.p = x.p
  BY <1>1, TreeAssumption DEF Shape, Tree, Ref, Repainted
<1>4. s # Nil
  BY <1>3
<1>5. Begets(x, S, d, p, c) /\ Begets(x, S, d, p, s) /\ Begets(x, S, d, s, a)
  BY <1>2, <1>3, <1>4 DEF Family
<1>6. /\ c \in S /\ s \in S /\ a \in S /\ x.p[c] = p /\ x.p[s] = p /\ x.p[a] = s
      /\ c # s /\ c # p /\ s # p /\ a # s /\ a # p /\ a # c /\ x.l[s] # a
      /\ d[p] \in Nat /\ d[c] \in Nat /\ d[p] < d[c]
  BY <1>3, <1>4, <1>5 DEF Begets
<1>7. PICK b, f : b = x.l[a] /\ f = x.l[s]
  OBVIOUS
<1>8. Shape(z, S) /\ Deep(z, d) /\ s \in Node /\ z.r[s] # Nil
  BY <1>1, <1>3, <1>6, SameShape
<1>9. /\ y \in Tree /\ y.red = (x.red \cup {s}) \ {a}
      /\ y.p[s] = a /\ y.p[a] = p /\ (b # Nil => y.p[b] = s)
      /\ \A m \in Ref : m \notin {s, a, b} => y.p[m] = x.p[m]
      /\ b # s /\ b # a /\ (b # Nil => b \in S /\ x.p[b] = a)
  <2>1. Turns(z, y, S, s, a, b, p)
    BY <1>3, <1>6, <1>7, <1>8, TurnGives
  <2>2. z.red = (x.red \cup {s}) \ {a} /\ z.p = x.p
    BY DEF Repainted
  <2>3. /\ y \in Tree /\ y.red = z.red
        /\ y.p[s] = a /\ y.p[a] = p /\ (b # Nil => y.p[b] = s)
        /\ \A m \in Ref : m \notin {s, a, b} => y.p[m] = z.p[m]
        /\ b # s /\ b # a /\ (b # Nil => b \in S /\ z.p[b] = a)
    BY <2>1 DEF Turns
  <2> QED
    BY <2>2, <2>3
<1>10. /\ \A m \in Ref : m \notin {s, a, p} => y.l[m] = x.l[m] /\ y.r[m] = x.r[m]
       /\ y.l[a] = s /\ y.l[p] = a /\ y.r[p] = c /\ y.root = x.root
  <2>1. Turns(z, y, S, s, a, b, p)
    BY <1>3, <1>6, <1>7, <1>8, TurnGives
  <2>2. /\ \A m \in Ref : m \notin {s, a, p} => y.l[m] = z.l[m] /\ y.r[m] = z.r[m]
        /\ y.l[a] = s
    BY <2>1 DEF Turns
  <2>3. /\ y.l[p] = IF z.l[p] = s THEN a ELSE z.l[p]
        /\ y.r[p] = IF z.r[p] = s THEN a ELSE z.r[p]
        /\ y.root = z.root
    BY <1>3, <2>1 DEF Turns
  <2>4. z.l = x.l /\ z.r = x.r /\ z.root = x.root /\ x.l[p] = s /\ x.r[p] = c /\ c # s
    BY <1>3, <1>6
  <2> QED
    BY <2>2, <2>3, <2>4
<1>11. p \notin B /\ s \notin B /\ a \notin B /\ b \notin B /\ k \in B /\ c \in B /\ B \subseteq S
  <2>1. p \notin B /\ k \in B /\ c \in B /\ B \subseteq S
    BY <1>1, <1>6 DEF Path
  <2>2. s \notin B
    BY <1>1, <1>6, <2>1 DEF Path
  <2>3. a \notin B
    BY <1>1, <1>6, <2>2 DEF Path
  <2>4. b \in S => b # c /\ x.p[b] = a
    <3>1. b \in S => b # Nil
      BY TreeAssumption
    <3>2. b \in S => x.p[b] = a
      BY <1>9, <3>1, Zenon
    <3> QED
      BY ONLY <1>6, <3>2, Zenon
  <2>5. b \notin B
    BY <1>1, <2>1, <2>3, <2>4 DEF Path
  <2> QED
    BY <2>1, <2>2, <2>3, <2>5
<1>12. Shape(y, S) /\ Deep(y, TurnDepth(z, d, s))
  BY <1>3, <1>8, TurnKeepsShape, TurnKeepsDeep
<1>13. s \notin x.red /\ b \notin x.red
  <2>1. s \notin x.red
    BY <1>6 DEF Near
  <2>2. a # k /\ b # k
    BY <1>11
  <2>3. b \in x.red => x.p[b] = a
    BY <1>3, <1>9
  <2> QED
    BY <1>1, <2>1, <2>2, <2>3 DEF RedCut
<1>14. PICK j \in Nat : j = h[c]
  BY <1>1, <1>3 DEF Levels
<1>15. /\ h \in [Ref -> Nat] /\ h[Nil] = 0
       /\ \A m \in S : Level(x, h, c, k, m)
       /\ \A m : Height(h, c, m) = IF m = c THEN h[m] + 1 ELSE h[m]
  BY <1>1, <1>3 DEF Levels, Height
<1>16. f # c /\ b # c /\ x.r[a] # c
  <2>1. /\ x.r[a] # Nil => Begets(x, S, d, a, x.r[a])
        /\ f # Nil => Begets(x, S, d, s, f)
        /\ b # Nil => Begets(x, S, d, a, b)
    BY <1>2, <1>3, <1>7 DEF Family
  <2> QED
    BY <1>3, <1>6, <2>1 DEF Begets
<1>17. /\ Height(h, c, c) = j + 1 /\ Height(h, c, s) = h[s] /\ Height(h, c, a) = h[a]
       /\ Height(h, c, b) = h[b] /\ Height(h, c, x.r[a]) = h[x.r[a]] /\ Height(h, c, f) = h[f]
  BY <1>6, <1>14, <1>15, <1>16
<1>18. h[s] = j + 1 /\ h[f] = j /\ h[b] = j /\ h[x.r[a]] = j
  <2>1. Level(x, h, c, k, p) /\ Level(x, h, c, k, s) /\ Level(x, h, c, k, a)
    BY <1>6, <1>15
  <2>2. h[a] \in Nat /\ h[x.r[a]] \in Nat /\ h[b] \in Nat /\ h[f] \in Nat
    BY <1>3, <1>7, <1>15 DEF Tree
  <2>3. Weight(x, s, k) = 1 /\ Weight(x, a, k) = 0
    BY <1>11, <1>13 DEF Weight
  <2>4. h[s] = j + 1
    BY <1>17, <2>1 DEF Level
  <2>5. h[f] = h[a] /\ h[s] = h[f] + 1
    BY <1>7, <1>17, <2>1, <2>3 DEF Level
  <2>6. h[b] = h[x.r[a]] /\ h[a] = h[b] + 0
    BY <1>7, <1>17, <2>1, <2>3 DEF Level
  <2>7. h[f] = j
    BY <2>2, <2>4, <2>5
  <2>8. h[b] = j
    BY ONLY <2>2, <2>5, <2>6, <2>7
  <2> QED
    BY <2>4, <2>6, <2>7, <2>8, Zenon
<1>19. Levels(y, S, [h EXCEPT ![s] = j, ![a] = h[s]], c, k)
  <2>1. c \notin {s, a} /\ Weight(z, s, k) = 0 /\ Weight(z, a, k) = 1
    BY <1>3, <1>6, <1>11 DEF Weight, Repainted
  <2>2. /\ Height(h, c, z.l[s]) = Height(h, c, z.l[a])
        /\ j = Height(h, c, z.l[s]) + Weight(z, s, k)
        /\ j = Height(h, c, z.r[a]) /\ h[s] = j + Weight(z, a, k)
    <3>1. /\ Height(h, c, z.l[s]) = j /\ Height(h, c, z.l[a]) = j
          /\ Height(h, c, z.r[a]) = j
      BY <1>3, <1>7, <1>17, <1>18
    <3> QED
      BY <1>18, <2>1, <3>1
  <2>3. \A m \in S \ {s, a} : Level(z, h, c, k, m)
    <3>1. ASSUME NEW m \in S \ {s, a} PROVE Level(z, h, c, k, m)
      <4>1. Level(x, h, c, k, m)
        BY <1>15, <3>1
      <4>2. z.l = x.l /\ z.r = x.r /\ Weight(z, m, k) = Weight(x, m, k)
        BY <1>3, <3>1 DEF Weight, Repainted
      <4> QED
        BY ONLY <4>1, <4>2, Zenon DEF Level
    <3> QED
      BY <3>1
  <2>4. /\ Shape(z, S) /\ Deep(z, d) /\ s \in Node /\ a = z.r[s] /\ a # Nil
        /\ h \in [Ref -> Nat] /\ h[Nil] = 0 /\ j \in Nat
    BY <1>3, <1>8, <1>14, <1>15
  <2> QED
    BY <2>1, <2>2, <2>3, <2>4, TurnKeepsLevels, Zenon
<1>20. RedCut(y, k, c)
  <2>1. ASSUME NEW m \in y.red, y.p[m] \in y.red
        PROVE  y.p[m] = k \/ (m = k /\ k = c)
    <3>1. m \in Ref /\ m # a /\ m \in x.red \cup {s} /\ y.p[m] # a
      BY <1>3, <1>9, <2>1 DEF Tree
    <3>2. m # s /\ m # b /\ m \in x.red /\ y.p[m] = x.p[m]
      BY <1>3, <1>9, <1>13, <2>1, <3>1
    <3>3. x.p[m] # s
      <4>1. x.p[m] # Nil => Kindred(x, S, d, m)
        BY <1>2, <3>1 DEF Family
      <4> QED
        BY <1>3, <1>4, <1>7, <3>1, <3>2, <4>1 DEF Kindred
    <3> QED
      BY <1>1, <1>9, <2>1, <3>2, <3>3 DEF RedCut
  <2>2. ASSUME NEW m \in y.red, y.p[m] = k
        PROVE  k \in y.red
    <3>1. m \in Ref /\ m # a /\ m \in x.red \cup {s}
      BY <1>3, <1>9, <2>2 DEF Tree
    <3>2. a # k /\ s # k /\ m # Nil
      BY <1>3, <1>4, <1>11, <3>1
    <3>3. m \in x.red /\ x.p[m] = k
      BY <1>9, <2>2, <3>1, <3>2
    <3> QED
      BY <1>1, <1>9, <3>2, <3>3 DEF RedCut
  <2>3. y.root \in y.red => y.root = k
    <3>1. x.root \in x.red => x.root = k
      BY <1>1 DEF RedCut
    <3>2. x.root # s
      BY <1>1, <1>3, <1>4, <1>6 DEF Shape
    <3> QED
      BY <1>9, <1>10, <3>1, <3>2
  <2>4. y.l[k] = Nil \/ y.r[k] = Nil
    BY <1>1, <1>3, <1>10, <1>11 DEF RedCut
  <2>5. c # k => c \notin y.red
    <3>1. c # k => c \notin x.red
      BY <1>1 DEF RedCut
    <3> QED
      BY <1>6, <1>9, <3>1
  <2> QED
    BY <2>1, <2>2, <2>3, <2>4, <2>5 DEF RedCut
<1>21. Path(y, S, TurnDepth(z, d, s), B, c, k)
  <2>1. ASSUME NEW m \in B
        PROVE  (m = c \/ y.p[m] \in B) /\ TurnDepth(z, d, s)[c] <= TurnDepth(z, d, s)[m]
    <3>1. m \in Ref /\ m # a /\ y.p[m] = x.p[m] /\ d[c] <= d[m] /\ d[m] \in Nat
      BY <1>1, <1>3, <1>9, <1>11, <2>1 DEF Path, Deep
    <3>2. TurnDepth(z, d, s)[c] = 2 * d[c] + 1 /\ TurnDepth(z, d, s)[m] = 2 * d[m] + 1
      BY <1>3, <1>6, <3>1 DEF TurnDepth
    <3>3. m = c \/ x.p[m] \in B
      BY <1>1, <2>1 DEF Path
    <3> QED
      BY <1>6, <3>1, <3>2, <3>3
  <2> QED
    BY <1>11, <2>1 DEF Path
<1>22. y.p[c] = p
  BY <1>3, <1>6, <1>9, <1>16
<1>23. Near(y, c) /\ Far(y, c)
  <2>1. y.l[p] = a /\ y.r[p] = c /\ y.l[a] = s /\ s \in y.red /\ a \notin y.red
    BY <1>6, <1>9, <1>10
  <2> QED
    BY <1>3, <1>6, <1>22, <2>1 DEF Near, Far
<1> QED
  BY <1>12, <1>19, <1>20, <1>21, <1>23 DEF Removing

(* The colours RmFar gives to a node p, its child s and its grandchild f.  *)
FarPaint(x, p, s, f) ==
    ((IF p \in x.red THEN x.red \cup {s} ELSE x.red \ {s}) \ {p}) \ {f}

(* A removal with the far nephew red, on the left: after the turn nothing  *)
(* is short of a black node.                                               *)
LEMMA FarTurn ==
    ASSUME NEW S \in SUBSET Node, NEW x, NEW c, NEW k, NEW p, NEW s, NEW f,
           Removing(x, S, k, c), Near(x, c), c \in Node, k \in S, p \in S, c = x.l[p],
           s = x.r[p], f = x.r[s], f \in x.red,
           NEW z, Repainted(x, z, FarPaint(x, p, s, f)), NEW y, Turned(z, y, p)
    PROVE  Removing(y, S, k, Nil)
<1>1. PICK d, h, B : /\ Shape(x, S) /\ Deep(x, d) /\ Levels(x, S, h, c, k)
                     /\ RedCut(x, k, c) /\ Path(x, S, d, B, c, k)
  BY TreeAssumption DEF Removing
<1>2. Family(x, S, d)
  BY <1>1, Kin
<1>3. /\ x \in Tree /\ p \in Ref /\ p # Nil /\ c \in Ref /\ s \in Ref /\ c # Nil
      /\ Nil \notin x.red /\ S \subseteq Ref /\ k # Nil /\ k \in Ref /\ f \in Ref /\ f # Nil
      /\ x.r[Nil] = Nil /\ z.root = x.root /\ z.l = x.l /\ z.r = x.r /\ z.p = x.p
  BY <1>1, TreeAssumption DEF Shape, Tree, Ref, Repainted
<1>4. s # Nil
  BY <1>3
<1>5. Begets(x, S, d, p, c) /\ Begets(x, S, d, p, s) /\ Begets(x, S, d, s, f)
  BY <1>2, <1>3, <1>4 DEF Family
<1>6. /\ c \in S /\ s \in S /\ f \in S /\ x.p[c] = p /\ x.p[s] = p /\ x.p[f] = s
      /\ c # s /\ c # p /\ s # p /\ f # s /\ f # p /\ f # c /\ x.l[s] # f
      /\ d[p] \in Nat /\ d[c] \in Nat /\ d[p] < d[c] /\ d[s] \in Nat /\ d[p] < d[s]
  BY <1>3, <1>4, <1>5 DEF Begets
<1>7. PICK b, q : b = x.l[s] /\ q = x.p[p]
  OBVIOUS
<1>8. s \notin x.red
  BY <1>6 DEF Near
<1>9. z.red = FarPaint(x, p, s, f)
  BY DEF Repainted
<1>10. /\ \A m \in z.red : m \notin {p, f} /\ (m = s \/ m \in x.red)
       /\ s \in z.red <=> p \in x.red
       /\ \A m \in x.red : m \notin {p, f} => m \in z.red
       /\ Nil \notin z.red
  BY <1>3, <1>4, <1>6, <1>8, <1>9 DEF FarPaint
<1>11. Shape(z, S) /\ Deep(z, d) /\ p \in Node /\ z.r[p] # Nil
  BY <1>1, <1>3, <1>4, <1>9, <1>10, SameShape
<1>12. /\ y \in Tree /\ y.red = z.red
       /\ y.p[p] = s /\ y.p[s] = q /\ (b # Nil => y.p[b] = p)
       /\ \A m \in Ref : m \notin {p, s, b} => y.p[m] = x.p[m]
       /\ q # s /\ b # p /\ b # s /\ (b # Nil => b \in S /\ x.p[b] = s)
  <2>1. Turns(z, y, S, p, s, b, q)
    BY <1>3, <1>7, <1>11, TurnGives
  <2> QED
    BY <1>3, <2>1 DEF Turns
<1>13. /\ \A m \in Ref : m \notin {p, s, q} => y.l[m] = x.l[m] /\ y.r[m] = x.r[m]
       /\ q = Nil => y.root = s
       /\ q # Nil => y.root = x.root /\ x.root # p
  <2>1. Turns(z, y, S, p, s, b, q)
    BY <1>3, <1>7, <1>11, TurnGives
  <2> QED
    BY <1>3, <2>1 DEF Turns
<1>14. /\ p \notin B /\ s \notin B /\ f \notin B /\ b \notin B /\ q \notin B
       /\ k \in B /\ c \in B /\ B \subseteq S
  <2>1. p \notin B /\ k \in B /\ c \in B /\ B \subseteq S
    BY <1>1, <1>6 DEF Path
  <2>2. s \notin B
    BY <1>1, <1>6, <2>1 DEF Path
  <2>3. f \notin B
    BY <1>1, <1>6, <2>2 DEF Path
  <2>4. b \in S => b # c /\ x.p[b] = s
    BY <1>3, <1>6, <1>12, TreeAssumption
  <2>5. b \notin B
    BY <1>1, <2>1, <2>2, <2>4 DEF Path
  <2>6. q # Nil => Kindred(x, S, d, p)
    BY <1>2, <1>3, <1>7 DEF Family
  <2>7. q # Nil => d[q] < d[p] /\ d[q] \in Nat
    BY <1>7, <2>6 DEF Kindred
  <2>8. q \notin B
    BY <1>1, <1>6, <2>1, <2>7, TreeAssumption DEF Path
  <2> QED
    BY <2>1, <2>2, <2>3, <2>5, <2>8
<1>15. Shape(y, S) /\ Deep(y, TurnDepth(z, d, p))
  BY <1>11, TurnKeepsShape, TurnKeepsDeep
<1>16. PICK j \in Nat : j = h[c]
  BY <1>1, <1>3 DEF Levels
<1>17. /\ h \in [Ref -> Nat] /\ h[Nil] = 0
       /\ \A m \in S : Level(x, h, c, k, m)
       /\ \A m : Height(h, c, m) = IF m = c THEN h[m] + 1 ELSE h[m]
  BY <1>1, <1>3 DEF Levels, Height
<1>18. b # c /\ b # f
  <2>1. b # Nil => Begets(x, S, d, s, b)
    BY <1>2, <1>3, <1>7 DEF Family
  <2> QED
    BY <1>3, <1>6, <1>7, <2>1 DEF Begets
<1>19. /\ Height(h, c, c) = j + 1 /\ Height(h, c, s) = h[s]
       /\ Height(h, c, b) = h[b] /\ Height(h, c, f) = h[f]
  BY <1>6, <1>16, <1>17, <1>18
<1>20. /\ h[s] = j + 1 /\ h[f] = j /\ h[b] = j
       /\ h[p] = (j + 1) + (IF p \in x.red THEN 0 ELSE 1)
  <2>1. Level(x, h, c, k, p) /\ Level(x, h, c, k, s)
    BY <1>6, <1>17
  <2>2. h[f] \in Nat /\ h[b] \in Nat
    BY <1>3, <1>7, <1>17 DEF Tree
  <2>3. Weight(x, s, k) = 1 /\ Weight(x, p, k) = IF p \in x.red THEN 0 ELSE 1
    BY <1>8, <1>14 DEF Weight
  <2>4. h[s] = j + 1 /\ h[p] = (j + 1) + Weight(x, p, k)
    BY <1>19, <2>1 DEF Level
  <2>5. h[b] = h[f] /\ h[s] = h[b] + 1
    BY <1>7, <1>19, <2>1, <2>3 DEF Level
  <2>6. h[b] = j
    BY <2>2, <2>4, <2>5
  <2> QED
    BY <2>3, <2>4, <2>5, <2>6
<1>21. PICK e : e = [h EXCEPT ![f] = j + 1]
  OBVIOUS
<1>22. /\ e \in [Ref -> Nat] /\ e[Nil] = 0 /\ e[f] = j + 1
       /\ \A m \in Ref : m # f => e[m] = h[m]
       /\ \A m : Height(e, Nil, m) = e[m]
  BY <1>3, <1>17, <1>21 DEF Height
<1>23. Levels(y, S, [e EXCEPT ![p] = j + 1, ![s] = e[p]], Nil, k)
  <2>1. Nil \notin {p, s} /\ Weight(z, p, k) = 0 + 1 /\ Weight(z, s, k) = IF p \in x.red THEN 0 ELSE 1
    BY <1>3, <1>4, <1>10, <1>14 DEF Weight
  <2>2. /\ Height(e, Nil, z.l[p]) = Height(e, Nil, z.l[s])
        /\ j + 1 = Height(e, Nil, z.l[p]) + Weight(z, p, k)
        /\ j + 1 = Height(e, Nil, z.r[s]) /\ e[p] = (j + 1) + Weight(z, s, k)
    <3>1. b \in Ref
      BY <1>3, <1>7 DEF Tree
    <3>2. e[c] = j /\ e[b] = j /\ e[f] = j + 1 /\ e[p] = h[p]
      BY <1>3, <1>6, <1>16, <1>18, <1>20, <1>22, <3>1
    <3>3. /\ Height(e, Nil, z.l[p]) = j /\ Height(e, Nil, z.l[s]) = j
          /\ Height(e, Nil, z.r[s]) = j + 1
      BY <1>3, <1>7, <1>22, <3>2
    <3> QED
      BY <1>20, <2>1, <3>2, <3>3
  <2>3. ASSUME NEW m \in S \ {p, s}
        PROVE  Level(z, e, Nil, k, m)
    <3>1. PICK i, n : i = x.l[m] /\ n = x.r[m]
      OBVIOUS
    <3>2. i \in Ref /\ n \in Ref /\ m \in Ref
      BY <1>3, <3>1 DEF Tree
    <3>3. (i # Nil => Begets(x, S, d, m, i)) /\ (n # Nil => Begets(x, S, d, m, n))
      BY <1>2, <3>1, <3>2 DEF Family
    <3>4. i \notin {c, f} /\ n \notin {c, f}
      BY <1>3, <1>6, <3>3 DEF Begets
    <3>5. e[i] = h[i] /\ e[n] = h[n] /\ Height(h, c, i) = h[i] /\ Height(h, c, n) = h[n]
      BY <1>17, <1>22, <3>2, <3>4
    <3>6. h[i] = h[n] /\ h[m] = h[i] + Weight(x, m, k) /\ h[i] \in Nat
      BY <1>17, <3>1, <3>2, <3>5 DEF Level
    <3>7. e[m] = h[i] + Weight(z, m, k)
      <4>1. CASE m = f
        <5>1. Weight(x, m, k) = 0 /\ Weight(z, m, k) = 1
          BY <1>10, <1>14, <4>1 DEF Weight
        <5> QED
          BY <1>20, <1>22, <3>6, <4>1, <5>1
      <4>2. CASE m # f
        <5>1. Weight(x, m, k) = Weight(z, m, k)
          BY <1>10, <4>2 DEF Weight
        <5> QED
          BY <1>22, <3>2, <3>6, <4>2, <5>1
      <4> QED
        BY <4>1, <4>2
    <3> QED
      BY <1>3, <1>22, <3>1, <3>5, <3>6, <3>7 DEF Level
  <2>4. j + 1 \in Nat
    OBVIOUS
  <2> QED
    BY <1>3, <1>4, <1>11, <1>22, <2>1, <2>2, <2>3, <2>4, TurnKeepsLevels, ZenonT(30)
<1>24. RedCut(y, k, Nil)
  <2>1. ASSUME NEW m \in y.red, y.p[m] \in y.red
        PROVE  y.p[m] = k
    <3>1. m \in Ref /\ m \notin {p, f} /\ (m = s \/ m \in x.red) /\ y.p[m] # p /\ y.p[m] # f
      BY <1>10, <1>12, <2>1 DEF Tree
    <3>2. p # k /\ q # k /\ m # Nil
      BY <1>10, <1>12, <1>14, <2>1
    <3>3. CASE m = s
      <4>1. p \in x.red /\ q \in x.red /\ x.p[p] = q
        BY <1>7, <1>10, <1>12, <2>1, <3>3, <1>6
      <4> QED
        BY <1>1, <3>2, <4>1 DEF RedCut
    <3>4. CASE m # s
      <4>1. m # b /\ m \in x.red /\ y.p[m] = x.p[m]
        BY <1>12, <3>1, <3>2, <3>4
      <4>2. x.p[m] # s
        <5>1. x.p[m] # Nil => Kindred(x, S, d, m)
          BY <1>2, <3>1 DEF Family
        <5> QED
          BY <1>3, <1>4, <1>7, <3>1, <4>1, <5>1 DEF Kindred
      <4>3. m # c
        BY <1>6, <3>1, <4>1
      <4>4. x.p[m] \in x.red
        BY <1>10, <1>12, <2>1, <4>1, <4>2
      <4> QED
        BY <1>1, <4>1, <4>3, <4>4 DEF RedCut
    <3> QED
      BY <3>3, <3>4
  <2>2. ASSUME NEW m \in y.red, y.p[m] = k
        PROVE  k \in y.red
    <3>1. m \in Ref /\ m \notin {p, f} /\ (m = s \/ m \in x.red) /\ m # Nil
      BY <1>10, <1>12, <2>2 DEF Tree
    <3>2. p # k /\ q # k /\ f # k
      BY <1>14
    <3>3. m \in x.red /\ x.p[m] = k
      BY <1>12, <2>2, <3>1, <3>2
    <3> QED
      BY <1>1, <1>10, <1>12, <3>2, <3>3 DEF RedCut
  <2>3. y.root \in y.red => y.root = k
    <3>1. CASE q = Nil
      <4>1. x.root = p
        BY <1>1, <1>7, <3>1 DEF Shape
      <4> QED
        BY <1>1, <1>10, <1>12, <1>13, <1>14, <3>1, <4>1 DEF RedCut
    <3>2. CASE q # Nil
      <4>1. x.root # s
        BY <1>1, <1>3, <1>4, <1>6 DEF Shape
      <4> QED
        BY <1>1, <1>10, <1>12, <1>13, <3>2, <4>1 DEF RedCut
    <3> QED
      BY <3>1, <3>2
  <2>4. y.l[k] = Nil \/ y.r[k] = Nil
    <3>1. k \notin {p, s, q}
      BY <1>14
    <3> QED
      BY <1>1, <1>3, <1>13, <3>1 DEF RedCut
  <2>5. Nil \notin y.red
    BY <1>10, <1>12
  <2> QED
    BY <2>1, <2>2, <2>3, <2>4, <2>5 DEF RedCut
<1> QED
  BY <1>15, <1>23, <1>24 DEF Removing

-----------------------------------------------------------------------------

(* The steps that turn the tree, as the code has them: to either side.     *)
LEMMA InnerKeeps ==
    ASSUME NEW S \in SUBSET Node, NEW x, NEW c, Fixing(x, S, c), c \in S, c \in x.red,
           NEW p, x.p[c] = p, p \in x.red, Sib(x, p) \notin x.red
    PROVE  /\ IsLeft(x, c) = IsLeft(x, p) => Outer(x, c)
           /\ IsLeft(x, c) # IsLeft(x, p) =>
                 \A y : y = (IF IsLeft(x, c) THEN RotateRight(x, p) ELSE RotateLeft(x, p)) =>
                           Fixing(y, S, p) /\ p \in S /\ p \in y.red /\ Outer(y, p)
<1>1. PICK d, h : Shape(x, S) /\ Deep(x, d) /\ Levels(x, S, h, Nil, Nil) /\ RedFix(x, c)
  BY DEF Fixing
<1>2. Family(x, S, d)
  BY <1>1, Kin
<1>3. x \in Tree /\ c \in Ref /\ p \in Ref /\ p # Nil /\ Nil \notin x.red
  BY <1>1 DEF Shape, Tree, Ref
<1>4. PICK g : x.p[p] = g
  OBVIOUS
<1>5. Kindred(x, S, d, c)
  BY <1>2, <1>3 DEF Family
<1>6. p \in S /\ p # c
  BY <1>5 DEF Kindred
<1>7. g # Nil /\ g \in Ref
  BY <1>1, <1>3, <1>4, <1>6 DEF RedFix, Shape, Tree
<1>8. Kindred(x, S, d, p)
  BY <1>2, <1>3, <1>4, <1>7 DEF Family
<1>9. CASE IsLeft(x, c) /\ IsLeft(x, p)
  BY <1>4, <1>5, <1>7, <1>8, <1>9 DEF Kindred, Outer
<1>10. CASE ~ IsLeft(x, c) /\ ~ IsLeft(x, p)
  <2>1. x.r[p] = c /\ x.r[g] = p /\ x.l[g] \notin x.red
    BY <1>4, <1>5, <1>8, <1>10 DEF Kindred
  <2>2. Outer(x, c)
    BY <1>4, <1>7, <2>1 DEF Outer
  <2>3. IsLeft(x, c) = IsLeft(x, p)
    BY <1>10 DEF IsLeft
  <2> QED
    BY <2>2, <2>3
<1>11. CASE ~ IsLeft(x, c) /\ IsLeft(x, p)
  <2>1. x.r[p] = c /\ x.l[g] = p /\ x.r[g] \notin x.red /\ g \in S /\ p \in Node /\ x.r[p] # Nil
    BY <1>1, <1>4, <1>5, <1>6, <1>8, <1>11, TreeAssumption DEF Kindred
  <2>2. Turned(x, RotateLeft(x, p), p)
    BY <1>1, <2>1, LeftTurns
  <2>3. PICK y : y = RotateLeft(x, p)
    OBVIOUS
  <2>4. Fixing(y, S, p) /\ p \in S /\ p \in y.red /\ Outer(y, p)
    BY <2>1, <2>2, <2>3, InnerTurn
  <2> QED
    BY <1>11, <2>3, <2>4
<1>12. CASE IsLeft(x, c) /\ ~ IsLeft(x, p)
  <2>1. x.l[p] = c /\ x.r[g] = p /\ x.l[g] \notin x.red /\ g \in S /\ p \in Node /\ x.l[p] # Nil
    BY <1>1, <1>4, <1>5, <1>6, <1>8, <1>12, TreeAssumption DEF Kindred
  <2>2. RotateRight(x, p) \in Tree /\ Turned(Mirror(x), Mirror(RotateRight(x, p)), p)
    BY <1>1, <2>1, RightTurns
  <2>3. PICK y, mx, my : y = RotateRight(x, p) /\ mx = Mirror(x) /\ my = Mirror(y)
    OBVIOUS
  <2>4. mx.l = x.r /\ mx.r = x.l /\ mx.p = x.p /\ mx.red = x.red /\ Fixing(mx, S, c) /\ my.red = y.red
    BY <1>3, <2>2, <2>3, MirrorShape, MirrorSame
  <2>5. mx.r[p] = c /\ mx.l[g] = p /\ mx.r[g] \notin mx.red /\ c \in mx.red /\ p \in mx.red
    BY <2>1, <2>4
  <2>6. Fixing(my, S, p) /\ p \in S /\ p \in my.red /\ Outer(my, p)
    BY <2>1, <2>2, <2>3, <2>4, <2>5, InnerTurn
  <2>7. Fixing(y, S, p) /\ p \in S /\ p \in y.red /\ Outer(y, p)
    BY <2>2, <2>3, <2>4, <2>6, MirrorSame
  <2> QED
    BY <1>12, <2>3, <2>7
<1> QED
  BY <1>9, <1>10, <1>11, <1>12

(* The colours given by two calls one after the other.                     *)
LEMMA PaintTwice ==
    ASSUME NEW x \in Tree, NEW m \in Ref, NEW n \in Ref
    PROVE  /\ Repainted(x, Paint(Paint(x, m, FALSE), n, TRUE), (x.red \ {m}) \cup {n})
           /\ Repainted(x, Paint(Paint(x, m, TRUE), n, FALSE), (x.red \cup {m}) \ {n})
  BY DEF Paint, Tree, Repainted

(* The turns of the outer case, to either side.                            *)
LEMMA OuterKeeps ==
    ASSUME NEW S \in SUBSET Node, NEW x, NEW c, Fixing(x, S, c), c \in S, c \in x.red,
           Outer(x, c), NEW p, x.p[c] = p, NEW g, x.p[p] = g,
           NEW z, Repainted(x, z, (x.red \ {p}) \cup {g}), NEW y,
           IsLeft(x, p) => y = RotateRight(z, g), ~ IsLeft(x, p) => y = RotateLeft(z, g)
    PROVE  Fixing(y, S, c) /\ c \in S /\ c \in y.red
<1>1. PICK d, h : Shape(x, S) /\ Deep(x, d) /\ Levels(x, S, h, Nil, Nil) /\ RedFix(x, c)
  BY DEF Fixing
<1>2. Family(x, S, d)
  BY <1>1, Kin
<1>3. x \in Tree /\ c \in Ref /\ p \in Ref /\ Nil \notin x.red /\ g \in Ref
  BY <1>1 DEF Shape, Tree, Ref
<1>4. p \in x.red /\ g # Nil /\ p # Nil
  BY <1>3 DEF Outer
<1>5. Kindred(x, S, d, c) /\ Kindred(x, S, d, p)
  BY <1>2, <1>3, <1>4 DEF Family
<1>6. g \in S /\ g \in Node
  BY <1>5 DEF Kindred
<1>8. Shape(z, S) /\ Deep(z, d) /\ z \in Tree /\ z.l = x.l /\ z.r = x.r
  <2>1. Nil \notin (x.red \ {p}) \cup {g}
    BY <1>3, <1>4
  <2> QED
    BY <1>1, <2>1, SameShape DEF Repainted
<1>9. CASE x.r[p] = c /\ x.r[g] = p /\ x.l[g] \notin x.red
  <2>1. ~ IsLeft(x, p)
    BY <1>5, <1>9 DEF Kindred, IsLeft
  <2>2. Turned(z, y, g)
    BY <1>4, <1>6, <1>8, <1>9, <2>1, LeftTurns
  <2> QED
    BY <1>4, <1>6, <1>9, <2>2, OuterTurn
<1>10. CASE x.l[p] = c /\ x.l[g] = p /\ x.r[g] \notin x.red
  <2>1. IsLeft(x, p)
    BY <1>10 DEF IsLeft
  <2>2. y = RotateRight(z, g)
    BY <2>1
  <2>3. y \in Tree /\ Turned(Mirror(z), Mirror(y), g)
    BY <1>4, <1>6, <1>8, <1>10, <2>2, RightTurns
  <2>4. PICK mx, my, mz : mx = Mirror(x) /\ my = Mirror(y) /\ mz = Mirror(z)
    OBVIOUS
  <2>5. /\ mx.l = x.r /\ mx.r = x.l /\ mx.red = x.red /\ my.red = y.red
        /\ Fixing(mx, S, c) /\ Repainted(mx, mz, (x.red \ {p}) \cup {g})
    BY <1>3, <1>8, <2>3, <2>4, MirrorShape, MirrorSame, MirrorRepainted
  <2>6. /\ mx.r[p] = c /\ mx.r[g] = p /\ mx.l[g] \notin mx.red /\ c \in mx.red /\ p \in mx.red
        /\ Repainted(mx, mz, (mx.red \ {p}) \cup {g})
    BY <1>4, <1>10, <2>5
  <2>7. Fixing(my, S, c) /\ c \in S /\ c \in my.red
    BY <1>6, <2>3, <2>4, <2>5, <2>6, OuterTurn
  <2> QED
    BY <2>3, <2>4, <2>5, <2>7, MirrorSame
<1> QED
  BY <1>9, <1>10 DEF Outer

(* The turn for a red sibling, to either side.                             *)
LEMMA RedSiblingKeeps ==
    ASSUME NEW S \in SUBSET Node, NEW x, NEW c, NEW k, Removing(x, S, k, c), c \in Node,
           k \in S, NEW p, x.p[c] = p, p # Nil, NEW s, Sib(x, c) = s, s \in x.red,
           NEW z, Repainted(x, z, (x.red \cup {p}) \ {s}), NEW y,
           IsLeft(x, c) => y = RotateLeft(z, p), ~ IsLeft(x, c) => y = RotateRight(z, p)
    PROVE  Removing(y, S, k, c) /\ Near(y, c)
<1>1. PICK d : Shape(x, S) /\ Deep(x, d)
  BY DEF Removing
<1>2. Family(x, S, d)
  BY <1>1, Kin
<1>3. x \in Tree /\ c \in Ref /\ p \in Ref /\ Nil \notin x.red /\ s \in Ref /\ s # Nil
  BY <1>1 DEF Shape, Tree, Ref
<1>4. Kindred(x, S, d, c)
  BY <1>2, <1>3 DEF Family
<1>5. p \in S /\ p \in Node
  BY <1>4 DEF Kindred
<1>7. Shape(z, S) /\ Deep(z, d) /\ z \in Tree /\ z.l = x.l /\ z.r = x.r
  <2>1. Nil \notin (x.red \cup {p}) \ {s}
    BY <1>3
  <2> QED
    BY <1>1, <2>1, SameShape DEF Repainted
<1>8. CASE IsLeft(x, c)
  <2>1. x.l[p] = c /\ x.r[p] = s
    BY <1>4, <1>8 DEF Kindred
  <2>2. Turned(z, y, p)
    BY <1>3, <1>5, <1>7, <1>8, <2>1, LeftTurns
  <2> QED
    BY <1>5, <2>1, <2>2, RedSiblingTurn
<1>9. CASE ~ IsLeft(x, c)
  <2>1. x.r[p] = c /\ x.l[p] = s
    BY <1>4, <1>9 DEF Kindred
  <2>2. y = RotateRight(z, p)
    BY <1>9
  <2>3. y \in Tree /\ Turned(Mirror(z), Mirror(y), p)
    BY <1>3, <1>5, <1>7, <2>1, <2>2, RightTurns
  <2>4. PICK mx, my, mz : mx = Mirror(x) /\ my = Mirror(y) /\ mz = Mirror(z)
    OBVIOUS
  <2>5. /\ mx.l = x.r /\ mx.r = x.l /\ mx.red = x.red
        /\ Removing(mx, S, k, c) /\ Repainted(mx, mz, (x.red \cup {p}) \ {s})
    BY <1>3, <1>7, <2>4, MirrorShape, MirrorSame, MirrorRepainted
  <2>6. /\ mx.l[p] = c /\ mx.r[p] = s /\ s \in mx.red
        /\ Repainted(mx, mz, (mx.red \cup {p}) \ {s})
    BY <2>1, <2>5
  <2>7. Removing(my, S, k, c) /\ Near(my, c)
    BY <1>5, <2>3, <2>4, <2>5, <2>6, RedSiblingTurn
  <2> QED
    BY <2>3, <2>4, <2>7, MirrorSame
<1> QED
  BY <1>8, <1>9

(* The turn for a red near nephew, to either side.                         *)
LEMMA NephewKeeps ==
    ASSUME NEW S \in SUBSET Node, NEW x, NEW c, NEW k, Removing(x, S, k, c), Near(x, c),
           c \in Node, k \in S, NEW s, Sib(x, c) = s, NEW a, a \in x.red, NEW f, f \notin x.red,
           IsLeft(x, c) => x.l[s] = a /\ x.r[s] = f, ~ IsLeft(x, c) => x.r[s] = a /\ x.l[s] = f,
           NEW z, Repainted(x, z, (x.red \cup {s}) \ {a}), NEW y,
           IsLeft(x, c) => y = RotateRight(z, s), ~ IsLeft(x, c) => y = RotateLeft(z, s)
    PROVE  Removing(y, S, k, c) /\ Near(y, c) /\ Far(y, c)
<1>1. PICK d : Shape(x, S) /\ Deep(x, d)
  BY DEF Removing
<1>2. Family(x, S, d)
  BY <1>1, Kin
<1>3. PICK p : x.p[c] = p
  OBVIOUS
<1>4. /\ x \in Tree /\ c \in Ref /\ p \in Ref /\ p # Nil /\ Nil \notin x.red /\ a \in Ref /\ a # Nil
      /\ x.l[Nil] = Nil /\ x.r[Nil] = Nil
  BY <1>1, <1>3 DEF Shape, Tree, Ref, Near
<1>5. Kindred(x, S, d, c)
  BY <1>2, <1>3, <1>4 DEF Family
<1>6. p \in S /\ s \in Ref /\ s # Nil
  BY <1>3, <1>4, <1>5 DEF Kindred, Tree
<1>7. s \in Node
  BY <1>6 DEF Ref
<1>8. Shape(z, S) /\ Deep(z, d) /\ z \in Tree /\ z.l = x.l /\ z.r = x.r
  <2>1. Nil \notin (x.red \cup {s}) \ {a}
    BY <1>4, <1>6
  <2> QED
    BY <1>1, <2>1, SameShape DEF Repainted
<1>9. CASE ~ IsLeft(x, c)
  <2>1. x.r[p] = c /\ x.l[p] = s /\ x.r[s] = a /\ x.l[s] = f
    BY <1>3, <1>5, <1>9 DEF Kindred
  <2>2. Turned(z, y, s)
    BY <1>4, <1>7, <1>8, <1>9, <2>1, LeftTurns
  <2> QED
    BY <1>6, <2>1, <2>2, NephewTurn
<1>10. CASE IsLeft(x, c)
  <2>1. x.l[p] = c /\ x.r[p] = s /\ x.l[s] = a /\ x.r[s] = f
    BY <1>3, <1>5, <1>10 DEF Kindred
  <2>2. y = RotateRight(z, s)
    BY <1>10
  <2>3. y \in Tree /\ Turned(Mirror(z), Mirror(y), s)
    BY <1>4, <1>7, <1>8, <2>1, <2>2, RightTurns
  <2>4. PICK mx, my, mz : mx = Mirror(x) /\ my = Mirror(y) /\ mz = Mirror(z)
    OBVIOUS
  <2>5. /\ mx.l = x.r /\ mx.r = x.l /\ mx.red = x.red /\ Near(mx, c)
        /\ Removing(mx, S, k, c) /\ Repainted(mx, mz, (x.red \cup {s}) \ {a})
    BY <1>4, <1>8, <2>4, MirrorShape, MirrorSame, MirrorRepainted
  <2>6. /\ mx.r[p] = c /\ mx.l[p] = s /\ mx.r[s] = a /\ mx.l[s] \notin mx.red /\ a \in mx.red
        /\ Repainted(mx, mz, (mx.red \cup {s}) \ {a})
    BY <2>1, <2>5
  <2>8. Turned(mz, my, s)
    BY <2>3, <2>4
  <2>9. /\ Removing(mx, S, k, c) /\ Near(mx, c) /\ c = mx.r[p] /\ s = mx.l[p] /\ a = mx.r[s]
        /\ a \in mx.red /\ mx.l[s] \notin mx.red /\ Repainted(mx, mz, (mx.red \cup {s}) \ {a})
    BY <2>5, <2>6
  <2>7. Removing(my, S, k, c) /\ Near(my, c) /\ Far(my, c)
    BY <1>6, <2>8, <2>9, NephewTurn
  <2> QED
    BY <2>3, <2>4, <2>7, MirrorSame
<1> QED
  BY <1>9, <1>10

(* The last turn of a removal, to either side.                             *)
LEMMA FarKeeps ==
    ASSUME NEW S \in SUBSET Node, NEW x, NEW c, NEW k, Removing(x, S, k, c), Near(x, c),
           Far(x, c), c \in Node, k \in S, NEW p, x.p[c] = p, NEW s, Sib(x, c) = s, NEW f,
           IsLeft(x, c) => x.r[s] = f, ~ IsLeft(x, c) => x.l[s] = f,
           NEW z, Repainted(x, z, FarPaint(x, p, s, f)), NEW y,
           IsLeft(x, c) => y = RotateLeft(z, p), ~ IsLeft(x, c) => y = RotateRight(z, p)
    PROVE  Removing(y, S, k, Nil)
<1>1. PICK d : Shape(x, S) /\ Deep(x, d)
  BY DEF Removing
<1>2. Family(x, S, d)
  BY <1>1, Kin
<1>3. /\ x \in Tree /\ c \in Ref /\ p \in Ref /\ p # Nil /\ Nil \notin x.red
      /\ x.l[Nil] = Nil /\ x.r[Nil] = Nil
  BY <1>1 DEF Shape, Tree, Ref, Near
<1>4. Kindred(x, S, d, c)
  BY <1>2, <1>3 DEF Family
<1>5. p \in S /\ p \in Node
  BY <1>4 DEF Kindred
<1>6. f \in x.red
  BY <1>4 DEF Far, Kindred
<1>7. s # Nil
  BY <1>3, <1>6
<1>8. Shape(z, S) /\ Deep(z, d) /\ z \in Tree /\ z.l = x.l /\ z.r = x.r
  <2>1. Nil \notin FarPaint(x, p, s, f)
    BY <1>3, <1>7 DEF FarPaint
  <2> QED
    BY <1>1, <2>1, SameShape DEF Repainted
<1>9. CASE IsLeft(x, c)
  <2>1. x.l[p] = c /\ x.r[p] = s /\ x.r[s] = f
    BY <1>4, <1>9 DEF Kindred
  <2>2. Turned(z, y, p)
    BY <1>5, <1>7, <1>8, <1>9, <2>1, LeftTurns
  <2> QED
    BY <1>5, <1>6, <2>1, <2>2, FarTurn
<1>10. CASE ~ IsLeft(x, c)
  <2>1. x.r[p] = c /\ x.l[p] = s /\ x.l[s] = f
    BY <1>4, <1>10 DEF Kindred
  <2>2. y = RotateRight(z, p)
    BY <1>10
  <2>3. y \in Tree /\ Turned(Mirror(z), Mirror(y), p)
    BY <1>5, <1>7, <1>8, <2>1, <2>2, RightTurns
  <2>4. PICK mx, my, mz : mx = Mirror(x) /\ my = Mirror(y) /\ mz = Mirror(z)
    OBVIOUS
  <2>5. /\ mx.l = x.r /\ mx.r = x.l /\ mx.red = x.red /\ Near(mx, c)
        /\ Removing(mx, S, k, c) /\ Repainted(mx, mz, FarPaint(x, p, s, f))
    BY <1>3, <1>8, <2>4, MirrorShape, MirrorSame, MirrorRepainted
  <2>6. /\ mx.l[p] = c /\ mx.r[p] = s /\ mx.r[s] = f /\ f \in mx.red
        /\ FarPaint(mx, p, s, f) = FarPaint(x, p, s, f)
    BY <1>6, <2>1, <2>5 DEF FarPaint
  <2>7. Removing(my, S, k, Nil)
    BY <1>5, <2>3, <2>4, <2>5, <2>6, FarTurn
  <2> QED
    BY <2>3, <2>4, <2>7, MirrorSame
<1> QED
  BY <1>9, <1>10

(* A place whose subtree is short of a black node, its parent and its      *)
(* sibling.                                                                *)
Beside(x, S, d, h, B, c, k, p, s) ==
    /\ Shape(x, S) /\ Deep(x, d) /\ Levels(x, S, h, c, k)
    /\ RedCut(x, k, c) /\ Path(x, S, d, B, c, k)
    /\ p \in S /\ s \in S /\ c \in S /\ p # s /\ c # s /\ c # p
    /\ x.p[s] = p /\ x.p[c] = p
    /\ x.l[p] \in {c, s} /\ x.r[p] \in {c, s} /\ x.l[p] # x.r[p]
    /\ p \notin B /\ s \notin B /\ k # p /\ k # s
    /\ d[p] \in Nat /\ d[c] \in Nat /\ d[p] < d[c]
    /\ h[s] = h[c] + 1 /\ h[p] = h[c] + 1 + (IF p \in x.red THEN 0 ELSE 1)
    /\ h[c] \in Nat
    /\ \A n \in Ref : x.p[n] = p => n \in {c, s}

(* A place that is short of a black node has a sibling: there is a black   *)
(* node to make up for on the other side.                                  *)
LEMMA ShortSide ==
    ASSUME NEW S \in SUBSET Node, NEW x, NEW c, NEW k, Removing(x, S, k, c), x.p[c] # Nil,
           c \in Node, k \in S
    PROVE  \E d, h, B : Beside(x, S, d, h, B, c, k, x.p[c], Sib(x, c))
<1>1. PICK d, h, B : /\ Shape(x, S) /\ Deep(x, d) /\ Levels(x, S, h, c, k)
                     /\ RedCut(x, k, c) /\ Path(x, S, d, B, c, k)
  BY TreeAssumption DEF Removing
<1>2. Family(x, S, d)
  BY <1>1, Kin
<1>3. PICK p, s : x.p[c] = p /\ Sib(x, c) = s
  OBVIOUS
<1>4. /\ x \in Tree /\ p \in Ref /\ p # Nil /\ c \in Ref /\ c # Nil /\ k # Nil /\ Nil \notin S
      /\ Nil \notin x.red /\ S \subseteq Ref
  BY <1>1, <1>3, TreeAssumption DEF Shape, Tree, Ref
<1>5. Kindred(x, S, d, c)
  BY <1>2, <1>3, <1>4 DEF Family
<1>6. /\ p \in S /\ c \in S /\ p # c /\ d[p] \in Nat /\ d[c] \in Nat /\ d[p] < d[c]
      /\ x.l[p] \in {c, s} /\ x.r[p] \in {c, s} /\ x.l[p] # x.r[p] /\ c # s /\ s \in Ref
      /\ c \in {x.l[p], x.r[p]} /\ s \in {x.l[p], x.r[p]}
  BY <1>3, <1>4, <1>5 DEF Kindred, Tree
<1>7. p \notin B /\ k \in B
  BY <1>1, <1>6 DEF Path
<1>8. /\ h \in [Ref -> Nat] /\ h[Nil] = 0
      /\ \A m : Height(h, c, m) = IF m = c THEN h[m] + 1 ELSE h[m]
      /\ Level(x, h, c, k, p)
  BY <1>1, <1>4, <1>6 DEF Levels, Height
<1>9. h[s] = h[c] + 1 /\ h[p] = h[c] + 1 + (IF p \in x.red THEN 0 ELSE 1) /\ h[c] \in Nat
  <2>1. h[s] = h[c] + 1
    BY <1>6, <1>8 DEF Level
  <2>2. h[p] = h[c] + 1 + Weight(x, p, k)
    BY <1>6, <1>8, <2>1 DEF Level
  <2>3. h[c] \in Nat
    BY <1>4, <1>8
  <2> QED
    BY <1>7, <2>1, <2>2, <2>3 DEF Weight
<1>10. s # Nil
  BY <1>8, <1>9
<1>11. s \in S /\ x.p[s] = p /\ s # p
  <2>1. Begets(x, S, d, p, s)
    BY <1>2, <1>4, <1>6, <1>10 DEF Family
  <2> QED
    BY <2>1 DEF Begets
<1>12. s \notin B
  BY <1>1, <1>6, <1>7, <1>11 DEF Path
<1>13. \A n \in Ref : x.p[n] = p => n \in {c, s}
  <2>1. ASSUME NEW n \in Ref, x.p[n] = p
        PROVE  n \in {c, s}
    <3>1. Kindred(x, S, d, n)
      BY <1>2, <1>4, <2>1 DEF Family
    <3> QED
      BY <1>6, <2>1, <3>1 DEF Kindred
  <2> QED
    BY <2>1
<1>14. Beside(x, S, d, h, B, c, k, p, s)
  BY <1>1, <1>3, <1>6, <1>7, <1>9, <1>11, <1>12, <1>13 DEF Beside
<1> QED
  BY <1>3, <1>14

(* Nothing red about: the sibling turns red, and the parent is short.      *)
LEMMA UpKeeps ==
    ASSUME NEW S \in SUBSET Node, NEW x, NEW c, NEW k, Removing(x, S, k, c), Near(x, c),
           c \in Node, k \in S, NEW p, x.p[c] = p, NEW s, Sib(x, c) = s,
           p \notin x.red, {s, x.l[s], x.r[s]} \cap x.red = {},
           NEW z, Repainted(x, z, x.red \cup {s})
    PROVE  Removing(z, S, k, p) /\ p \in S
<1>1. PICK d, h, B : Beside(x, S, d, h, B, c, k, p, s)
  BY ShortSide DEF Near
<1>2. /\ Shape(x, S) /\ Deep(x, d) /\ Levels(x, S, h, c, k)
      /\ RedCut(x, k, c) /\ Path(x, S, d, B, c, k)
      /\ p \in S /\ s \in S /\ c \in S /\ p # s /\ c # s /\ c # p
      /\ x.p[s] = p /\ x.p[c] = p
      /\ x.l[p] \in {c, s} /\ x.r[p] \in {c, s} /\ x.l[p] # x.r[p]
      /\ p \notin B /\ s \notin B /\ k # p /\ k # s
      /\ d[p] \in Nat /\ d[c] \in Nat /\ d[p] < d[c]
      /\ h[s] = h[c] + 1 /\ h[p] = h[c] + 2 /\ h[c] \in Nat
      /\ \A n \in Ref : x.p[n] = p => n \in {c, s}
  BY <1>1 DEF Beside
<1>3. /\ x \in Tree /\ S \subseteq Ref /\ Nil \notin S /\ Nil \notin x.red /\ x.p[Nil] = Nil
      /\ p # Nil /\ s # Nil /\ c # Nil /\ k # Nil
      /\ z.root = x.root /\ z.l = x.l /\ z.r = x.r /\ z.p = x.p /\ z.red = x.red \cup {s}
  BY <1>2, TreeAssumption DEF Shape, Ref, Repainted
<1>4. Family(x, S, d)
  BY <1>2, Kin
<1>5. Shape(z, S) /\ Deep(z, d)
  BY <1>2, <1>3, SameShape
<1>6. PICK j \in Nat : h[c] = j
  BY <1>2
<1>7. PICK f : f = [h EXCEPT ![s] = j, ![p] = j + 1]
  OBVIOUS
<1>8. /\ h \in [Ref -> Nat] /\ h[Nil] = 0
      /\ \A m : Height(h, c, m) = IF m = c THEN h[m] + 1 ELSE h[m]
      /\ \A m \in S : Level(x, h, c, k, m)
  BY <1>2, <1>3 DEF Levels, Height
<1>9. /\ f \in [Ref -> Nat] /\ f[Nil] = 0 /\ f[s] = j /\ f[p] = j + 1
      /\ \A m \in Ref : m \notin {s, p} => f[m] = h[m]
      /\ \A m : Height(f, p, m) = IF m = p THEN f[m] + 1 ELSE f[m]
  <2>1. /\ f \in [Ref -> Nat] /\ f[Nil] = 0 /\ f[s] = j /\ f[p] = j + 1
        /\ \A m \in Ref : m \notin {s, p} => f[m] = h[m]
    BY <1>2, <1>3, <1>7, <1>8 DEF Ref
  <2> QED
    BY <1>3, <2>1 DEF Height
<1>10. ASSUME NEW m \in S
       PROVE  Level(z, f, p, k, m)
  <2>1. PICK i, o : x.l[m] = i /\ x.r[m] = o
    OBVIOUS
  <2>2. i \in Ref /\ o \in Ref /\ m \in Ref /\ m # Nil
    BY <1>3, <2>1 DEF Tree
  <2>3. (i # Nil => Begets(x, S, d, m, i)) /\ (o # Nil => Begets(x, S, d, m, o))
    BY <1>4, <2>1, <2>2 DEF Family
  <2>4. (i # Nil => x.p[i] = m /\ i # m) /\ (o # Nil => x.p[o] = m /\ o # m)
    BY <2>3 DEF Begets
  <2>5. CASE m = p
    <3>1. Height(f, p, x.l[p]) = j /\ Height(f, p, x.r[p]) = j
      BY <1>2, <1>3, <1>6, <1>9
    <3>2. Weight(z, p, k) = 1
      BY <1>2, <1>3 DEF Weight
    <3> QED
      BY <1>3, <1>9, <2>5, <3>1, <3>2 DEF Level
  <2>6. CASE m = s
    <3>0. s \in Node /\ d[s] \in Nat /\ d[p] < d[s]
      BY <1>2, <1>3 DEF Deep
    <3>6. i # p /\ o # p
      BY <1>2, <1>3, <2>3, <2>6, <3>0 DEF Begets
    <3>1. i \notin {c, s, p} /\ o \notin {c, s, p}
      BY <1>2, <1>3, <2>4, <2>6, <3>6
    <3>2. Height(f, p, i) = h[i] /\ Height(f, p, o) = h[o] /\ Height(h, c, i) = h[i] /\ Height(h, c, o) = h[o]
      BY <1>8, <1>9, <2>2, <3>1
    <3>3. Weight(z, s, k) = 0 /\ Weight(x, s, k) = 1
      BY <1>2, <1>3 DEF Weight
    <3>4. h[i] \in Nat
      BY <1>8, <2>2
    <3>5. h[i] = h[o] /\ h[s] = h[i] + 1
      BY <1>8, <2>1, <2>6, <3>2, <3>3 DEF Level
    <3> QED
      BY <1>2, <1>3, <1>6, <1>9, <2>1, <2>6, <3>2, <3>3, <3>4, <3>5 DEF Level
  <2>7. CASE m \notin {p, s}
    <3>1. i \notin {c, s} /\ o \notin {c, s}
      BY <1>2, <1>3, <2>4, <2>7
    <3>2. Height(f, p, i) = Height(h, c, i) /\ Height(f, p, o) = Height(h, c, o)
      BY <1>2, <1>6, <1>8, <1>9, <2>2, <3>1
    <3>3. Weight(z, m, k) = Weight(x, m, k) /\ f[m] = h[m]
      BY <1>3, <1>9, <2>2, <2>7 DEF Weight
    <3> QED
      BY <1>3, <1>8, <2>1, <3>2, <3>3 DEF Level
  <2> QED
    BY <2>5, <2>6, <2>7
<1>11. RedCut(z, k, p)
  <2>1. ASSUME NEW m \in z.red, x.p[m] \in z.red
        PROVE  x.p[m] = k
    <3>1. m \in Ref /\ m # s /\ m # c /\ m \in x.red /\ x.p[m] # p /\ x.p[m] # Nil
      BY <1>2, <1>3, <2>1 DEF Tree, Ref
    <3>2. x.p[m] # s
      <4>1. Kindred(x, S, d, m)
        BY <1>4, <3>1 DEF Family
      <4> QED
        BY <3>1, <4>1 DEF Kindred
    <3> QED
      BY <1>2, <1>3, <2>1, <3>1, <3>2 DEF RedCut
  <2> QED
    BY <1>2, <1>3, <2>1 DEF RedCut, Shape
<1>12. Path(z, S, d, B \cup {p}, p, k)
  <2>1. ASSUME NEW m \in B
        PROVE  x.p[m] \in B \cup {p} /\ d[p] <= d[m]
    BY <1>2, <2>1, <1>3 DEF Path, Deep, Ref
  <2> QED
    BY <1>2, <1>3, <2>1 DEF Path
<1> QED
  BY <1>2, <1>5, <1>9, <1>10, <1>11, <1>12 DEF Removing, Levels

(* A red parent and its black child exchange colours: nothing is short.    *)
LEMMA ExchangeKeeps ==
    ASSUME NEW S \in SUBSET Node, NEW x, NEW c, NEW k, Removing(x, S, k, c), Near(x, c),
           c \in Node, k \in S, NEW p, x.p[c] = p, NEW s, Sib(x, c) = s,
           p \in x.red, {s, x.l[s], x.r[s]} \cap x.red = {},
           NEW z, Repainted(x, z, (x.red \cup {s}) \ {p})
    PROVE  Removing(z, S, k, Nil)
<1>1. PICK d, h, B : Beside(x, S, d, h, B, c, k, p, s)
  BY ShortSide DEF Near
<1>2. /\ Shape(x, S) /\ Deep(x, d) /\ Levels(x, S, h, c, k)
      /\ RedCut(x, k, c)
      /\ p \in S /\ s \in S /\ c \in S /\ p # s /\ c # s /\ c # p
      /\ x.p[s] = p /\ x.p[c] = p
      /\ x.l[p] \in {c, s} /\ x.r[p] \in {c, s} /\ x.l[p] # x.r[p]
      /\ k # p /\ k # s
      /\ h[s] = h[c] + 1 /\ h[p] = h[c] + 1 /\ h[c] \in Nat
      /\ \A n \in Ref : x.p[n] = p => n \in {c, s}
  BY <1>1 DEF Beside
<1>3. /\ x \in Tree /\ S \subseteq Ref /\ Nil \notin S /\ Nil \notin x.red /\ x.p[Nil] = Nil
      /\ p # Nil /\ s # Nil /\ c # Nil /\ k # Nil
      /\ z.root = x.root /\ z.l = x.l /\ z.r = x.r /\ z.p = x.p /\ z.red = (x.red \cup {s}) \ {p}
  BY <1>2, TreeAssumption DEF Shape, Ref, Repainted
<1>4. Family(x, S, d)
  BY <1>2, Kin
<1>5. Shape(z, S) /\ Deep(z, d)
  BY <1>2, <1>3, SameShape
<1>6. PICK j \in Nat : h[c] = j
  BY <1>2
<1>7. PICK f : f = [h EXCEPT ![s] = j]
  OBVIOUS
<1>8. /\ h \in [Ref -> Nat] /\ h[Nil] = 0
      /\ \A m : Height(h, c, m) = IF m = c THEN h[m] + 1 ELSE h[m]
      /\ \A m \in S : Level(x, h, c, k, m)
  BY <1>2, <1>3 DEF Levels, Height
<1>9. /\ f \in [Ref -> Nat] /\ f[Nil] = 0 /\ f[s] = j
      /\ \A m \in Ref : m # s => f[m] = h[m]
      /\ \A m : Height(f, Nil, m) = f[m]
  <2>1. /\ f \in [Ref -> Nat] /\ f[Nil] = 0 /\ f[s] = j
        /\ \A m \in Ref : m # s => f[m] = h[m]
    BY <1>2, <1>3, <1>7, <1>8 DEF Ref
  <2> QED
    BY <1>3, <2>1 DEF Height
<1>10. ASSUME NEW m \in S
       PROVE  Level(z, f, Nil, k, m)
  <2>1. PICK i, o : x.l[m] = i /\ x.r[m] = o
    OBVIOUS
  <2>2. i \in Ref /\ o \in Ref /\ m \in Ref /\ m # Nil
    BY <1>3, <2>1 DEF Tree
  <2>3. (i # Nil => Begets(x, S, d, m, i)) /\ (o # Nil => Begets(x, S, d, m, o))
    BY <1>4, <2>1, <2>2 DEF Family
  <2>4. (i # Nil => x.p[i] = m /\ i # m) /\ (o # Nil => x.p[o] = m /\ o # m)
    BY <2>3 DEF Begets
  <2>5. CASE m = p
    <3>1. Height(f, Nil, x.l[p]) = j /\ Height(f, Nil, x.r[p]) = j
      BY <1>2, <1>3, <1>6, <1>9
    <3>2. Weight(z, p, k) = 1 /\ f[p] = j + 1
      BY <1>2, <1>3, <1>6, <1>9 DEF Weight
    <3> QED
      BY <1>3, <1>9, <2>5, <3>1, <3>2 DEF Level
  <2>6. CASE m = s
    <3>1. i \notin {c, s} /\ o \notin {c, s}
      BY <1>2, <1>3, <2>4, <2>6
    <3>2. Height(f, Nil, i) = h[i] /\ Height(f, Nil, o) = h[o] /\ Height(h, c, i) = h[i] /\ Height(h, c, o) = h[o]
      BY <1>8, <1>9, <2>2, <3>1
    <3>3. Weight(z, s, k) = 0 /\ Weight(x, s, k) = 1
      BY <1>2, <1>3 DEF Weight
    <3>4. h[i] \in Nat
      BY <1>8, <2>2
    <3>5. h[i] = h[o] /\ h[s] = h[i] + 1
      BY <1>8, <2>1, <2>6, <3>2, <3>3 DEF Level
    <3> QED
      BY <1>2, <1>3, <1>6, <1>9, <2>1, <2>6, <3>2, <3>3, <3>4, <3>5 DEF Level
  <2>7. CASE m \notin {p, s}
    <3>1. i \notin {c, s} /\ o \notin {c, s}
      BY <1>2, <1>3, <2>4, <2>7
    <3>2. Height(f, Nil, i) = Height(h, c, i) /\ Height(f, Nil, o) = Height(h, c, o)
      BY <1>8, <1>9, <2>2, <3>1
    <3>3. Weight(z, m, k) = Weight(x, m, k) /\ f[m] = h[m]
      BY <1>3, <1>9, <2>2, <2>7 DEF Weight
    <3> QED
      BY <1>3, <1>8, <2>1, <3>2, <3>3 DEF Level
  <2> QED
    BY <2>5, <2>6, <2>7
<1>11. RedCut(z, k, Nil)
  <2>1. ASSUME NEW m \in z.red, x.p[m] \in z.red
        PROVE  x.p[m] = k
    <3>1. m \in Ref /\ m # s /\ m # c /\ m \in x.red /\ x.p[m] # p /\ x.p[m] # Nil
      BY <1>2, <1>3, <2>1 DEF Tree, Ref
    <3>2. x.p[m] # s
      <4>1. Kindred(x, S, d, m)
        BY <1>4, <3>1 DEF Family
      <4> QED
        BY <3>1, <4>1 DEF Kindred
    <3> QED
      BY <1>2, <1>3, <2>1, <3>1, <3>2 DEF RedCut
  <2> QED
    BY <1>2, <1>3, <2>1 DEF RedCut, Shape
<1> QED
  BY <1>2, <1>5, <1>9, <1>10, <1>11 DEF Removing, Levels

(* The place that is short has become the whole tree.                      *)
LEMMA RootEnds ==
    ASSUME NEW S \in SUBSET Node, NEW x, NEW c, NEW k, Removing(x, S, k, c), c \in Node,
           x.p[c] = Nil
    PROVE  Removing(x, S, k, Nil)
<1>1. PICK d, h, B : /\ Shape(x, S) /\ Deep(x, d) /\ Levels(x, S, h, c, k)
                     /\ RedCut(x, k, c) /\ Path(x, S, d, B, c, k)
  BY TreeAssumption DEF Removing
<1>2. x \in Tree /\ Nil \notin x.red /\ S \subseteq Ref /\ c # Nil /\ Nil \notin S /\ h \in [Ref -> Nat] /\ h[Nil] = 0
  BY <1>1, TreeAssumption DEF Shape, Ref, Levels
<1>3. Levels(x, S, h, Nil, k)
  <2>1. ASSUME NEW m \in S
        PROVE  Level(x, h, Nil, k, m)
    <3>1. x.l[m] # c /\ x.r[m] # c
      BY <1>1, <1>2 DEF Shape
    <3>2. Level(x, h, c, k, m)
      BY <1>1 DEF Levels
    <3> QED
      BY <3>1, <3>2 DEF Level, Height
  <2> QED
    BY <1>2, <2>1 DEF Levels
<1>4. RedCut(x, k, Nil)
  BY <1>1, <1>2 DEF RedCut
<1> QED
  BY <1>1, <1>3, <1>4 DEF Removing

(* Without a red sibling the neighbours are black.                         *)
LEMMA BlackSibling ==
    ASSUME NEW S \in SUBSET Node, NEW x, NEW c, NEW k, Removing(x, S, k, c), c \in Node,
           x.p[c] # Nil, Sib(x, c) \notin x.red
    PROVE  Near(x, c)
<1>1. PICK d : Shape(x, S) /\ Deep(x, d)
  BY DEF Removing
<1>2. Kindred(x, S, d, c)
  BY <1>1, Kin DEF Family, Ref
<1> QED
  BY <1>2 DEF Kindred, Near

(* With the near nephew black, a red nephew is the far one.                *)
LEMMA FarStays ==
    ASSUME NEW S \in SUBSET Node, NEW x, NEW c, NEW k, Removing(x, S, k, c), c \in Node,
           Near(x, c), NEW s, Sib(x, c) = s, {s, x.l[s], x.r[s]} \cap x.red # {},
           NEW a, NEW f, a \notin x.red \/ f \in x.red,
           IsLeft(x, c) => x.l[s] = a /\ x.r[s] = f, ~ IsLeft(x, c) => x.r[s] = a /\ x.l[s] = f
    PROVE  Far(x, c)
<1>1. PICK d : Shape(x, S) /\ Deep(x, d)
  BY DEF Removing
<1>2. PICK p : x.p[c] = p
  OBVIOUS
<1>3. Kindred(x, S, d, c)
  BY <1>1, Kin DEF Family, Ref, Near
<1>4. s \notin x.red
  BY <1>2, <1>3 DEF Near, Kindred
<1>5. CASE IsLeft(x, c)
  BY <1>2, <1>3, <1>4, <1>5 DEF Far, Kindred
<1>6. CASE ~ IsLeft(x, c)
  BY <1>2, <1>3, <1>4, <1>6 DEF Far, Kindred
<1> QED
  BY <1>5, <1>6

(* A red node with one child or none can be taken away at once.            *)
LEMMA RedIsCut ==
    ASSUME NEW S \in SUBSET Node, NEW x, Fixing(x, S, Nil), NEW g \in S, g \in x.red,
           x.l[g] = Nil \/ x.r[g] = Nil
    PROVE  Removing(x, S, g, Nil)
<1>1. PICK d, h : Shape(x, S) /\ Deep(x, d) /\ Levels(x, S, h, Nil, Nil) /\ RedFix(x, Nil)
  BY DEF Fixing
<1>2. Nil \notin x.red
  BY <1>1 DEF Shape
<1>3. RedCut(x, g, Nil)
  BY <1>1, <1>2 DEF RedCut, RedFix
<1>4. Levels(x, S, h, Nil, g)
  <2>1. ASSUME NEW m \in S
        PROVE  Level(x, h, Nil, g, m)
    <3>1. Level(x, h, Nil, Nil, m) /\ m # Nil
      BY <1>1, TreeAssumption DEF Levels
    <3> QED
      BY <3>1 DEF Level, Weight
  <2> QED
    BY <1>1, <2>1 DEF Levels
<1> QED
  BY <1>1, <1>3, <1>4 DEF Removing

(* A black node with a red child, or none: the child turns black in its    *)
(* place, or the tree is short of a black node there.                      *)
LEMMA BlackIsCut ==
    ASSUME NEW S \in SUBSET Node, NEW x, Fixing(x, S, Nil), NEW g \in S, g \notin x.red,
           x.l[g] = Nil \/ x.r[g] = Nil, NEW o, Child(x, g) = o, NEW R,
           R = x.red \/ R = x.red \cup {g}, g \in R <=> o \in x.red, NEW z, Repainted(x, z, R)
    PROVE  Removing(z, S, g, g)
<1>1. PICK d, h : Shape(x, S) /\ Deep(x, d) /\ Levels(x, S, h, Nil, Nil) /\ RedFix(x, Nil)
  BY DEF Fixing
<1>2. Family(x, S, d)
  BY <1>1, Kin
<1>3. /\ x \in Tree /\ Nil \notin x.red /\ S \subseteq Ref /\ Nil \notin S /\ g # Nil /\ g \in Ref
      /\ h \in [Ref -> Nat] /\ h[Nil] = 0 /\ Nil \in Ref
      /\ z.root = x.root /\ z.l = x.l /\ z.r = x.r /\ z.p = x.p /\ z.red = R
  BY <1>1, TreeAssumption DEF Shape, Ref, Levels, Repainted
<1>4. Shape(z, S) /\ Deep(z, d)
  BY <1>1, <1>3, SameShape
<1>5. /\ \A m : Height(h, Nil, m) = h[m]
      /\ \A m \in S : Level(x, h, Nil, Nil, m)
  BY <1>1 DEF Levels, Height
<1>6. h[x.l[g]] = 0 /\ h[x.r[g]] = 0 /\ h[g] = 1
  <2>1. Level(x, h, Nil, Nil, g) /\ Weight(x, g, Nil) = 1
    BY <1>3, <1>5 DEF Weight
  <2> QED
    BY <1>3, <1>5, <2>1 DEF Level
<1>7. PICK f : f = [h EXCEPT ![g] = 0]
  OBVIOUS
<1>8. /\ f \in [Ref -> Nat] /\ f[Nil] = 0 /\ f[g] = 0
      /\ \A m \in Ref : m # g => f[m] = h[m]
      /\ \A m : Height(f, g, m) = IF m = g THEN f[m] + 1 ELSE f[m]
  <2>1. /\ f \in [Ref -> Nat] /\ f[Nil] = 0 /\ f[g] = 0
        /\ \A m \in Ref : m # g => f[m] = h[m]
    BY <1>3, <1>7
  <2> QED
    BY <1>3, <2>1 DEF Height
<1>9. ASSUME NEW m \in S
      PROVE  Level(z, f, g, g, m)
  <2>1. PICK i, j : x.l[m] = i /\ x.r[m] = j
    OBVIOUS
  <2>2. i \in Ref /\ j \in Ref /\ m \in Ref /\ m # Nil
    BY <1>3, <2>1 DEF Tree
  <2>3. Height(f, g, i) = h[i] /\ Height(f, g, j) = h[j]
    BY <1>6, <1>8, <2>2
  <2>4. CASE m = g
    <3>1. Weight(z, g, g) = 0 /\ h[i] = 0 /\ h[j] = 0
      BY <1>6, <2>1, <2>4 DEF Weight
    <3> QED
      BY <1>3, <1>8, <2>1, <2>3, <2>4, <3>1 DEF Level
  <2>5. CASE m # g
    <3>1. Weight(z, m, g) = Weight(x, m, Nil) /\ f[m] = h[m]
      BY <1>3, <1>8, <2>2, <2>5 DEF Weight
    <3> QED
      BY <1>3, <1>5, <2>1, <2>3, <3>1 DEF Level
  <2> QED
    BY <2>4, <2>5
<1>10. \A m \in Ref : x.p[m] = g => m = o /\ m # g
  <2>1. ASSUME NEW m \in Ref, x.p[m] = g
        PROVE  m = o /\ m # g
    <3>1. Kindred(x, S, d, m)
      BY <1>2, <1>3, <2>1 DEF Family
    <3> QED
      BY <1>3, <2>1, <3>1 DEF Kindred, Child
  <2> QED
    BY <2>1
<1>11. RedCut(z, g, g)
  <2>1. \A m \in R : m \in Ref /\ (m = g \/ m \in x.red)
    BY <1>3 DEF Tree
  <2>2. \A m \in R : x.p[m] = g => g \in R
    BY <1>10, <2>1
  <2>3. x.root \in R => x.root = g
    BY <1>1, <1>3, <2>1 DEF RedFix
  <2>4. \A m \in R : x.p[m] \in R => x.p[m] = g \/ m = g
    BY <1>1, <1>3, <2>1 DEF RedFix
  <2> QED
    BY <1>3, <2>2, <2>3, <2>4 DEF RedCut
<1>12. Path(z, S, d, {g}, g, g)
  BY <1>1, <1>3 DEF Path, Deep
<1> QED
  BY <1>4, <1>8, <1>9, <1>11, <1>12 DEF Removing, Levels

(* The end of an insertion: the root is painted black.                     *)
LEMMA RootPaintKeeps ==
    ASSUME NEW S \in SUBSET Node, NEW x, NEW c, Fixing(x, S, c), x.p[c] \notin x.red,
           NEW z, Repainted(x, z, x.red \ {x.root})
    PROVE  Fixing(z, S, Nil)
<1>1. PICK d, h : Shape(x, S) /\ Deep(x, d) /\ Levels(x, S, h, Nil, Nil) /\ RedFix(x, c)
  BY DEF Fixing
<1>3. /\ x \in Tree /\ Nil \notin x.red /\ S \subseteq Ref /\ Nil \notin S
      /\ h \in [Ref -> Nat] /\ h[Nil] = 0 /\ Nil \in Ref
      /\ z.root = x.root /\ z.l = x.l /\ z.r = x.r /\ z.p = x.p /\ z.red = x.red \ {x.root}
  BY <1>1, TreeAssumption DEF Shape, Ref, Levels, Repainted
<1>4. Shape(z, S) /\ Deep(z, d)
  BY <1>1, <1>3, SameShape
<1>5. RedFix(z, Nil)
  BY <1>1, <1>3 DEF RedFix
<1>6. /\ \A m : Height(h, Nil, m) = h[m]
      /\ \A m \in S : Level(x, h, Nil, Nil, m)
  BY <1>1 DEF Levels, Height
<1>7. CASE x.root \notin x.red
  <2>1. \A m \in S : Level(z, h, Nil, Nil, m)
    BY <1>3, <1>6, <1>7 DEF Level, Weight
  <2> QED
    BY <1>1, <1>4, <1>5, <2>1 DEF Fixing, Levels
<1>8. CASE x.root \in x.red
  <2>1. PICK b : x.root = b
    OBVIOUS
  <2>2. PICK f : f = [h EXCEPT ![b] = h[b] + 1]
    OBVIOUS
  <2>3. b \in S /\ b # Nil /\ x.p[b] = Nil /\ b \in Ref /\ b \in x.red
    BY <1>1, <1>3, <1>8, <2>1 DEF Shape
  <2>4. /\ f \in [Ref -> Nat] /\ f[Nil] = 0 /\ f[b] = h[b] + 1
        /\ \A m \in Ref : m # b => f[m] = h[m]
        /\ \A m : Height(f, Nil, m) = f[m]
    BY <1>3, <2>2, <2>3 DEF Height
  <2>5. ASSUME NEW m \in S
        PROVE  Level(z, f, Nil, Nil, m)
    <3>1. PICK i, j : x.l[m] = i /\ x.r[m] = j
      OBVIOUS
    <3>2. i \in Ref /\ j \in Ref /\ m \in Ref /\ m # Nil /\ i # b /\ j # b
      BY <1>1, <1>3, <2>3, <3>1 DEF Tree, Shape
    <3>3. f[i] = h[i] /\ f[j] = h[j] /\ h[i] \in Nat
      BY <1>3, <2>4, <3>2
    <3>4. h[i] = h[j] /\ h[m] = h[i] + Weight(x, m, Nil)
      BY <1>6, <3>1 DEF Level
    <3>5. CASE m = b
      <4>1. Weight(x, m, Nil) = 0 /\ Weight(z, m, Nil) = 1
        BY <1>3, <2>1, <2>3, <3>5 DEF Weight
      <4> QED
        BY <1>3, <2>4, <3>1, <3>3, <3>4, <3>5, <4>1 DEF Level
    <3>6. CASE m # b
      <4>1. Weight(x, m, Nil) = Weight(z, m, Nil) /\ f[m] = h[m]
        BY <1>3, <2>1, <2>4, <3>2, <3>6 DEF Weight
      <4> QED
        BY <1>3, <2>4, <3>1, <3>3, <3>4, <4>1 DEF Level
    <3> QED
      BY <3>5, <3>6
  <2> QED
    BY <1>4, <1>5, <2>4, <2>5 DEF Fixing, Levels
<1> QED
  BY <1>7, <1>8

(* A node that is not in the tree is painted red.                          *)
LEMMA NewPaintKeeps ==
    ASSUME NEW S \in SUBSET Node, NEW x, Fixing(x, S, Nil), NEW n \in Node \ S,
           NEW z, Repainted(x, z, x.red \cup {n})
    PROVE  Fixing(z, S, Nil)
<1>1. PICK d, h : Shape(x, S) /\ Deep(x, d) /\ Levels(x, S, h, Nil, Nil) /\ RedFix(x, Nil)
  BY DEF Fixing
<1>2. Family(x, S, d)
  BY <1>1, Kin
<1>3. /\ x \in Tree /\ Nil \notin x.red /\ S \subseteq Ref /\ Nil \notin S /\ n # Nil
      /\ z.root = x.root /\ z.l = x.l /\ z.r = x.r /\ z.p = x.p /\ z.red = x.red \cup {n}
      /\ x.p[n] = Nil
  BY <1>1, TreeAssumption DEF Shape, Ref, Repainted
<1>4. Shape(z, S) /\ Deep(z, d)
  BY <1>1, <1>3, SameShape
<1>5. \A m \in Ref : x.p[m] # n
  <2>1. ASSUME NEW m \in Ref, x.p[m] = n
        PROVE  FALSE
    <3>1. Kindred(x, S, d, m)
      BY <1>2, <1>3, <2>1 DEF Family
    <3> QED
      BY <2>1, <3>1 DEF Kindred
  <2> QED
    BY <2>1
<1>6. RedFix(z, Nil)
  <2>1. \A m \in z.red : m \in Ref
    BY <1>3 DEF Tree, Ref
  <2>2. x.root # n
    BY <1>1, <1>3 DEF Shape
  <2> QED
    BY <1>1, <1>3, <1>5, <2>1, <2>2 DEF RedFix
<1>7. Levels(z, S, h, Nil, Nil)
  <2>1. \A m \in S : Level(z, h, Nil, Nil, m)
    BY <1>1, <1>3 DEF Levels, Level, Weight
  <2> QED
    BY <1>1, <2>1 DEF Levels
<1> QED
  BY <1>4, <1>6, <1>7 DEF Fixing

(* A node hung below another one, on the side where nothing hangs, or at   *)
(* the root of an empty tree.                                              *)
Hung(x, y, n, q, side) ==
    /\ y \in Tree /\ y.red = x.red
    /\ y.root = IF q = Nil THEN n ELSE x.root
    /\ \A m \in Ref : y.p[m] = IF m = n THEN q ELSE x.p[m]
    /\ \A m \in Ref : y.l[m] = IF m = q /\ q # Nil /\ side THEN n ELSE x.l[m]
    /\ \A m \in Ref : y.r[m] = IF m = q /\ q # Nil /\ ~ side THEN n ELSE x.r[m]

(* A red node hung below another one leaves only itself in question.       *)
LEMMA HungKeeps ==
    ASSUME NEW S \in SUBSET Node, NEW x, Fixing(x, S, Nil), NEW n \in Node \ S, n \in x.red,
           NEW q \in S \cup {Nil}, NEW side \in BOOLEAN,
           q = Nil => x.root = Nil,
           q # Nil => IF side THEN x.l[q] = Nil ELSE x.r[q] = Nil,
           NEW y, Hung(x, y, n, q, side)
    PROVE  Fixing(y, S \cup {n}, n)
<1>1. PICK d, h : Shape(x, S) /\ Deep(x, d) /\ Levels(x, S, h, Nil, Nil) /\ RedFix(x, Nil)
  BY DEF Fixing
<1>2. Family(x, S, d)
  BY <1>1, Kin
<1>3. /\ x \in Tree /\ Nil \notin x.red /\ S \subseteq Ref /\ Nil \notin S /\ n # Nil
      /\ x.p[n] = Nil /\ x.l[n] = Nil /\ x.r[n] = Nil /\ n \in Ref /\ q \in Ref /\ q # n
      /\ Nil \in Ref /\ Node \subseteq Ref /\ Nil \notin Node
      /\ x.l[Nil] = Nil /\ x.r[Nil] = Nil /\ x.p[Nil] = Nil
  BY <1>1, TreeAssumption DEF Shape, Ref
<1>4. \A m \in Ref : x.p[m] # n /\ x.l[m] # n /\ x.r[m] # n
  <2>1. ASSUME NEW m \in Ref
        PROVE  x.p[m] # n /\ x.l[m] # n /\ x.r[m] # n
    <3>1. x.p[m] # Nil => Kindred(x, S, d, m)
      BY <1>2 DEF Family
    <3>2. (x.l[m] # Nil => Begets(x, S, d, m, x.l[m])) /\ (x.r[m] # Nil => Begets(x, S, d, m, x.r[m]))
      BY <1>2 DEF Family
    <3> QED
      BY <1>3, <3>1, <3>2 DEF Kindred, Begets
  <2> QED
    BY <2>1
<1>5. /\ y \in Tree /\ y.red = x.red
      /\ y.root = IF q = Nil THEN n ELSE x.root
      /\ \A m \in Ref : y.p[m] = IF m = n THEN q ELSE x.p[m]
      /\ \A m \in Ref : y.l[m] = IF m = q /\ q # Nil /\ side THEN n ELSE x.l[m]
      /\ \A m \in Ref : y.r[m] = IF m = q /\ q # Nil /\ ~ side THEN n ELSE x.r[m]
  BY DEF Hung
<1>6. Shape(y, S \cup {n})
  <2>1. /\ y.l[Nil] = Nil /\ y.r[Nil] = Nil /\ y.p[Nil] = Nil /\ Nil \notin y.red
        /\ y.root # Nil => y.root \in S \cup {n} /\ y.p[y.root] = Nil
    BY <1>1, <1>3, <1>5 DEF Shape
  <2>2. \A m \in S \cup {n} : m = y.root \/ y.p[m] # Nil
    BY <1>1, <1>3, <1>5 DEF Shape
  <2>3. \A m \in Node \ (S \cup {n}) : y.l[m] = Nil /\ y.r[m] = Nil /\ y.p[m] = Nil
    BY <1>1, <1>3, <1>5 DEF Shape
  <2>4. ASSUME NEW m \in Node
        PROVE  /\ y.l[m] # Nil => y.p[y.l[m]] = m /\ y.l[m] # y.r[m]
               /\ y.r[m] # Nil => y.p[y.r[m]] = m
               /\ y.p[m] # Nil => m \in {y.l[y.p[m]], y.r[y.p[m]]}
    <3>1. PICK i, j, w : x.l[m] = i /\ x.r[m] = j /\ x.p[m] = w
      OBVIOUS
    <3>2. /\ i \in Ref /\ j \in Ref /\ w \in Ref /\ m \in Ref /\ i # n /\ j # n /\ w # n
          /\ i # Nil => x.p[i] = m /\ i # j
          /\ j # Nil => x.p[j] = m
          /\ w # Nil => m = x.l[w] \/ m = x.r[w]
      BY <1>1, <1>3, <1>4, <3>1 DEF Shape, Tree
    <3>3. /\ y.l[m] = IF m = q /\ side THEN n ELSE i
          /\ y.r[m] = IF m = q /\ ~ side THEN n ELSE j
          /\ y.p[m] = IF m = n THEN q ELSE w
      BY <1>3, <1>5, <3>1, <3>2
    <3>4. y.p[n] = q /\ y.p[i] = x.p[i] /\ y.p[j] = x.p[j]
      BY <1>3, <1>5, <3>2
    <3>5. w # Nil => m \in {y.l[w], y.r[w]}
      <4>1. w # Nil => x.l[w] \in {y.l[w], Nil} /\ x.r[w] \in {y.r[w], Nil}
        BY <1>3, <1>5, <3>2
      <4> QED
        BY <1>3, <3>2, <4>1
    <3>6. q # Nil => n \in {y.l[q], y.r[q]}
      BY <1>3, <1>5
    <3> QED
      BY <1>3, <3>2, <3>3, <3>4, <3>5, <3>6
  <2> QED
    BY <1>5, <2>1, <2>2, <2>3, <2>4 DEF Shape
<1>7. PICK e : e = [d EXCEPT ![n] = d[q] + 1]
  OBVIOUS
<1>8. Deep(y, e)
  <2>1. d \in [Ref -> Nat] /\ (\A m \in Node : x.p[m] # Nil => d[x.p[m]] < d[m])
    BY <1>1 DEF Deep
  <2>2. e \in [Ref -> Nat] /\ e[n] = d[q] + 1 /\ \A m \in Ref : m # n => e[m] = d[m]
    BY <1>3, <1>7, <2>1
  <2>3. ASSUME NEW m \in Node, y.p[m] # Nil
        PROVE  e[y.p[m]] < e[m]
    <3>1. CASE m = n
      BY <1>3, <1>5, <2>1, <2>2, <3>1
    <3>2. CASE m # n
      <4>1. y.p[m] = x.p[m] /\ x.p[m] # n /\ x.p[m] \in Ref
        BY <1>3, <1>4, <1>5, <3>2 DEF Tree
      <4> QED
        BY <1>3, <2>1, <2>2, <2>3, <3>2, <4>1
    <3> QED
      BY <3>1, <3>2
  <2> QED
    BY <2>2, <2>3 DEF Deep
<1>9. PICK f : f = [h EXCEPT ![n] = 0]
  OBVIOUS
<1>10. /\ f \in [Ref -> Nat] /\ f[Nil] = 0 /\ f[n] = 0
       /\ \A m \in Ref : m # n => f[m] = h[m]
       /\ h[Nil] = 0
       /\ \A m : Height(f, Nil, m) = f[m] /\ Height(h, Nil, m) = h[m]
       /\ \A m \in S : Level(x, h, Nil, Nil, m)
  <2>1. h \in [Ref -> Nat] /\ h[Nil] = 0 /\ \A m \in S : Level(x, h, Nil, Nil, m)
    BY <1>1 DEF Levels
  <2> QED
    BY <1>3, <1>9, <2>1 DEF Height
<1>11. ASSUME NEW m \in S \cup {n}
       PROVE  Level(y, f, Nil, Nil, m)
  <2>0. m \in Ref
    BY <1>3
  <2>1. CASE m = n
    <3>1. y.l[n] = Nil /\ y.r[n] = Nil /\ Weight(y, n, Nil) = 0
      BY <1>3, <1>5 DEF Weight
    <3> QED
      BY <1>10, <2>1, <3>1 DEF Level
  <2>2. CASE m # n
    <3>1. Level(x, h, Nil, Nil, m) /\ m \in S /\ f[m] = h[m]
      BY <1>10, <2>0, <2>2
    <3>2. x.l[m] \in Ref /\ x.r[m] \in Ref /\ x.l[m] # n /\ x.r[m] # n
      BY <1>3, <1>4, <2>0 DEF Tree
    <3>3. f[x.l[m]] = h[x.l[m]] /\ f[x.r[m]] = h[x.r[m]]
      BY <1>10, <3>2
    <3>4. f[y.l[m]] = h[x.l[m]]
      BY <1>3, <1>5, <1>10, <2>0, <3>3
    <3>5. f[y.r[m]] = h[x.r[m]]
      BY <1>3, <1>5, <1>10, <2>0, <3>3
    <3>6. Weight(y, m, Nil) = Weight(x, m, Nil)
      BY <1>5 DEF Weight
    <3> QED
      BY <1>10, <3>1, <3>4, <3>5, <3>6 DEF Level
  <2> QED
    BY <2>1, <2>2
<1>12. RedFix(y, n)
  <2>1. ASSUME NEW m \in y.red, y.p[m] \in y.red, m # n
        PROVE  FALSE
    <3>1. m \in Ref /\ m \in x.red
      BY <1>3, <1>5, <2>1 DEF Tree
    <3> QED
      BY <1>1, <1>3, <1>5, <2>1, <3>1 DEF RedFix
  <2> QED
    BY <1>1, <1>3, <1>5, <2>1 DEF RedFix
<1> QED
  BY <1>6, <1>8, <1>10, <1>11, <1>12 DEF Fixing, Levels

(* Two nodes that change places: the tree is what it was, under other      *)
(* names.                                                                  *)
Other(m, n) == [k \in Ref |-> IF k = m THEN n ELSE IF k = n THEN m ELSE k]

Renames(x, y, o) ==
    /\ y \in Tree
    /\ y.root = o[x.root]
    /\ \A k \in Ref : y.l[k] = o[x.l[o[k]]] /\ y.r[k] = o[x.r[o[k]]] /\ y.p[k] = o[x.p[o[k]]]
    /\ \A k \in Ref : k \in y.red <=> o[k] \in x.red

(* Exchange renames the two nodes of a removal of a node with two          *)
(* children, also where one is the child of the other.                     *)
LEMMA ExchangeGives ==
    ASSUME NEW x \in Tree, NEW m \in Node, NEW n \in Node
    PROVE  Renames(x, Exchange(x, m, n), Other(m, n))
<1>1. PICK o : o = Other(m, n)
  OBVIOUS
<1>2. o \in [Ref -> Ref] /\ \A k \in Ref : o[o[k]] = k
  BY <1>1 DEF Other, Ref
<1>3. \A k \in Ref : (IF k = m THEN n ELSE IF k = n THEN m ELSE k) = o[k]
  BY <1>1 DEF Other
<1>4. PICK y : y = [root |-> o[x.root], l |-> [k \in Ref |-> o[x.l[o[k]]]],
                    r |-> [k \in Ref |-> o[x.r[o[k]]]], p |-> [k \in Ref |-> o[x.p[o[k]]]],
                    red |-> {o[k] : k \in x.red}]
  OBVIOUS
<1>5. Exchange(x, m, n) = y
  <2> DEFINE Same(k) == IF k = m THEN n ELSE IF k = n THEN m ELSE k
  <2>1. x.root \in Ref /\ x.red \subseteq Ref
    BY DEF Tree
  <2>2. \A k \in Ref : Same(k) = o[k]
    BY <1>3
  <2>3. {Same(k) : k \in x.red} = {o[k] : k \in x.red}
    BY <2>1, <2>2
  <2>4. ASSUME NEW f \in [Ref -> Ref]
        PROVE  [k \in Ref |-> Same(f[Same(k)])] = [k \in Ref |-> o[f[o[k]]]]
    <3>1. ASSUME NEW k \in Ref
          PROVE  Same(f[Same(k)]) = o[f[o[k]]]
      <4>1. Same(k) = o[k] /\ o[k] \in Ref
        BY <1>2, <2>2
      <4>2. f[o[k]] \in Ref
        BY <4>1
      <4> HIDE DEF Same
      <4> QED
        BY <2>2, <4>1, <4>2
    <3> HIDE DEF Same
    <3> QED
      BY <3>1
  <2>5. x.l \in [Ref -> Ref] /\ x.r \in [Ref -> Ref] /\ x.p \in [Ref -> Ref]
    BY DEF Tree
  <2>6. Exchange(x, m, n) = [root |-> Same(x.root), l |-> [k \in Ref |-> Same(x.l[Same(k)])],
                             r |-> [k \in Ref |-> Same(x.r[Same(k)])],
                             p |-> [k \in Ref |-> Same(x.p[Same(k)])],
                             red |-> {Same(k) : k \in x.red}]
    BY Zenon DEF Exchange
  <2> HIDE DEF Same
  <2>7. /\ [k \in Ref |-> Same(x.l[Same(k)])] = [k \in Ref |-> o[x.l[o[k]]]]
        /\ [k \in Ref |-> Same(x.r[Same(k)])] = [k \in Ref |-> o[x.r[o[k]]]]
        /\ [k \in Ref |-> Same(x.p[Same(k)])] = [k \in Ref |-> o[x.p[o[k]]]]
    BY <2>4, <2>5
  <2>8. Same(x.root) = o[x.root]
    BY <2>1, <2>2
  <2> QED
    BY <1>4, <2>3, <2>6, <2>7, <2>8, Zenon
<1>6. y \in Tree
  <2>1. /\ x.root \in Ref /\ x.red \subseteq Ref
        /\ \A k \in Ref : x.l[k] \in Ref /\ x.r[k] \in Ref /\ x.p[k] \in Ref
    BY DEF Tree
  <2>2. o[x.root] \in Ref /\ \A k \in Ref : o[k] \in Ref
    BY <1>2, <2>1
  <2>3. {o[k] : k \in x.red} \in SUBSET Ref
    BY <2>1, <2>2
  <2>4. /\ [k \in Ref |-> o[x.l[o[k]]]] \in [Ref -> Ref]
        /\ [k \in Ref |-> o[x.r[o[k]]]] \in [Ref -> Ref]
        /\ [k \in Ref |-> o[x.p[o[k]]]] \in [Ref -> Ref]
    BY <2>1, <2>2
  <2> QED
    BY <1>4, <2>2, <2>3, <2>4 DEF Tree
<1>7. \A k \in Ref : k \in y.red <=> o[k] \in x.red
  <2>1. x.red \subseteq Ref
    BY DEF Tree
  <2> QED
    BY <1>2, <1>4, <2>1
<1> QED
  BY <1>1, <1>4, <1>5, <1>6, <1>7 DEF Renames

(* The tree is as good under the other names.                              *)
LEMMA SwapKeeps ==
    ASSUME NEW S \in SUBSET Node, NEW x, Fixing(x, S, Nil), NEW m \in S, NEW n \in S,
           NEW y, Renames(x, y, Other(m, n))
    PROVE  Fixing(y, S, Nil)
<1>1. PICK d, h : Shape(x, S) /\ Deep(x, d) /\ Levels(x, S, h, Nil, Nil) /\ RedFix(x, Nil)
  BY DEF Fixing
<1>2. PICK o : o = Other(m, n)
  OBVIOUS
<1>3. /\ o \in [Ref -> Ref] /\ o[Nil] = Nil
      /\ \A k \in Ref : o[o[k]] = k
      /\ \A k \in Ref : (k \in S <=> o[k] \in S) /\ (k \in Node <=> o[k] \in Node) /\ (k = Nil <=> o[k] = Nil)
  BY <1>2, TreeAssumption DEF Other, Ref
<1>4. /\ y \in Tree
      /\ y.root = o[x.root]
      /\ \A k \in Ref : y.l[k] = o[x.l[o[k]]] /\ y.r[k] = o[x.r[o[k]]] /\ y.p[k] = o[x.p[o[k]]]
      /\ \A k \in Ref : k \in y.red <=> o[k] \in x.red
  BY <1>2 DEF Renames
<1>5. /\ x \in Tree /\ Nil \in Ref /\ S \subseteq Ref /\ Node \subseteq Ref /\ Nil \notin Node
      /\ Nil \notin x.red
      /\ x.l[Nil] = Nil /\ x.r[Nil] = Nil /\ x.p[Nil] = Nil /\ x.root \in Ref
      /\ \A k \in Ref : x.l[k] \in Ref /\ x.r[k] \in Ref /\ x.p[k] \in Ref
  BY <1>1, TreeAssumption DEF Shape, Ref, Tree
<1>6. \A i, j \in Ref : o[i] = o[j] => i = j
  BY <1>3
<1>7. \A k \in Ref : o[k] \in Ref
  BY <1>3
<1>8. Shape(y, S)
  <2>1. y.l[Nil] = Nil /\ y.r[Nil] = Nil /\ y.p[Nil] = Nil /\ Nil \notin y.red
    BY <1>3, <1>4, <1>5
  <2>2. y.root # Nil => y.root \in S /\ y.p[y.root] = Nil
    BY <1>1, <1>3, <1>4, <1>5 DEF Shape
  <2>3. ASSUME NEW k \in S
        PROVE  k = y.root \/ y.p[k] # Nil
    <3>1. o[k] \in S /\ k \in Ref
      BY <1>3, <1>5
    <3>2. o[k] = x.root \/ x.p[o[k]] # Nil
      BY <1>1, <3>1 DEF Shape
    <3> QED
      BY <1>3, <1>4, <1>5, <1>7, <3>1, <3>2
  <2>4. ASSUME NEW k \in Node \ S
        PROVE  y.l[k] = Nil /\ y.r[k] = Nil /\ y.p[k] = Nil
    <3>1. o[k] \in Node \ S /\ k \in Ref
      BY <1>3, <1>5
    <3>2. x.l[o[k]] = Nil /\ x.r[o[k]] = Nil /\ x.p[o[k]] = Nil
      BY <1>1, <3>1 DEF Shape
    <3> QED
      BY <1>3, <1>4, <3>1, <3>2
  <2>5. ASSUME NEW k \in Node
        PROVE  /\ y.l[k] # Nil => y.p[y.l[k]] = k /\ y.l[k] # y.r[k]
               /\ y.r[k] # Nil => y.p[y.r[k]] = k
               /\ y.p[k] # Nil => k \in {y.l[y.p[k]], y.r[y.p[k]]}
    <3>1. PICK a, i, j, w : o[k] = a /\ x.l[a] = i /\ x.r[a] = j /\ x.p[a] = w
      OBVIOUS
    <3>2. a \in Node /\ k \in Ref /\ a \in Ref /\ o[a] = k
      BY <1>3, <1>5, <3>1
    <3>3. i \in Ref /\ j \in Ref /\ w \in Ref
      BY <1>5, <3>1, <3>2
    <3>4. /\ i # Nil => x.p[i] = a /\ i # j
          /\ j # Nil => x.p[j] = a
          /\ w # Nil => a \in {x.l[w], x.r[w]}
      BY <1>1, <3>1, <3>2 DEF Shape
    <3>5. y.l[k] = o[i] /\ y.r[k] = o[j] /\ y.p[k] = o[w]
      BY <1>4, <3>1, <3>2
    <3>6. /\ y.p[o[i]] = o[x.p[i]] /\ y.p[o[j]] = o[x.p[j]]
          /\ y.l[o[w]] = o[x.l[w]] /\ y.r[o[w]] = o[x.r[w]]
      BY <1>3, <1>4, <1>7, <3>3
    <3>7. (i = Nil <=> o[i] = Nil) /\ (j = Nil <=> o[j] = Nil) /\ (w = Nil <=> o[w] = Nil)
      BY <1>3, <3>3
    <3>8. y.l[k] # Nil => y.p[y.l[k]] = k /\ y.l[k] # y.r[k]
      BY <1>6, <3>2, <3>3, <3>4, <3>5, <3>6, <3>7
    <3>9. y.r[k] # Nil => y.p[y.r[k]] = k
      BY <3>2, <3>4, <3>5, <3>6, <3>7
    <3>10. y.p[k] # Nil => k \in {y.l[y.p[k]], y.r[y.p[k]]}
      BY <3>2, <3>4, <3>5, <3>6, <3>7
    <3> QED
      BY <3>8, <3>9, <3>10
  <2> QED
    BY <1>4, <2>1, <2>2, <2>3, <2>4, <2>5 DEF Shape
<1>9. PICK e : e = [k \in Ref |-> d[o[k]]]
  OBVIOUS
<1>10. Deep(y, e)
  <2>1. d \in [Ref -> Nat] /\ (\A k \in Node : x.p[k] # Nil => d[x.p[k]] < d[k])
    BY <1>1 DEF Deep
  <2>2. e \in [Ref -> Nat] /\ \A k \in Ref : e[k] = d[o[k]]
    BY <1>7, <1>9, <2>1
  <2>3. ASSUME NEW k \in Node, y.p[k] # Nil
        PROVE  e[y.p[k]] < e[k]
    <3>1. PICK a, w : o[k] = a /\ x.p[a] = w
      OBVIOUS
    <3>2. a \in Node /\ k \in Ref /\ a \in Ref
      BY <1>3, <1>5, <3>1
    <3>3. w \in Ref /\ y.p[k] = o[w]
      BY <1>4, <1>5, <3>1, <3>2
    <3>4. w # Nil /\ o[o[w]] = w
      BY <1>3, <2>3, <3>3
    <3>5. e[o[w]] = d[w] /\ e[k] = d[a]
      BY <1>7, <2>2, <3>1, <3>2, <3>3, <3>4
    <3> QED
      BY <2>1, <3>1, <3>2, <3>3, <3>4, <3>5
  <2> QED
    BY <2>2, <2>3 DEF Deep
<1>11. PICK f : f = [k \in Ref |-> h[o[k]]]
  OBVIOUS
<1>12. Levels(y, S, f, Nil, Nil)
  <2>1. /\ h \in [Ref -> Nat] /\ h[Nil] = 0 /\ \A k \in S : Level(x, h, Nil, Nil, k)
        /\ \A k : Height(h, Nil, k) = h[k] /\ Height(f, Nil, k) = f[k]
    BY <1>1 DEF Levels, Height
  <2>2. f \in [Ref -> Nat] /\ f[Nil] = 0 /\ \A k \in Ref : f[k] = h[o[k]]
    BY <1>3, <1>5, <1>7, <1>11, <2>1
  <2>3. ASSUME NEW k \in S
        PROVE  Level(y, f, Nil, Nil, k)
    <3>1. PICK a, i, j : o[k] = a /\ x.l[a] = i /\ x.r[a] = j
      OBVIOUS
    <3>2. a \in S /\ k \in Ref /\ a \in Ref
      BY <1>3, <1>5, <3>1
    <3>3. i \in Ref /\ j \in Ref /\ y.l[k] = o[i] /\ y.r[k] = o[j]
      BY <1>4, <1>5, <3>1, <3>2
    <3>4. f[o[i]] = h[i] /\ f[o[j]] = h[j] /\ f[k] = h[a]
      BY <1>3, <1>7, <2>2, <3>1, <3>2, <3>3
    <3>5. Weight(y, k, Nil) = Weight(x, a, Nil)
      BY <1>3, <1>4, <3>1, <3>2 DEF Weight
    <3>6. Level(x, h, Nil, Nil, a)
      BY <2>1, <3>2
    <3> QED
      BY <2>1, <3>1, <3>3, <3>4, <3>5, <3>6 DEF Level
  <2> QED
    BY <2>2, <2>3 DEF Levels
<1>13. RedFix(y, Nil)
  <2>1. ASSUME NEW k \in y.red, y.p[k] \in y.red
        PROVE  k = Nil
    <3>1. PICK a : o[k] = a
      OBVIOUS
    <3>2. k \in Ref /\ a \in Ref /\ a \in x.red
      BY <1>4, <1>7, <2>1, <3>1 DEF Tree
    <3>3. x.p[a] \in x.red
      BY <1>3, <1>4, <1>5, <1>7, <2>1, <3>1, <3>2
    <3> QED
      BY <1>1, <1>5, <3>2, <3>3 DEF RedFix
  <2>2. y.root \in y.red => y.root = Nil
    <3>1. y.root \in y.red => x.root \in x.red
      BY <1>3, <1>4, <1>5, <1>7
    <3> QED
      BY <1>1, <1>3, <1>4, <3>1 DEF RedFix
  <2> QED
    BY <2>1, <2>2 DEF RedFix
<1> QED
  BY <1>8, <1>10, <1>12, <1>13 DEF Fixing

(* The child c of g takes its place, black if that is the root.            *)
Replaced(x, y, g, c, q) ==
    /\ y \in Tree
    /\ y.root = IF q = Nil THEN c ELSE x.root
    /\ \A m \in Ref : y.l[m] = IF m = g THEN Nil
                               ELSE IF m = q /\ m # Nil /\ x.l[m] = g THEN c ELSE x.l[m]
    /\ \A m \in Ref : y.r[m] = IF m = g THEN Nil
                               ELSE IF m = q /\ m # Nil /\ x.l[m] # g THEN c ELSE x.r[m]
    /\ \A m \in Ref : y.p[m] = IF m = g THEN Nil ELSE IF m = c /\ c # Nil THEN q ELSE x.p[m]
    /\ y.red = {m \in x.red : m # g /\ ~ (q = Nil /\ m = c /\ c # Nil)}

(* A node that is in no tree any more.                                     *)
Forgot(x, y, n) ==
    /\ y \in Tree /\ y.root = x.root /\ y.red = x.red \ {n}
    /\ \A m \in Ref : /\ y.l[m] = IF m = n THEN Nil ELSE x.l[m]
                      /\ y.r[m] = IF m = n THEN Nil ELSE x.r[m]
                      /\ y.p[m] = IF m = n THEN Nil ELSE x.p[m]

LEMMA ForgetGives ==
    ASSUME NEW x \in Tree, NEW n \in Ref
    PROVE  Forgot(x, Forget(x, n), n)
  BY DEF Forget, Tree, Forgot, Ref

(* The end of a removal, as one change of the links.                       *)
LEMMA ReplaceGives ==
    ASSUME NEW x \in Tree, NEW g \in Node, NEW c \in Ref, NEW q, x.p[g] = q, c # g,
           NEW gone, Relink(x, g, c) = gone, NEW w, SetParent(gone, c, q) = w,
           NEW y, Forget(IF q = Nil /\ c # Nil THEN Paint(w, c, FALSE) ELSE w, g) = y
    PROVE  Replaced(x, y, g, c, q)
<1>1. g \in Ref /\ q \in Ref /\ Nil \in Ref
  BY DEF Tree, Ref
<1>2. LinkIs(x, gone, g, c) /\ gone \in Tree
  <2>1. LinkIs(x, gone, g, c)
    BY <1>1, RelinkGives
  <2> QED
    BY <2>1 DEF LinkIs
<1>3. ParentIs(gone, w, c, q) /\ w \in Tree
  <2>1. ParentIs(gone, w, c, q)
    BY <1>1, <1>2, SetParentGives
  <2> QED
    BY <2>1 DEF ParentIs
<1>4. PICK v : (IF q = Nil /\ c # Nil THEN Paint(w, c, FALSE) ELSE w) = v
  OBVIOUS
<1>5. v \in Tree /\ v.root = w.root /\ v.l = w.l /\ v.r = w.r /\ v.p = w.p
      /\ v.red = {m \in w.red : ~ (q = Nil /\ m = c /\ c # Nil)}
  <2>1. CASE q = Nil /\ c # Nil
    <3>1. Repainted(w, v, w.red \ {c})
      BY <1>3, <1>4, <2>1, PaintGives
    <3> QED
      BY <2>1, <3>1 DEF Repainted
  <2>2. CASE ~ (q = Nil /\ c # Nil)
    <3>1. v = w
      BY <1>4, <2>2
    <3> QED
      BY <1>3, <2>2, <3>1
  <2> QED
    BY <2>1, <2>2
<1>6. Forget(v, g) = y
  BY <1>4
<1>7. /\ y \in Tree /\ y.root = v.root /\ y.red = v.red \ {g}
      /\ \A m \in Ref : /\ y.l[m] = IF m = g THEN Nil ELSE v.l[m]
                        /\ y.r[m] = IF m = g THEN Nil ELSE v.r[m]
                        /\ y.p[m] = IF m = g THEN Nil ELSE v.p[m]
  <2>1. v \in Tree
    BY <1>5
  <2>2. Forgot(v, y, g)
    BY <1>1, <1>6, <2>1, ForgetGives
  <2> QED
    BY <2>2 DEF Forgot
<1>8. /\ w.root = gone.root /\ w.l = gone.l /\ w.r = gone.r /\ w.red = gone.red
      /\ \A m \in Ref : w.p[m] = IF m = c /\ c # Nil THEN q ELSE gone.p[m]
  BY <1>3 DEF ParentIs
<1>9. /\ gone.p = x.p /\ gone.red = x.red /\ gone.root = IF q = Nil THEN c ELSE x.root
      /\ \A m \in Ref : gone.l[m] = IF m = q /\ m # Nil /\ x.l[m] = g THEN c ELSE x.l[m]
      /\ \A m \in Ref : gone.r[m] = IF m = q /\ m # Nil /\ x.l[m] # g THEN c ELSE x.r[m]
  BY <1>2 DEF LinkIs
<1>10. y.red = {m \in x.red : m # g /\ ~ (q = Nil /\ m = c /\ c # Nil)}
  BY <1>5, <1>7, <1>8, <1>9
<1> QED
  BY <1>5, <1>7, <1>8, <1>9, <1>10 DEF Replaced

(* The tree without the removed node is good.                              *)
LEMMA ReplaceKeeps ==
    ASSUME NEW S \in SUBSET Node, NEW x, NEW g \in S, Removing(x, S, g, Nil), NEW c,
           Child(x, g) = c, NEW q, x.p[g] = q, NEW y, Replaced(x, y, g, c, q)
    PROVE  Fixing(y, S \ {g}, Nil)
<1>1. PICK d, h : /\ Shape(x, S) /\ Deep(x, d) /\ Levels(x, S, h, Nil, g) /\ RedCut(x, g, Nil)
  BY DEF Removing
<1>2. Family(x, S, d)
  BY <1>1, Kin
<1>3. /\ x \in Tree /\ Nil \notin x.red /\ S \subseteq Ref /\ Nil \notin S /\ g # Nil /\ g \in Ref
      /\ Nil \in Ref /\ Node \subseteq Ref /\ Nil \notin Node /\ q \in Ref /\ c \in Ref /\ g \in Node
      /\ x.l[Nil] = Nil /\ x.r[Nil] = Nil /\ x.p[Nil] = Nil
      /\ x.l[g] = Nil \/ x.r[g] = Nil
  BY <1>1, TreeAssumption DEF Shape, Ref, Tree, Child, RedCut
<1>4. /\ q # Nil => q \in S /\ q # g /\ x.l[q] # x.r[q] /\ (x.l[q] = g \/ x.r[q] = g)
                    /\ d[q] \in Nat /\ d[g] \in Nat /\ d[q] < d[g]
      /\ c # Nil => c \in S /\ c # g /\ x.p[c] = g /\ d[c] \in Nat /\ d[g] \in Nat /\ d[g] < d[c]
      /\ c # Nil => c # q
      /\ c # g
  <2>1. q # Nil => Kindred(x, S, d, g)
    BY <1>2, <1>3 DEF Family
  <2>2. c # Nil => Begets(x, S, d, g, c)
    BY <1>2, <1>3 DEF Family, Child
  <2>3. q # Nil => q \in S /\ q # g /\ x.l[q] # x.r[q] /\ (x.l[q] = g \/ x.r[q] = g)
                   /\ d[q] \in Nat /\ d[g] \in Nat /\ d[q] < d[g]
    BY <1>3, <2>1 DEF Kindred
  <2>4. c # Nil => c \in S /\ c # g /\ x.p[c] = g /\ d[c] \in Nat /\ d[g] \in Nat /\ d[g] < d[c]
    BY <2>2 DEF Begets
  <2> QED
    BY <1>3, <2>3, <2>4
<1>5. \A m \in Ref : x.p[m] = g => m = c
  <2>1. ASSUME NEW m \in Ref, x.p[m] = g
        PROVE  m = c
    <3>1. Kindred(x, S, d, m)
      BY <1>2, <1>3, <2>1 DEF Family
    <3> QED
      BY <1>3, <2>1, <3>1 DEF Kindred, Child
  <2> QED
    BY <2>1
<1>6. \A m \in Ref : (x.l[m] = g => m = q) /\ (x.r[m] = g => m = q)
                     /\ (m # g => (x.l[m] = c => c = Nil) /\ (x.r[m] = c => c = Nil))
  <2>1. ASSUME NEW m \in Ref
        PROVE  /\ x.l[m] = g => m = q
               /\ x.r[m] = g => m = q
               /\ m # g => (x.l[m] = c => c = Nil) /\ (x.r[m] = c => c = Nil)
    <3>1. (x.l[m] # Nil => Begets(x, S, d, m, x.l[m])) /\ (x.r[m] # Nil => Begets(x, S, d, m, x.r[m]))
      BY <1>2 DEF Family
    <3>2. (x.l[m] # Nil => x.p[x.l[m]] = m) /\ (x.r[m] # Nil => x.p[x.r[m]] = m)
      BY <3>1 DEF Begets
    <3> QED
      BY <1>3, <1>4, <3>2
  <2> QED
    BY <2>1
<1>7. /\ y \in Tree
      /\ y.root = IF q = Nil THEN c ELSE x.root
      /\ \A m \in Ref : y.l[m] = IF m = g THEN Nil
                                 ELSE IF m = q /\ m # Nil /\ x.l[m] = g THEN c ELSE x.l[m]
      /\ \A m \in Ref : y.r[m] = IF m = g THEN Nil
                                 ELSE IF m = q /\ m # Nil /\ x.l[m] # g THEN c ELSE x.r[m]
      /\ \A m \in Ref : y.p[m] = IF m = g THEN Nil ELSE IF m = c /\ c # Nil THEN q ELSE x.p[m]
      /\ y.red = {m \in x.red : m # g /\ ~ (q = Nil /\ m = c /\ c # Nil)}
  BY DEF Replaced
<1>8. q = Nil => x.root = g
  BY <1>1 DEF Shape
<1>9. Shape(y, S \ {g})
  <2>1. /\ y.l[Nil] = Nil /\ y.r[Nil] = Nil /\ y.p[Nil] = Nil /\ Nil \notin y.red
    BY <1>3, <1>7
  <2>2. y.root # Nil => y.root \in S \ {g} /\ y.p[y.root] = Nil
    <3>1. CASE q = Nil
      BY <1>3, <1>4, <1>7, <3>1
    <3>2. CASE q # Nil
      BY <1>1, <1>3, <1>4, <1>7, <3>2 DEF Shape
    <3> QED
      BY <3>1, <3>2
  <2>3. \A m \in S \ {g} : m = y.root \/ y.p[m] # Nil
    BY <1>1, <1>3, <1>4, <1>7, <1>8 DEF Shape
  <2>4. \A m \in Node \ (S \ {g}) : y.l[m] = Nil /\ y.r[m] = Nil /\ y.p[m] = Nil
    BY <1>1, <1>3, <1>4, <1>7 DEF Shape
  <2>5. ASSUME NEW m \in Node
        PROVE  /\ y.l[m] # Nil => y.p[y.l[m]] = m /\ y.l[m] # y.r[m]
               /\ y.r[m] # Nil => y.p[y.r[m]] = m
               /\ y.p[m] # Nil => m \in {y.l[y.p[m]], y.r[y.p[m]]}
    <3>1. PICK i, j, w : x.l[m] = i /\ x.r[m] = j /\ x.p[m] = w
      OBVIOUS
    <3>2. /\ i \in Ref /\ j \in Ref /\ w \in Ref /\ m \in Ref /\ m # Nil
          /\ i # Nil => x.p[i] = m /\ i # j
          /\ j # Nil => x.p[j] = m
          /\ w # Nil => m = x.l[w] \/ m = x.r[w]
      BY <1>1, <1>3, <3>1 DEF Shape, Tree
    <3>3. CASE m = g
      BY <1>7, <3>2, <3>3
    <3>4. CASE m # g
      <4>1. /\ y.l[m] = IF m = q /\ i = g THEN c ELSE i
            /\ y.r[m] = IF m = q /\ i # g THEN c ELSE j
            /\ y.p[m] = IF m = c THEN q ELSE w
        BY <1>7, <3>1, <3>2, <3>4
      <4>2. (i = g => m = q) /\ (j = g => m = q) /\ (i = c => c = Nil) /\ (j = c => c = Nil)
        BY <1>6, <3>1, <3>2, <3>4
      <4>3. q = m => i = g \/ j = g
        BY <1>4, <3>1, <3>2
      <4>4. c # Nil => y.p[c] = q
        BY <1>3, <1>4, <1>7
      <4>5. /\ i # Nil /\ i # g => y.p[i] = m
            /\ j # Nil /\ j # g => y.p[j] = m
        BY <1>3, <1>7, <3>2, <4>2
      <4>6. y.l[m] # Nil => y.p[y.l[m]] = m /\ y.l[m] # y.r[m]
        BY <1>3, <3>2, <4>1, <4>2, <4>3, <4>4, <4>5
      <4>7. y.r[m] # Nil => y.p[y.r[m]] = m
        <5>1. CASE m = q /\ i # g
          BY <4>1, <4>4, <5>1
        <5>2. CASE ~ (m = q /\ i # g)
          <6>1. y.r[m] = j
            BY <4>1, <5>2
          <6>2. j # Nil => j # g
            BY <1>3, <3>2, <4>2, <5>2
          <6> QED
            BY <4>5, <6>1, <6>2
        <5> QED
          BY <5>1, <5>2
      <4>8. y.p[m] # Nil => m \in {y.l[y.p[m]], y.r[y.p[m]]}
        <5>1. CASE m = c
          <6>1. y.p[m] = q
            BY <4>1, <5>1
          <6>2. q # Nil => q # g /\ (y.l[q] = c \/ y.r[q] = c)
            BY <1>3, <1>4, <1>7
          <6> QED
            BY <5>1, <6>1, <6>2
        <5>2. CASE m # c
          <6>1. y.p[m] = w /\ w # g
            BY <1>5, <3>1, <3>2, <4>1, <5>2
          <6>2. w # Nil => (x.l[w] = m => y.l[w] = m)
            BY <1>7, <3>2, <3>4, <6>1
          <6>3. w # Nil => (x.r[w] = m => y.r[w] = m)
            BY <1>4, <1>7, <3>2, <3>4, <6>1
          <6> QED
            BY <3>2, <6>1, <6>2, <6>3
        <5> QED
          BY <5>1, <5>2
      <4> QED
        BY <4>6, <4>7, <4>8
    <3> QED
      BY <3>3, <3>4
  <2> QED
    BY <1>7, <2>1, <2>2, <2>3, <2>4, <2>5 DEF Shape
<1>10. Deep(y, d)
  <2>1. d \in [Ref -> Nat] /\ (\A m \in Node : x.p[m] # Nil => d[x.p[m]] < d[m])
    BY <1>1 DEF Deep
  <2>2. ASSUME NEW m \in Node, y.p[m] # Nil
        PROVE  d[y.p[m]] < d[m]
    <3>1. CASE m = c
      BY <1>3, <1>4, <1>7, <2>2, <3>1
    <3>2. CASE m # c
      BY <1>3, <1>7, <2>1, <2>2, <3>2
    <3> QED
      BY <3>1, <3>2
  <2> QED
    BY <2>1, <2>2 DEF Deep
<1>11. /\ h \in [Ref -> Nat] /\ h[Nil] = 0
       /\ \A k : Height(h, Nil, k) = h[k]
       /\ \A k \in S : Level(x, h, Nil, g, k)
  BY <1>1 DEF Levels, Height
<1>12. h[c] = 0 /\ h[g] = 0
  <2>1. Level(x, h, Nil, g, g) /\ Weight(x, g, g) = 0
    BY <1>11 DEF Weight
  <2> QED
    BY <1>3, <1>11, <2>1 DEF Level, Child
<1>13. PICK f : f = IF q = Nil /\ c \in x.red THEN [h EXCEPT ![c] = 1] ELSE h
  OBVIOUS
<1>14. /\ f \in [Ref -> Nat] /\ f[Nil] = 0
       /\ \A m \in Ref : m # c \/ q # Nil \/ c \notin x.red => f[m] = h[m]
       /\ q = Nil /\ c \in x.red => f[c] = 1
       /\ \A k : Height(f, Nil, k) = f[k]
  <2>1. /\ f \in [Ref -> Nat] /\ f[Nil] = 0
        /\ \A m \in Ref : m # c \/ q # Nil \/ c \notin x.red => f[m] = h[m]
        /\ q = Nil /\ c \in x.red => f[c] = 1
    BY <1>3, <1>11, <1>13
  <2> QED
    BY <2>1 DEF Height
<1>15. ASSUME NEW m \in S \ {g}
       PROVE  Level(y, f, Nil, Nil, m)
  <2>1. PICK i, j : x.l[m] = i /\ x.r[m] = j
    OBVIOUS
  <2>2. /\ i \in Ref /\ j \in Ref /\ m \in Ref /\ m # Nil /\ m # g
        /\ (i = g => m = q) /\ (j = g => m = q) /\ (i = c => c = Nil) /\ (j = c => c = Nil)
    BY <1>3, <1>6, <2>1 DEF Tree
  <2>3. f[i] = h[i] /\ f[j] = h[j]
    BY <1>3, <1>14, <2>2
  <2>4. y.l[m] = IF m = q /\ i = g THEN c ELSE i
    BY <1>7, <2>1, <2>2
  <2>5. y.r[m] = IF m = q /\ i # g THEN c ELSE j
    BY <1>7, <2>1, <2>2
  <2>6. m = q => i = g \/ j = g
    BY <1>4, <2>1, <2>2
  <2>7. q # Nil => f[c] = 0
    BY <1>12, <1>14, <1>3
  <2>8. f[y.l[m]] = h[i]
    BY <1>12, <2>2, <2>3, <2>4, <2>7
  <2>9. f[y.r[m]] = h[j]
    BY <1>12, <2>2, <2>3, <2>5, <2>6, <2>7
  <2>10. Level(x, h, Nil, g, m)
    BY <1>11
  <2>11. h[i] = h[j] /\ h[m] = h[i] + Weight(x, m, g)
    BY <1>11, <2>1, <2>10 DEF Level
  <2>12. CASE q = Nil /\ m = c /\ c \in x.red
    <3>1. Weight(y, m, Nil) = 1 /\ Weight(x, m, g) = 0 /\ f[m] = 1 /\ h[m] = 0
      BY <1>7, <1>12, <1>14, <2>2, <2>12 DEF Weight
    <3>2. h[i] \in Nat
      BY <1>11, <2>2
    <3> QED
      BY <1>14, <2>8, <2>9, <2>11, <3>1, <3>2 DEF Level
  <2>13. CASE ~ (q = Nil /\ m = c /\ c \in x.red)
    <3>1. Weight(y, m, Nil) = Weight(x, m, g)
      BY <1>7, <2>2, <2>13 DEF Weight
    <3>2. f[m] = h[m]
      BY <1>14, <2>2, <2>13
    <3> QED
      BY <1>14, <2>8, <2>9, <2>11, <3>1, <3>2 DEF Level
  <2> QED
    BY <2>12, <2>13
<1>16. RedFix(y, Nil)
  <2>1. ASSUME NEW m \in y.red, y.p[m] \in y.red
        PROVE  FALSE
    <3>1. m \in Ref /\ m \in x.red /\ m # g /\ y.p[m] \in x.red /\ y.p[m] # g
      BY <1>3, <1>7, <2>1 DEF Tree
    <3>2. CASE m = c
      <4>1. y.p[m] = q /\ m # Nil
        BY <1>3, <1>7, <3>1, <3>2
      <4>2. g \in x.red
        BY <1>1, <1>4, <3>1, <3>2, <4>1 DEF RedCut
      <4> QED
        BY <1>1, <1>3, <3>1, <4>1, <4>2 DEF RedCut
    <3>3. CASE m # c
      <4>1. y.p[m] = x.p[m]
        BY <1>7, <3>1, <3>3
      <4> QED
        BY <1>1, <1>3, <3>1, <4>1 DEF RedCut
    <3> QED
      BY <3>2, <3>3
  <2>2. y.root \notin y.red
    <3>1. CASE q = Nil
      BY <1>3, <1>7, <3>1
    <3>2. CASE q # Nil
      BY <1>1, <1>3, <1>7, <3>2 DEF RedCut, Shape
    <3> QED
      BY <3>1, <3>2
  <2> QED
    BY <2>1, <2>2 DEF RedFix
<1> QED
  BY <1>9, <1>10, <1>14, <1>15, <1>16 DEF Fixing, Levels

(* The links that Attach writes.                                           *)
LEMMA HangGives ==
    ASSUME NEW x \in Tree, NEW n \in Node, NEW q \in Ref, q # n, NEW side \in BOOLEAN, NEW y,
           (LET v == [x EXCEPT !.p[n] = q]
            IN  IF q = Nil THEN [v EXCEPT !.root = n]
                ELSE IF side THEN [v EXCEPT !.l[q] = n]
                ELSE [v EXCEPT !.r[q] = n]) = y
    PROVE  Hung(x, y, n, q, side)
<1>1. PICK v : [x EXCEPT !.p[n] = q] = v
  OBVIOUS
<1>2. /\ v \in Tree /\ v.root = x.root /\ v.l = x.l /\ v.r = x.r /\ v.red = x.red
      /\ \A m \in Ref : v.p[m] = IF m = n THEN q ELSE x.p[m]
  BY <1>1 DEF Tree
<1>3. (IF q = Nil THEN [v EXCEPT !.root = n]
       ELSE IF side THEN [v EXCEPT !.l[q] = n]
       ELSE [v EXCEPT !.r[q] = n]) = y
  BY <1>1
<1>4. n \in Ref
  BY DEF Ref
<1>5. CASE q = Nil
  <2>1. [v EXCEPT !.root = n] = y
    BY <1>3, <1>5
  <2>2. y \in Tree /\ y.root = n /\ y.l = v.l /\ y.r = v.r /\ y.p = v.p /\ y.red = v.red
    BY <1>2, <1>4, <2>1 DEF Tree
  <2> QED
    BY <1>2, <1>5, <2>2 DEF Hung
<1>6. CASE q # Nil /\ side
  <2>1. [v EXCEPT !.l[q] = n] = y
    BY <1>3, <1>6
  <2>2. LeftIs(v, y, q, n)
    BY <1>2, <1>4, <2>1, ChildGives
  <2> QED
    BY <1>2, <1>6, <2>2 DEF Hung, LeftIs
<1>7. CASE q # Nil /\ ~ side
  <2>1. [v EXCEPT !.r[q] = n] = y
    BY <1>3, <1>7
  <2>2. RightIs(v, y, q, n)
    BY <1>2, <1>4, <2>1, ChildGives
  <2> QED
    BY <1>2, <1>7, <2>2 DEF Hung, RightIs
<1> QED
  BY <1>5, <1>6, <1>7

-----------------------------------------------------------------------------

(* What the tree is at each place of an operation, and what the operation  *)
(* knows there of the nodes it holds.                                      *)
TreeAt ==
    /\ pc \in {"idle", "iterate", "down", "min", "cut"} => Fixing(t, present, Nil)
    /\ pc \in {"fix", "rotate"} => Fixing(t, present, cur)
    /\ pc \in {"rm", "near", "far"} => Removing(t, present, new, cur)
    /\ pc = "replace" => Removing(t, present, new, Nil)

(* The side of q that the descent takes for n.                             *)
Side(n, q) == IF Key[n] < Key[q] THEN t.l[q] ELSE t.r[q]

Places ==
    /\ pc = "down" =>
          /\ new \in Node \ present /\ new \in t.red
          /\ cur \in present \cup {Nil} /\ up \in present \cup {Nil}
          /\ up = Nil => cur = t.root
          /\ up # Nil => cur = Side(new, up)
    /\ pc \in {"fix", "rotate"} => cur \in present /\ cur \in t.red
    /\ pc = "rotate" => Outer(t, cur)
    /\ pc = "cut" => cur = new /\ (t.l[new] = Nil \/ t.r[new] = Nil)
    /\ pc \in {"min", "cut", "rm", "near", "far", "replace"} => new \in present
    /\ pc \in {"min", "rm", "near", "far"} => cur \in present
    /\ pc \in {"near", "far"} => Near(t, cur)
    /\ pc = "far" => Far(t, cur)

(* The inductive invariant of the tree.                                    *)
IInv == TypeOK /\ TreeAt /\ Places

(* What the types say of the tree, in the form the steps use.              *)
LEMMA TreeHas ==
    ASSUME TypeOK
    PROVE  /\ t \in Tree /\ present \in SUBSET Node /\ Node \subseteq Ref /\ Nil \in Ref
           /\ Nil \notin Node /\ Nil \notin present /\ present \subseteq Ref
           /\ t.root \in Ref /\ t.red \subseteq Ref
           /\ cur \in Ref /\ up \in Ref /\ new \in Ref /\ link \in [Ref -> Ref]
           /\ \A n \in Ref : t.l[n] \in Ref /\ t.r[n] \in Ref /\ t.p[n] \in Ref
  BY TreeAssumption DEF TypeOK, Tree, Ref

LEMMA FixingTree ==
    ASSUME NEW x, NEW S, NEW c, Fixing(x, S, c)
    PROVE  x \in Tree
  BY DEF Fixing, Shape

LEMMA RemovingTree ==
    ASSUME NEW x, NEW S, NEW g, NEW c, Removing(x, S, g, c)
    PROVE  x \in Tree
  BY DEF Removing, Shape

(* The empty tree is good.                                                 *)
LEMMA InitInv == Init => IInv
<1> SUFFICES ASSUME Init PROVE IInv
  OBVIOUS
<1> USE TreeAssumption
<1>1. t \in Tree /\ TypeOK
  <2>1. Nil \in Ref /\ AllNil \in [Ref -> Ref]
    BY DEF Ref, AllNil
  <2>2. t \in Tree
    BY <2>1 DEF Init, Tree
  <2>3. out \in Seq(Node) /\ present \in SUBSET Node /\ link \in [Ref -> Ref]
    BY <2>1 DEF Init
  <2> QED
    BY <2>1, <2>2, <2>3 DEF Init, TypeOK
<1>2. PICK d : d = [n \in Ref |-> 0]
  OBVIOUS
<1>3. \A n \in Ref : t.l[n] = Nil /\ t.r[n] = Nil /\ t.p[n] = Nil
  BY DEF Init, AllNil
<1>4. t.root = Nil /\ t.red = {} /\ present = {} /\ Nil \in Ref /\ Node \subseteq Ref
  BY DEF Init, Ref
<1>5. Shape(t, present)
  BY <1>1, <1>3, <1>4 DEF Shape
<1>6. Deep(t, d) /\ Levels(t, present, d, Nil, Nil) /\ RedFix(t, Nil)
  BY <1>2, <1>3, <1>4 DEF Deep, Levels, RedFix
<1>7. Fixing(t, present, Nil)
  BY <1>5, <1>6 DEF Fixing
<1> QED
  BY <1>1, <1>7 DEF Init, IInv, TreeAt, Places

(* One lemma per operation: it keeps the inductive invariant.              *)
LEMMA InsertInv ==
    ASSUME IInv, NEW n \in Node, Insert(n)
    PROVE  IInv'
<1>1. TypeOK /\ Fixing(t, present, Nil)
  BY DEF IInv, Insert, TreeAt
<1>2. PICK d : Shape(t, present) /\ Deep(t, d)
  BY <1>1 DEF Fixing
<1>3. n \in Node \ present /\ n \in Ref /\ t.l[n] = Nil /\ t.r[n] = Nil /\ t.p[n] = Nil
  BY <1>2 DEF Insert, Shape, Ref
<1>4. t' = [t EXCEPT !.l[n] = Nil, !.r[n] = Nil, !.p[n] = Nil, !.red = @ \cup {n}]
  BY DEF Insert
<1>5. Repainted(t, t', t.red \cup {n})
  BY <1>1, <1>3, <1>4, TreeHas DEF Tree, Repainted
<1>6. Fixing(t', present, Nil)
  BY <1>1, <1>3, <1>5, TreeHas, NewPaintKeeps
<1>7. t.root \in present \cup {Nil}
  BY <1>2 DEF Shape
<1>8. t' \in Tree /\ t'.root = t.root /\ n \in t'.red
  BY <1>5 DEF Repainted
<1>9. /\ pc' = "down" /\ new' = n /\ cur' = t.root /\ up' = Nil /\ present' = present
      /\ link' = [link EXCEPT ![n] = Nil] /\ out' = out /\ swapped' = swapped
  BY DEF Insert
<1>10. TypeOK'
  BY <1>1, <1>3, <1>8, <1>9, TreeHas DEF TypeOK
<1>11. TreeAt'
  BY <1>6, <1>9 DEF TreeAt
<1>12. Places'
  BY <1>3, <1>7, <1>8, <1>9 DEF Places
<1> QED
  BY <1>10, <1>11, <1>12 DEF IInv

LEMMA DescendInv ==
    ASSUME IInv, Descend \/ Conflict
    PROVE  IInv'
<1>1. TypeOK /\ Fixing(t, present, Nil) /\ Places /\ pc = "down" /\ cur # Nil
  BY DEF IInv, Descend, Conflict, TreeAt
<1>2. PICK d : Shape(t, present) /\ Deep(t, d)
  BY <1>1 DEF Fixing
<1>3. Family(t, present, d)
  BY <1>1, <1>2, TreeHas, Kin
<1>4. cur \in present /\ cur \in Ref /\ new \in Node \ present /\ new \in t.red
  BY <1>1, TreeHas DEF Places
<1>5. t.l[cur] \in present \cup {Nil} /\ t.r[cur] \in present \cup {Nil}
  BY <1>3, <1>4 DEF Family, Begets
<1>6. CASE Descend
  <2>1. /\ cur' = Side(new, cur) /\ up' = cur /\ t' = t /\ pc' = pc /\ new' = new
        /\ link' = link /\ out' = out /\ present' = present /\ swapped' = swapped
    BY <1>6 DEF Descend, Side
  <2>2. Side(new, cur) \in present \cup {Nil} /\ Side(new, up)' = cur'
    BY <1>5, <2>1 DEF Side
  <2>3. TypeOK'
    BY <1>1, <2>1, <2>2, TreeHas DEF TypeOK
  <2>4. TreeAt'
    BY <1>1, <2>1 DEF TreeAt
  <2>5. Places'
    BY <1>1, <1>4, <2>1, <2>2, TreeHas DEF Places
  <2> QED
    BY <2>3, <2>4, <2>5 DEF IInv
<1>7. CASE Conflict
  <2>1. TypeOK'
    BY <1>1, <1>7, TreeHas DEF TypeOK, Conflict
  <2>2. TreeAt' /\ Places'
    BY <1>1, <1>7 DEF TreeAt, Places, Conflict
  <2> QED
    BY <2>1, <2>2 DEF IInv
<1> QED
  BY <1>6, <1>7

LEMMA AttachInv ==
    ASSUME IInv, Attach
    PROVE  IInv'
<1>1. TypeOK /\ Fixing(t, present, Nil) /\ Places /\ pc = "down" /\ cur = Nil
  BY DEF IInv, Attach, TreeAt
<1>2. /\ new \in Node \ present /\ new \in t.red /\ up \in present \cup {Nil} /\ up # new
      /\ up = Nil => t.root = Nil
      /\ up # Nil => Side(new, up) = Nil
  BY <1>1, TreeHas DEF Places
<1>3. PICK side \in BOOLEAN : side <=> Key[new] < Key[up]
  OBVIOUS
<1>4. (LET v == [t EXCEPT !.p[new] = up]
       IN  IF up = Nil THEN [v EXCEPT !.root = new]
           ELSE IF side THEN [v EXCEPT !.l[up] = new]
           ELSE [v EXCEPT !.r[up] = new]) = t'
  BY <1>3 DEF Attach
<1>5. Hung(t, t', new, up, side)
  <2>1. t \in Tree /\ new \in Node /\ up \in Ref /\ up # new /\ side \in BOOLEAN
    BY <1>1, <1>2, TreeHas
  <2>2. PICK y : y = t'
    OBVIOUS
  <2>3. Hung(t, y, new, up, side)
    BY ONLY <1>4, <2>1, <2>2, HangGives
  <2> QED
    BY <2>2, <2>3
<1>6. up # Nil => IF side THEN t.l[up] = Nil ELSE t.r[up] = Nil
  BY <1>2, <1>3 DEF Side
<1>7. Fixing(t', present \cup {new}, new)
  BY <1>1, <1>2, <1>5, <1>6, TreeHas, HungKeeps
<1>8. t' \in Tree /\ new \in t'.red
  BY <1>2, <1>5 DEF Hung
<1>9. /\ present' = present \cup {new} /\ cur' = new /\ pc' = "fix" /\ up' = up /\ new' = new
      /\ link' = link /\ out' = out /\ swapped' = swapped
  BY DEF Attach
<1>10. TypeOK'
  BY <1>1, <1>2, <1>8, <1>9, TreeHas DEF TypeOK
<1>11. TreeAt' /\ Places'
  BY <1>7, <1>8, <1>9 DEF TreeAt, Places
<1> QED
  BY <1>10, <1>11 DEF IInv

(* An operation that goes on at a node it holds, in a tree that is made    *)
(* good there.                                                             *)
LEMMA HeldTypes ==
    ASSUME TypeOK, t' \in Tree, cur' \in present \cup {Nil, cur},
           pc' \in {"idle", "fix", "rotate", "min", "cut", "rm", "near", "far", "replace"},
           up' \in {up, Nil}, new' \in {new, Nil}, link' = link, out' = out,
           present' \in SUBSET present, swapped' = swapped
    PROVE  TypeOK'
  BY TreeHas DEF TypeOK

LEMMA FixInv ==
    ASSUME IInv, FixRecolour \/ FixInner \/ FixDone
    PROVE  IInv'
<1>1. TypeOK /\ Fixing(t, present, cur) /\ cur \in present /\ cur \in t.red /\ pc = "fix"
  BY DEF IInv, FixRecolour, FixInner, FixDone, TreeAt, Places
<1>2. PICK d : Shape(t, present) /\ Deep(t, d)
  BY <1>1 DEF Fixing
<1>3. /\ t \in Tree /\ present \in SUBSET Node /\ Nil \in Ref /\ cur \in Ref
      /\ \A n \in Ref : t.l[n] \in Ref /\ t.r[n] \in Ref /\ t.p[n] \in Ref
  BY <1>1, TreeHas
<1>4. PICK p : t.p[cur] = p
  OBVIOUS
<1>5. p \in Ref
  BY <1>3, <1>4
<1>6. CASE FixRecolour
  <2>1. PICK u, g : Sib(t, p) = u /\ t.p[p] = g
    OBVIOUS
  <2>2. u \in Ref /\ g \in Ref
    BY <1>3, <1>5, <2>1 DEF Sib
  <2>3. p \in t.red /\ u \in t.red
    BY <1>4, <1>6, <2>1 DEF FixRecolour, Uncle
  <2>4. /\ Paint(Paint(Paint(t, u, FALSE), p, FALSE), g, TRUE) = t'
        /\ cur' = g /\ pc' = pc /\ up' = up /\ new' = new /\ link' = link /\ out' = out
        /\ present' = present /\ swapped' = swapped
    BY <1>4, <1>6, <2>1 DEF FixRecolour, Uncle, Grand
  <2>5. Repainted(t, t', ((t.red \ {u}) \ {p}) \cup {g})
    <3>1. PICK x : Paint(t, u, FALSE) = x
      OBVIOUS
    <3>2. Repainted(t, x, t.red \ {u})
      BY <1>3, <2>2, <3>1, PaintGives
    <3>3. x \in Tree
      BY <3>2 DEF Repainted
    <3>4. PICK y : Paint(Paint(x, p, FALSE), g, TRUE) = y
      OBVIOUS
    <3>5. Repainted(x, y, (x.red \ {p}) \cup {g})
      BY <1>5, <2>2, <3>3, <3>4, PaintTwice
    <3>6. t' = y
      BY <2>4, <3>1, <3>4
    <3> QED
      BY <3>2, <3>5, <3>6 DEF Repainted
  <2>6. Fixing(t', present, g) /\ g \in present /\ g \in t'.red
    <3>1. PICK z : z = t'
      OBVIOUS
    <3>2. Repainted(t, z, ((t.red \ {u}) \ {p}) \cup {g})
      BY <2>5, <3>1
    <3>3. Fixing(z, present, g) /\ g \in present /\ g \in z.red
      BY <1>1, <1>3, <1>4, <2>1, <2>3, <3>2, RecolourFixes
    <3> QED
      BY <3>1, <3>3
  <2>7. TypeOK'
    BY <1>1, <2>4, <2>6, FixingTree, HeldTypes
  <2>8. TreeAt' /\ Places'
    BY <1>1, <2>4, <2>6 DEF TreeAt, Places
  <2> QED
    BY <2>7, <2>8 DEF IInv
<1>7. CASE FixInner
  <2>1. p \in t.red /\ Sib(t, p) \notin t.red
    BY <1>4, <1>7 DEF FixInner, Uncle
  <2>2. /\ pc' = "rotate" /\ up' = up /\ new' = new /\ link' = link /\ out' = out
        /\ present' = present /\ swapped' = swapped
    BY <1>7 DEF FixInner
  <2>3. Fixing(t', present, cur') /\ cur' \in present /\ cur' \in t'.red /\ Outer(t', cur')
    <3>1. CASE IsLeft(t, cur) = IsLeft(t, p)
      <4>1. t' = t /\ cur' = cur
        BY <1>4, <1>7, <3>1 DEF FixInner
      <4>2. Outer(t, cur)
        BY <1>1, <1>3, <1>4, <2>1, <3>1, InnerKeeps
      <4> QED
        BY <1>1, <4>1, <4>2
    <3>2. CASE IsLeft(t, cur) # IsLeft(t, p)
      <4>1. cur' = p /\ t' = IF IsLeft(t, cur) THEN RotateRight(t, p) ELSE RotateLeft(t, p)
        BY <1>4, <1>7, <3>2 DEF FixInner
      <4>2. \A y : y = (IF IsLeft(t, cur) THEN RotateRight(t, p) ELSE RotateLeft(t, p)) =>
                      Fixing(y, present, p) /\ p \in present /\ p \in y.red /\ Outer(y, p)
        BY <1>1, <1>3, <1>4, <2>1, <3>2, InnerKeeps
      <4> QED
        BY <4>1, <4>2
    <3> QED
      BY <3>1, <3>2
  <2>4. TypeOK'
    <3>1. t' \in Tree
      BY <2>3, FixingTree
    <3> QED
      BY <1>1, <2>2, <2>3, <3>1, HeldTypes
  <2>5. TreeAt' /\ Places'
    BY <2>2, <2>3 DEF TreeAt, Places
  <2> QED
    BY <2>4, <2>5 DEF IInv
<1>8. CASE FixDone
  <2>1. t.p[cur] \notin t.red /\ t.root \in Ref
    BY <1>1, <1>8, TreeHas DEF FixDone
  <2>2. /\ Paint(t, t.root, FALSE) = t'
        /\ pc' = "idle" /\ cur' = Nil /\ up' = Nil /\ new' = Nil /\ link' = link /\ out' = out
        /\ present' = present /\ swapped' = swapped
    BY <1>8 DEF FixDone
  <2>3. Repainted(t, Paint(t, t.root, FALSE), t.red \ {t.root})
    BY <1>3, <2>1, PaintGives
  <2>4. Fixing(Paint(t, t.root, FALSE), present, Nil)
    BY <1>1, <1>3, <2>1, <2>3, RootPaintKeeps
  <2>5. Fixing(t', present, Nil)
    BY <2>2, <2>4
  <2>6. TypeOK'
    BY <1>1, <2>2, <2>5, FixingTree, HeldTypes
  <2>7. TreeAt' /\ Places'
    BY <2>2, <2>5 DEF TreeAt, Places
  <2> QED
    BY <2>6, <2>7 DEF IInv
<1> QED
  BY <1>6, <1>7, <1>8

LEMMA FixOuterInv ==
    ASSUME IInv, FixOuter
    PROVE  IInv'
<1>1. /\ TypeOK /\ Fixing(t, present, cur) /\ cur \in present /\ cur \in t.red
      /\ Outer(t, cur)
  BY DEF IInv, FixOuter, TreeAt, Places
<1>2. /\ t \in Tree /\ present \in SUBSET Node
      /\ \A n \in Ref : t.p[n] \in Ref
      /\ cur \in Ref
  BY <1>1, TreeHas
<1>3. PICK p, g : t.p[cur] = p /\ t.p[p] = g
  OBVIOUS
<1>4. p \in Ref /\ g \in Ref
  BY <1>2, <1>3
<1>5. PICK z : Paint(Paint(t, p, FALSE), g, TRUE) = z
  OBVIOUS
<1>6. Repainted(t, z, (t.red \ {p}) \cup {g})
  BY <1>2, <1>4, <1>5, PaintTwice
<1>7. PICK y : y = t'
  OBVIOUS
<1>8. IsLeft(t, p) => y = RotateRight(z, g)
  BY <1>3, <1>5, <1>7, Zenon DEF FixOuter, Grand
<1>9. ~ IsLeft(t, p) => y = RotateLeft(z, g)
  BY <1>3, <1>5, <1>7, Zenon DEF FixOuter, Grand
<1>10. Fixing(y, present, cur) /\ cur \in present /\ cur \in y.red
  BY <1>1, <1>2, <1>3, <1>6, <1>8, <1>9, OuterKeeps
<1>11. Fixing(t', present, cur) /\ cur \in t'.red
  BY <1>7, <1>10
<1>12. /\ pc' = "fix" /\ cur' = cur /\ up' = up /\ new' = new /\ link' = link /\ out' = out
       /\ present' = present /\ swapped' = swapped
  BY DEF FixOuter
<1>13. TypeOK'
  BY <1>1, <1>11, <1>12, FixingTree, HeldTypes
<1>14. TreeAt' /\ Places'
  BY <1>1, <1>11, <1>12 DEF TreeAt, Places
<1> QED
  BY <1>13, <1>14 DEF IInv

LEMMA RemoveInv ==
    ASSUME IInv, NEW n \in Node, Remove(n)
    PROVE  IInv'
<1>1. TypeOK /\ Fixing(t, present, Nil) /\ n \in present
  BY DEF IInv, Remove, TreeAt
<1>2. /\ new' = n /\ cur' = n /\ t' = t /\ up' = up /\ link' = link /\ out' = out
      /\ present' = present /\ swapped' = swapped
      /\ pc' = IF t.l[n] # Nil /\ t.r[n] # Nil THEN "min" ELSE "cut"
  BY DEF Remove
<1>3. TypeOK'
  BY <1>1, <1>2, TreeHas DEF TypeOK
<1>4. TreeAt' /\ Places'
  BY <1>1, <1>2 DEF TreeAt, Places
<1> QED
  BY <1>3, <1>4 DEF IInv

LEMMA MinInv ==
    ASSUME IInv, Min
    PROVE  IInv'
<1>1. TypeOK /\ Fixing(t, present, Nil) /\ new \in present /\ cur \in present /\ t.l[cur] # Nil /\ pc = "min"
  BY DEF IInv, Min, TreeAt, Places
<1>2. PICK d : Shape(t, present) /\ Deep(t, d)
  BY <1>1 DEF Fixing
<1>3. Begets(t, present, d, cur, t.l[cur])
  <2>1. Family(t, present, d) /\ cur \in Ref
    BY <1>1, <1>2, TreeHas, Kin
  <2> QED
    BY <1>1, <2>1 DEF Family
<1>4. t.l[cur] \in present
  BY <1>3 DEF Begets
<1>5. /\ cur' = t.l[cur] /\ t' = t /\ pc' = pc /\ up' = up /\ new' = new /\ link' = link
      /\ out' = out /\ present' = present /\ swapped' = swapped
  BY DEF Min
<1>6. TypeOK'
  BY <1>1, <1>4, <1>5, TreeHas DEF TypeOK
<1>7. TreeAt' /\ Places'
  BY <1>1, <1>4, <1>5 DEF TreeAt, Places
<1> QED
  BY <1>6, <1>7 DEF IInv

LEMMA SwapInv ==
    ASSUME IInv, Swap
    PROVE  IInv'
<1>1. TypeOK /\ Fixing(t, present, Nil) /\ new \in present /\ cur \in present /\ t.l[cur] = Nil
  BY DEF IInv, Swap, TreeAt, Places
<1>2. /\ t \in Tree /\ present \in SUBSET Node /\ new \in Node /\ cur \in Node /\ Nil \in Ref
      /\ new \in Ref /\ cur \in Ref /\ Nil \notin Node /\ link \in [Ref -> Ref]
      /\ link[new] \in Ref /\ link[cur] \in Ref
  BY <1>1, TreeHas
<1>3. PICK y : Exchange(t, new, cur) = y
  OBVIOUS
<1>4. Renames(t, y, Other(new, cur))
  BY <1>2, <1>3, ExchangeGives
<1>5. Fixing(y, present, Nil)
  BY <1>1, <1>2, <1>4, SwapKeeps
<1>6. y.l[new] = Nil
  BY <1>1, <1>2, <1>4 DEF Renames, Other
<1>7. /\ t' = y /\ cur' = new /\ pc' = "cut" /\ up' = up /\ new' = new /\ out' = out
      /\ present' = present /\ swapped' = TRUE
      /\ link' = [link EXCEPT ![new] = link[cur], ![cur] = link[new]]
  BY <1>3 DEF Swap
<1>8. TypeOK'
  <2>1. link' \in [Ref -> Ref] /\ t' \in Tree
    BY <1>2, <1>5, <1>7, FixingTree
  <2> QED
    BY <1>1, <1>2, <1>7, <2>1 DEF TypeOK
<1>9. TreeAt' /\ Places'
  BY <1>1, <1>5, <1>6, <1>7 DEF TreeAt, Places
<1> QED
  BY <1>8, <1>9 DEF IInv

LEMMA CutInv ==
    ASSUME IInv, Cut
    PROVE  IInv'
<1>1. /\ TypeOK /\ Fixing(t, present, Nil) /\ new \in present /\ cur = new /\ pc = "cut"
      /\ t.l[new] = Nil \/ t.r[new] = Nil
  BY DEF IInv, Cut, TreeAt, Places
<1>2. t \in Tree /\ present \in SUBSET Node /\ new \in Ref
  BY <1>1, TreeHas
<1>3. /\ cur' = cur /\ up' = up /\ new' = new /\ link' = link /\ out' = out
      /\ present' = present /\ swapped' = swapped
  BY DEF Cut
<1>4. CASE new \in t.red
  <2>1. t' = t /\ pc' = "replace"
    BY <1>1, <1>4 DEF Cut
  <2>2. Removing(t, present, new, Nil)
    BY <1>1, <1>2, <1>4, RedIsCut
  <2>3. TypeOK'
    BY <1>1, <1>2, <1>3, <2>1, HeldTypes
  <2>4. TreeAt' /\ Places'
    BY <1>1, <1>3, <2>1, <2>2 DEF TreeAt, Places
  <2> QED
    BY <2>3, <2>4 DEF IInv
<1>5. CASE new \notin t.red
  <2>1. PICK o : Child(t, new) = o
    OBVIOUS
  <2>2. PICK b \in BOOLEAN : b <=> o \in t.red
    OBVIOUS
  <2>3. PICK z : Paint(t, new, b) = z
    OBVIOUS
  <2>4. PICK R : R = IF b THEN t.red \cup {new} ELSE t.red
    OBVIOUS
  <2>5. Repainted(t, z, R)
    <3>1. Repainted(t, z, IF b THEN t.red \cup {new} ELSE t.red \ {new})
      BY <1>2, <2>3, PaintGives
    <3>2. (IF b THEN t.red \cup {new} ELSE t.red \ {new}) = R
      BY <1>5, <2>4
    <3> QED
      BY <3>1, <3>2
  <2>6. (R = t.red \/ R = t.red \cup {new}) /\ (new \in R <=> o \in t.red)
    BY <1>5, <2>2, <2>4
  <2>7. Removing(z, present, new, new)
    BY <1>1, <1>2, <1>5, <2>1, <2>5, <2>6, BlackIsCut
  <2>8. t' = z /\ pc' = "rm"
    <3>1. pc' = "rm" /\ t' = Paint(t, new, o \in t.red)
      BY <1>1, <1>5, <2>1 DEF Cut
    <3>2. b = (o \in t.red)
      BY <2>2
    <3> QED
      BY <2>3, <3>1, <3>2
  <2>9. TypeOK'
    BY <1>1, <1>3, <2>7, <2>8, RemovingTree, HeldTypes
  <2>10. TreeAt' /\ Places'
    BY <1>1, <1>3, <2>7, <2>8 DEF TreeAt, Places
  <2> QED
    BY <2>9, <2>10 DEF IInv
<1> QED
  BY <1>4, <1>5

LEMMA RmStartInv ==
    ASSUME IInv, RmRoot \/ RmRedSibling
    PROVE  IInv'
<1>1. TypeOK /\ Removing(t, present, new, cur) /\ new \in present /\ cur \in present /\ pc = "rm"
  BY DEF IInv, RmRoot, RmRedSibling, TreeAt, Places
<1>2. /\ t \in Tree /\ present \in SUBSET Node /\ cur \in Node /\ cur \in Ref /\ t.p[cur] \in Ref
      /\ \A n \in Ref : t.l[n] \in Ref /\ t.r[n] \in Ref
  BY <1>1, TreeHas
<1>3. CASE RmRoot
  <2>1. /\ t.p[cur] = Nil /\ t' = t /\ cur' = cur /\ up' = up /\ new' = new /\ link' = link
        /\ out' = out /\ present' = present /\ swapped' = swapped /\ pc' = "replace"
    BY <1>3 DEF RmRoot
  <2>2. Removing(t, present, new, Nil)
    BY <1>1, <1>2, <2>1, RootEnds
  <2>3. TypeOK'
    BY <1>1, <1>2, <2>1, HeldTypes
  <2>4. TreeAt' /\ Places'
    BY <1>1, <2>1, <2>2 DEF TreeAt, Places
  <2> QED
    BY <2>3, <2>4 DEF IInv
<1>4. CASE RmRedSibling
  <2>1. PICK p, s : t.p[cur] = p /\ Sib(t, cur) = s
    OBVIOUS
  <2>2. /\ p # Nil /\ cur' = cur /\ up' = up /\ new' = new /\ link' = link
        /\ out' = out /\ present' = present /\ swapped' = swapped /\ pc' = "near"
    BY <1>4, <2>1 DEF RmRedSibling
  <2>3. p \in Ref /\ s \in Ref
    BY <1>2, <2>1 DEF Sib
  <2>4. Removing(t', present, new, cur) /\ Near(t', cur)
    <3>1. CASE s \in t.red
      <4>1. PICK y, z : y = t' /\ Paint(Paint(t, p, TRUE), s, FALSE) = z
        OBVIOUS
      <4>2. IsLeft(t, cur) => y = RotateLeft(z, p)
        BY <1>4, <2>1, <3>1, <4>1, Zenon DEF RmRedSibling
      <4>3. ~ IsLeft(t, cur) => y = RotateRight(z, p)
        BY <1>4, <2>1, <3>1, <4>1, Zenon DEF RmRedSibling
      <4>4. Repainted(t, z, (t.red \cup {p}) \ {s})
        BY <1>2, <2>3, <4>1, PaintTwice
      <4>5. Removing(y, present, new, cur) /\ Near(y, cur)
        BY <1>1, <1>2, <2>1, <2>2, <3>1, <4>2, <4>3, <4>4, RedSiblingKeeps
      <4> QED
        BY <4>1, <4>5
    <3>2. CASE s \notin t.red
      <4>1. t' = t
        BY <1>4, <2>1, <3>2 DEF RmRedSibling
      <4>2. Near(t, cur)
        BY <1>1, <1>2, <2>1, <2>2, <3>2, BlackSibling
      <4> QED
        BY <1>1, <4>1, <4>2
    <3> QED
      BY <3>1, <3>2
  <2>5. TypeOK'
    BY <1>1, <2>2, <2>4, RemovingTree, HeldTypes
  <2>6. TreeAt' /\ Places'
    BY <1>1, <2>2, <2>4 DEF TreeAt, Places
  <2> QED
    BY <2>5, <2>6 DEF IInv
<1> QED
  BY <1>3, <1>4

LEMMA RmUpInv ==
    ASSUME IInv, RmUp \/ RmExchange
    PROVE  IInv'
<1>1. /\ TypeOK /\ Removing(t, present, new, cur) /\ new \in present /\ cur \in present
      /\ Near(t, cur)
  BY DEF IInv, RmUp, RmExchange, TreeAt, Places
<1>2. /\ t \in Tree /\ present \in SUBSET Node /\ cur \in Node /\ cur \in Ref /\ t.p[cur] \in Ref
      /\ \A n \in Ref : t.l[n] \in Ref /\ t.r[n] \in Ref
  BY <1>1, TreeHas
<1>3. PICK p, s : t.p[cur] = p /\ Sib(t, cur) = s
  OBVIOUS
<1>4. p \in Ref /\ s \in Ref
  BY <1>2, <1>3 DEF Sib
<1>5. {s, t.l[s], t.r[s]} \cap t.red = {}
  BY <1>3 DEF RmUp, RmExchange, AllBlack
<1>6. CASE RmUp
  <2>1. /\ p \notin t.red /\ Paint(t, s, TRUE) = t' /\ cur' = p /\ up' = up /\ new' = new
        /\ link' = link /\ out' = out /\ present' = present /\ swapped' = swapped /\ pc' = "rm"
    BY <1>3, <1>6 DEF RmUp
  <2>2. PICK z : Paint(t, s, TRUE) = z
    OBVIOUS
  <2>3. Repainted(t, z, t.red \cup {s})
    BY <1>2, <1>4, <2>2, PaintGives
  <2>4. Removing(z, present, new, p) /\ p \in present
    BY <1>1, <1>2, <1>3, <1>5, <2>1, <2>3, UpKeeps
  <2>5. TypeOK'
    BY <1>1, <2>1, <2>2, <2>4, RemovingTree, HeldTypes
  <2>6. TreeAt' /\ Places'
    BY <1>1, <2>1, <2>2, <2>4 DEF TreeAt, Places
  <2> QED
    BY <2>5, <2>6 DEF IInv
<1>7. CASE RmExchange
  <2>1. /\ p \in t.red /\ Paint(Paint(t, s, TRUE), p, FALSE) = t' /\ cur' = cur /\ up' = up
        /\ new' = new /\ link' = link /\ out' = out /\ present' = present
        /\ swapped' = swapped /\ pc' = "replace"
    BY <1>3, <1>7 DEF RmExchange
  <2>2. PICK z : Paint(Paint(t, s, TRUE), p, FALSE) = z
    OBVIOUS
  <2>3. Repainted(t, z, (t.red \cup {s}) \ {p})
    BY <1>2, <1>4, <2>2, PaintTwice
  <2>4. Removing(z, present, new, Nil)
    BY <1>1, <1>2, <1>3, <1>5, <2>1, <2>3, ExchangeKeeps
  <2>5. TypeOK'
    BY <1>1, <2>1, <2>2, <2>4, RemovingTree, HeldTypes
  <2>6. TreeAt' /\ Places'
    BY <1>1, <2>1, <2>2, <2>4 DEF TreeAt, Places
  <2> QED
    BY <2>5, <2>6 DEF IInv
<1> QED
  BY <1>6, <1>7

LEMMA RmNearInv ==
    ASSUME IInv, RmNear
    PROVE  IInv'
<1>1. /\ TypeOK /\ Removing(t, present, new, cur) /\ new \in present /\ cur \in present
      /\ Near(t, cur)
  BY DEF IInv, RmNear, TreeAt, Places
<1>2. /\ t \in Tree /\ present \in SUBSET Node /\ cur \in Node /\ cur \in Ref /\ t.p[cur] \in Ref
      /\ \A n \in Ref : t.l[n] \in Ref /\ t.r[n] \in Ref
  BY <1>1, TreeHas
<1>3. PICK s, a, f : /\ Sib(t, cur) = s
                     /\ (IF IsLeft(t, cur) THEN t.l[s] ELSE t.r[s]) = a
                     /\ (IF IsLeft(t, cur) THEN t.r[s] ELSE t.l[s]) = f
  OBVIOUS
<1>4. s \in Ref /\ a \in Ref
  BY <1>2, <1>3 DEF Sib
<1>5. /\ IsLeft(t, cur) => t.l[s] = a /\ t.r[s] = f
      /\ ~ IsLeft(t, cur) => t.r[s] = a /\ t.l[s] = f
  BY <1>3
<1>6. /\ cur' = cur /\ up' = up /\ new' = new /\ link' = link /\ out' = out
      /\ present' = present /\ swapped' = swapped /\ pc' = "far"
  BY DEF RmNear
<1>7. Removing(t', present, new, cur) /\ Near(t', cur) /\ Far(t', cur)
  <2>1. CASE s \notin t.red /\ a \in t.red /\ f \notin t.red
    <3>1. PICK y, z : y = t' /\ Paint(Paint(t, s, TRUE), a, FALSE) = z
      OBVIOUS
    <3>2. t' = IF IsLeft(t, cur) THEN RotateRight(z, s) ELSE RotateLeft(z, s)
      BY <1>3, <2>1, <3>1, Zenon DEF RmNear
    <3>3. /\ IsLeft(t, cur) => y = RotateRight(z, s)
          /\ ~ IsLeft(t, cur) => y = RotateLeft(z, s)
      BY <3>1, <3>2
    <3>4. Repainted(t, z, (t.red \cup {s}) \ {a})
      BY <1>2, <1>4, <3>1, PaintTwice
    <3>5. Removing(y, present, new, cur) /\ Near(y, cur) /\ Far(y, cur)
      BY <1>1, <1>2, <1>3, <1>5, <2>1, <3>3, <3>4, NephewKeeps
    <3> QED
      BY <3>1, <3>5
  <2>2. CASE ~ (s \notin t.red /\ a \in t.red /\ f \notin t.red)
    <3>1. t' = t
      BY <1>3, <2>2, Zenon DEF RmNear
    <3>2. {s, t.l[s], t.r[s]} \cap t.red # {}
      BY <1>3 DEF RmNear, AllBlack
    <3>3. s \notin t.red
      <4>1. PICK d : Shape(t, present) /\ Deep(t, d)
        BY <1>1 DEF Removing
      <4>2. Family(t, present, d)
        BY <1>2, <4>1, Kin
      <4>3. Kindred(t, present, d, cur)
        BY <1>1, <1>2, <4>2 DEF Family, Near
      <4> QED
        BY <1>1, <1>3, <4>3 DEF Near, Kindred
    <3>4. a \notin t.red \/ f \in t.red
      BY <2>2, <3>3
    <3>5. Far(t, cur)
      BY <1>1, <1>2, <1>3, <1>5, <3>2, <3>4, FarStays
    <3> QED
      BY <1>1, <3>1, <3>5
  <2> QED
    BY <2>1, <2>2
<1>8. TypeOK'
  BY <1>1, <1>6, <1>7, RemovingTree, HeldTypes
<1>9. TreeAt' /\ Places'
  BY <1>1, <1>6, <1>7 DEF TreeAt, Places
<1> QED
  BY <1>8, <1>9 DEF IInv

LEMMA RmFarInv ==
    ASSUME IInv, RmFar
    PROVE  IInv'
<1>1. /\ TypeOK /\ Removing(t, present, new, cur) /\ new \in present /\ cur \in present
      /\ Near(t, cur) /\ Far(t, cur)
  BY DEF IInv, RmFar, TreeAt, Places
<1>2. /\ t \in Tree /\ present \in SUBSET Node /\ cur \in Node /\ cur \in Ref /\ t.p[cur] \in Ref
      /\ \A n \in Ref : t.l[n] \in Ref /\ t.r[n] \in Ref
  BY <1>1, TreeHas
<1>3. PICK p, s, f : /\ t.p[cur] = p /\ Sib(t, cur) = s
                     /\ (IF IsLeft(t, cur) THEN t.r[s] ELSE t.l[s]) = f
  OBVIOUS
<1>4. p \in Ref /\ s \in Ref /\ f \in Ref
  BY <1>2, <1>3 DEF Sib
<1>5. (IsLeft(t, cur) => t.r[s] = f) /\ (~ IsLeft(t, cur) => t.l[s] = f)
  BY <1>3
<1>6. PICK b \in BOOLEAN : b <=> p \in t.red
  OBVIOUS
<1>7. PICK y, z : y = t' /\ Paint(Paint(Paint(t, s, b), p, FALSE), f, FALSE) = z
  OBVIOUS
<1>8. t' = IF IsLeft(t, cur) THEN RotateLeft(z, p) ELSE RotateRight(z, p)
  <2>1. b = (p \in t.red)
    BY <1>6
  <2> QED
    BY <1>3, <1>7, <2>1, Zenon DEF RmFar
<1>9. /\ IsLeft(t, cur) => y = RotateLeft(z, p)
      /\ ~ IsLeft(t, cur) => y = RotateRight(z, p)
  BY <1>7, <1>8
<1>10. Repainted(t, z, FarPaint(t, p, s, f))
  <2>1. PICK v, w : Paint(t, s, b) = v /\ Paint(v, p, FALSE) = w
    OBVIOUS
  <2>2. Repainted(t, v, IF b THEN t.red \cup {s} ELSE t.red \ {s})
    BY <1>2, <1>4, <2>1, PaintGives
  <2>3. v \in Tree
    BY <2>2 DEF Repainted
  <2>4. Repainted(v, w, v.red \ {p})
    BY <1>4, <2>1, <2>3, PaintGives
  <2>5. w \in Tree
    BY <2>4 DEF Repainted
  <2>6. Repainted(w, z, w.red \ {f})
    BY <1>4, <1>7, <2>1, <2>5, PaintGives
  <2> QED
    BY <1>6, <2>2, <2>4, <2>6 DEF Repainted, FarPaint
<1>11. Removing(y, present, new, Nil)
  BY <1>1, <1>2, <1>3, <1>5, <1>9, <1>10, FarKeeps
<1>12. /\ cur' = cur /\ up' = up /\ new' = new /\ link' = link /\ out' = out
       /\ present' = present /\ swapped' = swapped /\ pc' = "replace"
  BY DEF RmFar
<1>13. TypeOK'
  BY <1>1, <1>7, <1>11, <1>12, RemovingTree, HeldTypes
<1>14. TreeAt' /\ Places'
  BY <1>1, <1>7, <1>11, <1>12 DEF TreeAt, Places
<1> QED
  BY <1>13, <1>14 DEF IInv

LEMMA ReplaceInv ==
    ASSUME IInv, Replace
    PROVE  IInv'
<1>1. TypeOK /\ Removing(t, present, new, Nil) /\ new \in present
  BY DEF IInv, Replace, TreeAt, Places
<1>2. /\ t \in Tree /\ present \in SUBSET Node /\ new \in Node /\ new \in Ref
      /\ \A n \in Ref : t.l[n] \in Ref /\ t.r[n] \in Ref /\ t.p[n] \in Ref
  BY <1>1, TreeHas
<1>3. PICK c, q : Child(t, new) = c /\ t.p[new] = q
  OBVIOUS
<1>4. c \in Ref
  BY <1>2, <1>3 DEF Child
<1>5. PICK d : Shape(t, present) /\ Deep(t, d)
  BY <1>1 DEF Removing
<1>6. c # new
  <2>1. c # Nil => Begets(t, present, d, new, c)
    BY <1>2, <1>3, <1>5, Kin DEF Family, Child
  <2> QED
    BY <1>1, <1>2, <2>1, TreeAssumption DEF Begets
<1>7. (IF new = t.root THEN [t EXCEPT !.root = c] ELSE Relink(t, new, c)) = Relink(t, new, c)
  <2>1. new = t.root => t.p[new] = Nil
    BY <1>2, <1>5, TreeAssumption DEF Shape
  <2> QED
    BY <2>1 DEF Relink
<1>8. PICK gone, w : Relink(t, new, c) = gone /\ SetParent(gone, c, q) = w
  OBVIOUS
<1>9. PICK y : Forget(IF q = Nil /\ c # Nil THEN Paint(w, c, FALSE) ELSE w, new) = y
  OBVIOUS
<1>10. t' = y
  BY <1>3, <1>7, <1>8, <1>9, Zenon DEF Replace
<1>11. Replaced(t, y, new, c, q)
  BY <1>2, <1>3, <1>4, <1>6, <1>8, <1>9, ReplaceGives
<1>12. Fixing(y, present \ {new}, Nil)
  BY <1>1, <1>2, <1>3, <1>11, ReplaceKeeps
<1>13. /\ cur' = Nil /\ up' = up /\ new' = Nil /\ link' = link /\ out' = out
       /\ present' = present \ {new} /\ swapped' = swapped /\ pc' = "idle"
  BY DEF Replace
<1>14. TypeOK'
  BY <1>1, <1>10, <1>12, <1>13, FixingTree, HeldTypes
<1>15. TreeAt' /\ Places'
  BY <1>10, <1>12, <1>13 DEF TreeAt, Places
<1> QED
  BY <1>14, <1>15 DEF IInv

LEMMA IterInv ==
    ASSUME IInv, IterBegin \/ IterLeaf \/ IterDown \/ IterBack \/ IterEnd
    PROVE  IInv'
<1>1. /\ TypeOK /\ Fixing(t, present, Nil)
      /\ t' = t /\ present' = present /\ up' = up /\ new' = new /\ swapped' = swapped
      /\ pc' \in {"idle", "iterate"}
  BY DEF IInv, TreeAt, IterBegin, IterLeaf, IterDown, IterBack, IterEnd
<1>2. /\ t \in Tree /\ Nil \in Ref /\ Nil \notin Node /\ cur \in Ref /\ t.root \in Ref
      /\ link \in [Ref -> Ref] /\ out \in Seq(Node)
      /\ \A n \in Ref : t.l[n] \in Ref /\ t.r[n] \in Ref
  BY <1>1, TreeHas DEF TypeOK
<1>3. cur # Nil => cur \in Node
  BY <1>2 DEF Ref
<1>4. right(cur) \in Ref
  BY <1>2 DEF right
<1>5. cur' \in Ref /\ link' \in [Ref -> Ref] /\ out' \in Seq(Node)
  <2>1. CASE IterBegin
    BY <1>2, <2>1 DEF IterBegin
  <2>2. CASE IterLeaf
    BY <1>2, <1>3, <1>4, <2>2 DEF IterLeaf
  <2>3. CASE IterDown
    <3>1. PICK m : Thread = m
      OBVIOUS
    <3>2. link' = [link EXCEPT ![m] = cur] /\ cur' = t.l[cur] /\ out' = out
      BY <2>3, <3>1 DEF IterDown
    <3> QED
      BY <1>2, <3>2
  <2>4. CASE IterBack
    <3>1. PICK m : Thread = m
      OBVIOUS
    <3>2. /\ link' = [link EXCEPT ![m] = Nil] /\ out' = Append(out, cur) /\ cur # Nil
          /\ cur' = IF t.r[cur] # Nil THEN t.r[cur] ELSE link'[cur]
      BY <2>4, <3>1 DEF IterBack
    <3>3. link' \in [Ref -> Ref]
      BY <1>2, <3>2
    <3> QED
      BY <1>2, <1>3, <3>2, <3>3
  <2>5. CASE IterEnd
    BY <1>2, <2>5 DEF IterEnd
  <2> QED
    BY <2>1, <2>2, <2>3, <2>4, <2>5 DEF IterBegin, IterLeaf, IterDown, IterBack, IterEnd
<1>6. TypeOK'
  BY <1>1, <1>5 DEF TypeOK
<1>7. TreeAt' /\ Places'
  BY <1>1 DEF TreeAt, Places
<1> QED
  BY <1>6, <1>7 DEF IInv

(* Every operation of the tree keeps the inductive invariant: the links,   *)
(* the colours and the black heights are those the place in the operation  *)
(* calls for, for any nodes, any keys and any sequence of calls            *)
(* (lc_rbt.c).                                                             *)
THEOREM Invariance == Spec => []IInv
<1>1. Init => IInv
  BY InitInv
<1>2. IInv /\ [Next]_vars => IInv'
  <2> SUFFICES ASSUME IInv, [Next]_vars PROVE IInv'
    OBVIOUS
  <2>1. CASE \E n \in Node : Insert(n) \/ Remove(n)
    BY <2>1, InsertInv, RemoveInv
  <2>2. CASE Descend \/ Conflict
    BY <2>2, DescendInv
  <2>3. CASE Attach
    BY <2>3, AttachInv
  <2>4. CASE FixRecolour \/ FixInner \/ FixDone
    BY <2>4, FixInv
  <2>5. CASE FixOuter
    BY <2>5, FixOuterInv
  <2>6. CASE Min
    BY <2>6, MinInv
  <2>7. CASE Swap
    BY <2>7, SwapInv
  <2>8. CASE Cut
    BY <2>8, CutInv
  <2>9. CASE RmRoot \/ RmRedSibling
    BY <2>9, RmStartInv
  <2>10. CASE RmUp \/ RmExchange
    BY <2>10, RmUpInv
  <2>11. CASE RmNear
    BY <2>11, RmNearInv
  <2>12. CASE RmFar
    BY <2>12, RmFarInv
  <2>13. CASE Replace
    BY <2>13, ReplaceInv
  <2>14. CASE IterBegin \/ IterLeaf \/ IterDown \/ IterBack \/ IterEnd
    BY <2>14, IterInv
  <2>15. CASE UNCHANGED vars
    BY <2>15 DEF vars, IInv, TypeOK, TreeAt, Places, Side
  <2> QED
    BY <2>1, <2>2, <2>3, <2>4, <2>5, <2>6, <2>7, <2>8, <2>9, <2>10, <2>11, <2>12, <2>13,
       <2>14, <2>15 DEF Next
<1> QED
  BY <1>1, <1>2, PTL DEF Spec

(* Type correctness: links lead to nodes of the tree or to the sentinel.   *)
THEOREM TypeCorrect == Spec => []TypeOK
<1>1. IInv => TypeOK
  BY DEF IInv
<1> QED
  BY <1>1, Invariance, PTL

(* At every step of every operation the links agree and have no cycle.     *)
LEMMA AlwaysShaped ==
    ASSUME IInv
    PROVE  Shape(t, present) /\ \E d : Deep(t, d)
<1>1. CASE pc \in {"rm", "near", "far", "replace"}
  BY <1>1 DEF IInv, TreeAt, Removing
<1>2. CASE pc \notin {"rm", "near", "far", "replace"}
  BY <1>2 DEF IInv, TypeOK, TreeAt, Fixing
<1> QED
  BY <1>1, <1>2

(* Links to parents and to children agree, at every step of an insertion   *)
(* and of a removal, whichever rotations they make (lc_rbt.c).             *)
THEOREM LinkedAlways == Spec => []Linked
<1>1. IInv => Linked
  BY AlwaysShaped DEF Linked, Shape
<1> QED
  BY <1>1, Invariance, PTL

(* The shared sentinel is never written: no rotation or recolouring meets  *)
(* it where it expects a node.                                             *)
THEOREM SentinelSafe == Spec => []SentinelUntouched
<1>1. IInv => SentinelUntouched
  BY AlwaysShaped DEF SentinelUntouched, Shape
<1> QED
  BY <1>1, Invariance, PTL

-----------------------------------------------------------------------------

(* Balance.  The numbers of black nodes on the paths from a node down are  *)
(* the solution of the equation that Balanced defines them by; the heights *)
(* give one solution, and there is no other: where two differ, they differ *)
(* at a child.                                                             *)
Counts(F) ==
    F = [n \in Ref |->
            IF n = Nil THEN {0}
            ELSE {b + (IF n \in t.red THEN 0 ELSE 1) : b \in F[t.l[n]] \cup F[t.r[n]]}]

TheCounts == CHOOSE F : Counts(F)

(* A set of numbers has a least one.                                       *)
LEMMA LeastOf ==
    ASSUME NEW S \in SUBSET Nat, S # {}
    PROVE  \E i \in S : \A j \in S : i <= j
<1>1. PICK R : R = OpToRel(<, Nat)
  BY Zenon
<1>2. IsWellFoundedOn(R, Nat)
  BY <1>1, NatLessThanWellFounded, Zenon
<1>3. \A j, i \in Nat : j < i => <<j, i>> \in R
  BY <1>1, Zenon DEF OpToRel
<1> HIDE <1>1
<1>4. PICK i \in S : \A j \in S : ~(<<j, i>> \in R)
  BY <1>2, WFMin, Zenon
<1>5. \A j \in S : ~(j < i)
  BY <1>3, <1>4
<1> QED
  BY <1>5

LEMMA Singletons ==
    ASSUME NEW v \in Nat, NEW w \in Nat
    PROVE  {b + w : b \in {v} \cup {v}} = {v + w}
  OBVIOUS

(* In a good tree the equation has one solution at the root, the height.   *)
LEMMA CountsAre ==
    ASSUME NEW S \in SUBSET Node, NEW d, NEW h, Shape(t, S), Deep(t, d),
           Levels(t, S, h, Nil, Nil), RedFix(t, Nil)
    PROVE  /\ \E F : Counts(F)
           /\ \A F : Counts(F) => F[t.root] = {h[t.root]}
<1>1. /\ t \in Tree /\ S \subseteq Ref /\ Nil \notin S /\ Nil \notin Node /\ Nil \in Ref
      /\ Nil \notin t.red /\ h \in [Ref -> Nat] /\ h[Nil] = 0
      /\ \A n \in Ref : t.l[n] \in Ref /\ t.r[n] \in Ref
  BY TreeAssumption DEF Shape, Levels, Ref, Tree
<1>2. PICK e : e = [n \in Ref |-> IF n \in S \cup {Nil} THEN h[n]
                                  ELSE IF n \in t.red THEN 0 ELSE 1]
  OBVIOUS
<1>3. /\ e \in [Ref -> Nat] /\ e[Nil] = 0
      /\ \A n \in S : e[n] = h[n]
      /\ \A n \in Ref : n # Nil /\ n \notin S => e[n] = IF n \in t.red THEN 0 ELSE 1
  BY <1>1, <1>2
<1>4. ASSUME NEW n \in Ref, n # Nil
      PROVE  /\ e[t.l[n]] = e[t.r[n]]
             /\ e[n] = e[t.l[n]] + (IF n \in t.red THEN 0 ELSE 1)
  <2>1. CASE n \in S
    <3>1. Family(t, S, d)
      BY Kin
    <3>2. t.l[n] \in S \cup {Nil} /\ t.r[n] \in S \cup {Nil}
      BY <3>1 DEF Family, Begets
    <3>3. e[t.l[n]] = h[t.l[n]] /\ e[t.r[n]] = h[t.r[n]]
      BY <1>1, <1>3, <3>2
    <3>4. Level(t, h, Nil, Nil, n)
      BY <2>1 DEF Levels
    <3> QED
      BY <1>3, <1>4, <2>1, <3>3, <3>4 DEF Level, Height, Weight
  <2>2. CASE n \notin S
    <3>1. n \in Node
      BY <1>4 DEF Ref
    <3>2. t.l[n] = Nil /\ t.r[n] = Nil
      BY <2>2, <3>1 DEF Shape
    <3> QED
      BY <1>3, <1>4, <2>2, <3>2
  <2> QED
    BY <2>1, <2>2
<1>5. \E F : Counts(F)
  <2>1. PICK F : F = [n \in Ref |-> {e[n]}]
    OBVIOUS
  <2>2. ASSUME NEW n \in Ref
        PROVE  F[n] = IF n = Nil THEN {0}
                      ELSE {b + (IF n \in t.red THEN 0 ELSE 1) : b \in F[t.l[n]] \cup F[t.r[n]]}
    <3>1. CASE n = Nil
      BY <1>1, <1>3, <2>1, <3>1
    <3>2. CASE n # Nil
      <4>1. PICK w \in Nat : w = IF n \in t.red THEN 0 ELSE 1
        OBVIOUS
      <4>2. PICK v \in Nat : v = e[t.l[n]]
        BY <1>1, <1>3
      <4>3. F[t.l[n]] = {v} /\ F[t.r[n]] = {v} /\ F[n] = {v + w}
        BY <1>1, <1>4, <2>1, <3>2, <4>1, <4>2
      <4>4. {b + w : b \in F[t.l[n]] \cup F[t.r[n]]} = {v + w}
        BY <4>3, Singletons
      <4> QED
        BY <3>2, <4>1, <4>3, <4>4
    <3> QED
      BY <3>1, <3>2
  <2>3. F = [n \in Ref |->
               IF n = Nil THEN {0}
               ELSE {b + (IF n \in t.red THEN 0 ELSE 1) : b \in F[t.l[n]] \cup F[t.r[n]]}]
    <3>1. F = [n \in Ref |-> F[n]]
      BY <2>1
    <3> HIDE <2>1
    <3> QED
      BY <2>2, <3>1
  <2> QED
    BY <2>3 DEF Counts
<1>6. ASSUME NEW F, Counts(F)
      PROVE  F[t.root] = {h[t.root]}
  <2>1. ASSUME NEW n \in Ref
        PROVE  F[n] = IF n = Nil THEN {0}
                      ELSE {b + (IF n \in t.red THEN 0 ELSE 1) : b \in F[t.l[n]] \cup F[t.r[n]]}
    BY <1>6, Zenon DEF Counts
  <2>2. PICK rank : rank = [n \in Ref |-> IF n = Nil THEN 0
                                          ELSE 2 * e[n] + (IF n \in t.red THEN 1 ELSE 0) + 1]
    OBVIOUS
  <2>3. rank \in [Ref -> Nat]
    BY <1>3, <2>2
  <2>4. ASSUME NEW n \in Ref, n # Nil, NEW c, c = t.l[n] \/ c = t.r[n]
        PROVE  rank[c] < rank[n]
    <3>1. c \in Ref /\ e[c] \in Nat /\ e[n] \in Nat
      BY <1>1, <1>3, <2>4
    <3>2. e[n] = e[c] + (IF n \in t.red THEN 0 ELSE 1)
      BY <1>4, <2>4
    <3>3. c # Nil => t.p[c] = n
      <4>1. n \in Node
        BY <2>4 DEF Ref
      <4> QED
        BY <2>4, <4>1 DEF Shape
    <3>4. c # Nil /\ n \in t.red => c \notin t.red
      BY <1>1, <3>3 DEF RedFix
    <3>5. rank[n] = 2 * e[n] + (IF n \in t.red THEN 1 ELSE 0) + 1
      BY <2>2, <2>4
    <3>6. c # Nil => rank[c] = 2 * e[c] + (IF c \in t.red THEN 1 ELSE 0) + 1
      BY <2>2, <3>1
    <3>7. c = Nil => rank[c] = 0
      BY <2>2, <3>1
    <3> QED
      BY <3>1, <3>2, <3>4, <3>5, <3>6, <3>7
  <2>5. \A n \in Ref : F[n] = {e[n]}
    <3>1. SUFFICES ASSUME NEW k \in Ref, F[k] # {e[k]} PROVE FALSE
      OBVIOUS
    <3>2. PICK T : T = {rank[n] : n \in {i \in Ref : F[i] # {e[i]}}}
      OBVIOUS
    <3>3. T \in SUBSET Nat /\ T # {}
      BY <2>3, <3>1, <3>2
    <3>4. PICK m \in T : \A j \in T : m <= j
      BY <3>3, LeastOf
    <3>5. PICK n \in Ref : F[n] # {e[n]} /\ rank[n] = m
      BY <3>2, <3>4
    <3>6. n # Nil
      BY <1>3, <2>1, <3>5
    <3>7. ASSUME NEW c, c = t.l[n] \/ c = t.r[n]
          PROVE  F[c] = {e[c]}
      <4>1. c \in Ref /\ rank[c] < m /\ rank[c] \in Nat /\ m \in Nat
        BY <1>1, <2>3, <2>4, <3>5, <3>6, <3>7
      <4> QED
        BY <3>2, <3>4, <4>1
    <3>8. PICK v \in Nat : v = e[t.l[n]]
      BY <1>1, <1>3
    <3>9. PICK w \in Nat : w = IF n \in t.red THEN 0 ELSE 1
      OBVIOUS
    <3>10. F[t.l[n]] = {v} /\ F[t.r[n]] = {v} /\ e[n] = v + w
      BY <1>4, <3>6, <3>7, <3>8, <3>9
    <3>11. {b + w : b \in F[t.l[n]] \cup F[t.r[n]]} = {v + w}
      BY <3>10, Singletons
    <3>12. F[n] = {b + (IF n \in t.red THEN 0 ELSE 1) : b \in F[t.l[n]] \cup F[t.r[n]]}
      BY <2>1, <3>6
    <3>13. F[n] = {v + w}
      BY ONLY <3>9, <3>11, <3>12
    <3> QED
      BY <3>5, <3>10, <3>13
  <2>6. t.root \in S \cup {Nil} /\ t.root \in Ref
    BY <1>1 DEF Shape
  <2>7. e[t.root] = h[t.root]
    BY <1>1, <1>3, <2>6
  <2> QED
    BY <2>5, <2>6, <2>7
<1> QED
  BY <1>5, <1>6

(* Balanced, with its local definition named.                              *)
LEMMA CountsInBalance ==
    ASSUME Quiet =>
             /\ t.root \notin t.red
             /\ \A n \in t.red : t.p[n] \notin t.red
             /\ Cardinality(TheCounts[t.root]) = 1
    PROVE  Balanced
  BY Zenon DEF Balanced, TheCounts, Counts

(* After every operation the tree is balanced: the root is black, no red   *)
(* node has a red parent, and every path has as many black nodes, whatever *)
(* was inserted and removed (lc_rbt.c).                                    *)
THEOREM BalancedAlways == Spec => []Balanced
<1>1. IInv => Balanced
  <2>1. SUFFICES ASSUME IInv, Quiet PROVE Balanced
    BY Zenon DEF Balanced
  <2>2. Fixing(t, present, Nil) /\ present \in SUBSET Node
    BY <2>1 DEF IInv, TreeAt, Quiet, TypeOK
  <2>3. PICK d, h : /\ Shape(t, present) /\ Deep(t, d)
                    /\ Levels(t, present, h, Nil, Nil) /\ RedFix(t, Nil)
    BY <2>2 DEF Fixing
  <2>4. Counts(TheCounts)
    BY <2>2, <2>3, CountsAre, Zenon DEF TheCounts
  <2>5. TheCounts[t.root] = {h[t.root]}
    BY <2>2, <2>3, <2>4, CountsAre
  <2>6. Cardinality(TheCounts[t.root]) = 1
    BY <2>5, FS_Singleton
  <2>7. t.root \notin t.red /\ \A n \in t.red : t.p[n] \notin t.red
    BY <2>3 DEF RedFix, Shape
  <2> QED
    BY <2>6, <2>7, CountsInBalance
<1> QED
  BY <1>1, Invariance, PTL

=============================================================================
