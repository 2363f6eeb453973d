------------------------------- MODULE RbTree -------------------------------
(***************************************************************************)
(* The red-black tree of src/lc_rbt.c, in which the event loop keeps its   *)
(* descriptors: nodes with links to their parent and children, a sentinel  *)
(* in place of missing ones, and an iterator that threads the tree.        *)
(*                                                                         *)
(* An insertion or a removal runs alone; its loops are steps of their own, *)
(* and between two of them the tree is whatever the pointers say.  The     *)
(* tree is one record t, so that a rotation is an operator on trees.       *)
(***************************************************************************)
EXTENDS Integers, Sequences, FiniteSets

CONSTANTS Node, Nil, Key

ASSUME TreeAssumption == Nil \notin Node /\ Key \in [Node -> Int]

Ref == Node \cup {Nil}

VARIABLES
    t,          \* root, links and colours
    pc,         \* where the operation in progress is
    cur, up,    \* the node it is at; the parent of the place it is at
    new,        \* the node it inserts or removes
    link,       \* morris_link of each node
    out,        \* the nodes the iterator has returned, in order
    present,    \* history: the nodes that are in the tree
    swapped     \* history: a node with two children has been removed

vars == <<t, pc, cur, up, new, link, out, present, swapped>>

Tree == [root : Ref, l : [Ref -> Ref], r : [Ref -> Ref], p : [Ref -> Ref],
         red : SUBSET Ref]

TypeOK ==
    /\ t \in Tree
    /\ pc \in {"idle", "down", "fix", "rotate", "min", "cut", "rm", "near", "far",
               "replace", "iterate"}
    /\ cur \in Ref /\ up \in Ref /\ new \in Ref
    /\ link \in [Ref -> Ref]
    /\ out \in Seq(Node)
    /\ present \in SUBSET Node
    /\ swapped \in BOOLEAN

AllNil == [n \in Ref |-> Nil]

Init ==
    /\ t = [root |-> Nil, l |-> AllNil, r |-> AllNil, p |-> AllNil, red |-> {}]
    /\ pc = "idle"
    /\ cur = Nil /\ up = Nil /\ new = Nil
    /\ link = AllNil
    /\ out = <<>>
    /\ present = {}
    /\ swapped = FALSE

-----------------------------------------------------------------------------
Paint(x, n, red) == [x EXCEPT !.red = IF red THEN @ \cup {n} ELSE @ \ {n}]

(* The link that leads to n, in its parent or at the root, leads to m.     *)
Relink(x, n, m) ==
    IF x.p[n] = Nil THEN [x EXCEPT !.root = m]
    ELSE IF n = x.l[x.p[n]] THEN [x EXCEPT !.l[x.p[n]] = m]
    ELSE [x EXCEPT !.r[x.p[n]] = m]

(* Faulty variant of SetParent: the sentinel written like any node.         *)
SetParentAlways(x, n, q) == [x EXCEPT !.p[n] = q]

SetParent(x, n, q) == IF n = Nil THEN x ELSE [x EXCEPT !.p[n] = q]

(* Rotations.  n and its child c are always nodes, never the sentinel: what *)
(* the code tests of chd, and does not test of node, makes no difference.  *)

(* Faulty variant of RotateLeft: the subtree that changes sides keeps its  *)
(* parent.                                                                 *)
RotateLeftOrphans(x, n) ==
    LET c == x.r[n]
        x1 == [x EXCEPT !.r[n] = x.l[c]]
        x2 == Relink(SetParent(x1, c, x1.p[n]), n, c)
    IN  SetParent([x2 EXCEPT !.l[c] = n], n, c)

RotateLeft(x, n) ==
    LET c == x.r[n]
        x1 == SetParent([x EXCEPT !.r[n] = x.l[c]], x.l[c], n)
        x2 == Relink(SetParent(x1, c, x1.p[n]), n, c)
    IN  SetParent([x2 EXCEPT !.l[c] = n], n, c)

RotateRight(x, n) ==
    LET c == x.l[n]
        x1 == SetParent([x EXCEPT !.l[n] = x.r[c]], x.r[c], n)
        x2 == Relink(SetParent(x1, c, x1.p[n]), n, c)
    IN  SetParent([x2 EXCEPT !.r[c] = n], n, c)

(* The other child of n's parent.                                          *)
Sib(x, n) == IF x.l[x.p[n]] = n THEN x.r[x.p[n]] ELSE x.l[x.p[n]]

IsLeft(x, n) == n = x.l[x.p[n]]

-----------------------------------------------------------------------------
(* liteco_rbt_insert: the new node, freshly initialised, descends.         *)
Insert(n) ==
    /\ pc = "idle"
    /\ n \notin present
    /\ new' = n
    /\ t' = [t EXCEPT !.l[n] = Nil, !.r[n] = Nil, !.p[n] = Nil, !.red = @ \cup {n}]
    /\ link' = [link EXCEPT ![n] = Nil]
    /\ cur' = t.root
    /\ up' = Nil
    /\ pc' = "down"
    /\ UNCHANGED <<out, present, swapped>>

(* Faulty variant of Descend: the comparison turned round.                 *)
DescendSwapped ==
    /\ pc = "down"
    /\ cur # Nil
    /\ Key[new] # Key[cur]
    /\ up' = cur
    /\ cur' = IF Key[new] < Key[cur] THEN t.r[cur] ELSE t.l[cur]
    /\ UNCHANGED <<t, pc, new, link, out, present, swapped>>

Descend ==
    /\ pc = "down"
    /\ cur # Nil
    /\ Key[new] # Key[cur]
    /\ up' = cur
    /\ cur' = IF Key[new] < Key[cur] THEN t.l[cur] ELSE t.r[cur]
    /\ UNCHANGED <<t, pc, new, link, out, present, swapped>>

(* The key is there: the insertion fails.                                  *)
Conflict ==
    /\ pc = "down"
    /\ cur # Nil
    /\ Key[new] = Key[cur]
    /\ pc' = "idle"
    /\ cur' = Nil /\ up' = Nil /\ new' = Nil
    /\ UNCHANGED <<t, link, out, present, swapped>>

Attach ==
    /\ pc = "down"
    /\ cur = Nil
    /\ t' = LET x == [t EXCEPT !.p[new] = up]
            IN  IF up = Nil THEN [x EXCEPT !.root = new]
                ELSE IF Key[new] < Key[up] THEN [x EXCEPT !.l[up] = new]
                ELSE [x EXCEPT !.r[up] = new]
    /\ present' = present \cup {new}
    /\ cur' = new
    /\ pc' = "fix"
    /\ UNCHANGED <<up, new, link, out, swapped>>

(* __fix, one turn of its loop or half of one: a red uncle moves the       *)
(* conflict up, a black one ends it with one rotation or two.              *)
Grand(n) == t.p[t.p[n]]
Uncle(n) == Sib(t, t.p[n])

FixRecolour ==
    /\ pc = "fix"
    /\ t.p[cur] \in t.red
    /\ Uncle(cur) \in t.red
    /\ t' = Paint(Paint(Paint(t, Uncle(cur), FALSE), t.p[cur], FALSE), Grand(cur), TRUE)
    /\ cur' = Grand(cur)
    /\ UNCHANGED <<pc, up, new, link, out, present, swapped>>

FixInner ==
    /\ pc = "fix"
    /\ t.p[cur] \in t.red
    /\ Uncle(cur) \notin t.red
    /\ pc' = "rotate"
    /\ IF IsLeft(t, cur) = IsLeft(t, t.p[cur])
       THEN UNCHANGED <<t, cur>>
       ELSE /\ cur' = t.p[cur]
            /\ t' = IF IsLeft(t, cur) THEN RotateRight(t, t.p[cur])
                    ELSE RotateLeft(t, t.p[cur])
    /\ UNCHANGED <<up, new, link, out, present, swapped>>

FixOuter ==
    /\ pc = "rotate"
    /\ LET x == Paint(Paint(t, t.p[cur], FALSE), Grand(cur), TRUE)
       IN  t' = IF IsLeft(t, t.p[cur]) THEN RotateRight(x, Grand(cur))
                ELSE RotateLeft(x, Grand(cur))
    /\ pc' = "fix"
    /\ UNCHANGED <<cur, up, new, link, out, present, swapped>>

FixDone ==
    /\ pc = "fix"
    /\ t.p[cur] \notin t.red
    /\ t' = Paint(t, t.root, FALSE)
    /\ pc' = "idle"
    /\ cur' = Nil /\ up' = Nil /\ new' = Nil
    /\ UNCHANGED <<link, out, present, swapped>>

-----------------------------------------------------------------------------
(* liteco_rbt_remove.  A node with two children first changes places with  *)
(* what __min returns: the least node of the subtree it is the root of.    *)
Remove(n) ==
    /\ pc = "idle"
    /\ n \in present
    /\ new' = n
    /\ cur' = n
    /\ pc' = IF t.l[n] # Nil /\ t.r[n] # Nil THEN "min" ELSE "cut"
    /\ UNCHANGED <<t, up, link, out, present, swapped>>

Min ==
    /\ pc = "min"
    /\ t.l[cur] # Nil
    /\ cur' = t.l[cur]
    /\ UNCHANGED <<t, pc, up, new, link, out, present, swapped>>

(* Two nodes exchange their places: every link to one becomes a link to    *)
(* the other (__assign, three times, by way of a node on the stack).       *)
Exchange(x, m, n) ==
    LET Other(k) == IF k = m THEN n ELSE IF k = n THEN m ELSE k
        Renamed(f) == [k \in Ref |-> Other(f[Other(k)])]
    IN  [root |-> Other(x.root), l |-> Renamed(x.l), r |-> Renamed(x.r),
         p |-> Renamed(x.p), red |-> {Other(k) : k \in x.red}]

Swap ==
    /\ pc = "min"
    /\ t.l[cur] = Nil
    /\ t' = Exchange(t, new, cur)
    /\ link' = [link EXCEPT ![new] = link[cur], ![cur] = link[new]]
    /\ swapped' = TRUE
    /\ cur' = new
    /\ pc' = "cut"
    /\ UNCHANGED <<up, new, out, present>>

Child(x, n) == IF x.l[n] # Nil THEN x.l[n] ELSE x.r[n]

(* A black node takes its child's colour, and its place must be made up    *)
(* for before it goes.                                                     *)
Cut ==
    /\ pc = "cut"
    /\ IF cur \in t.red
       THEN pc' = "replace" /\ UNCHANGED t
       ELSE pc' = "rm" /\ t' = Paint(t, cur, Child(t, cur) \in t.red)
    /\ UNCHANGED <<cur, up, new, link, out, present, swapped>>

(* __rm1 and __rm2: at the root nothing is left to do; a red sibling       *)
(* becomes the grandparent.                                                *)
RmRoot ==
    /\ pc = "rm"
    /\ t.p[cur] = Nil
    /\ pc' = "replace"
    /\ UNCHANGED <<t, cur, up, new, link, out, present, swapped>>

RmRedSibling ==
    /\ pc = "rm"
    /\ t.p[cur] # Nil
    /\ pc' = "near"
    /\ IF Sib(t, cur) \in t.red
       THEN LET x == Paint(Paint(t, t.p[cur], TRUE), Sib(t, cur), FALSE)
            IN  t' = IF IsLeft(t, cur) THEN RotateLeft(x, t.p[cur])
                     ELSE RotateRight(x, t.p[cur])
       ELSE UNCHANGED t
    /\ UNCHANGED <<cur, up, new, link, out, present, swapped>>

AllBlack(s) == {s, t.l[s], t.r[s]} \cap t.red = {}

(* __rm3: nothing red about, the sibling turns red and the parent is next. *)
RmUp ==
    /\ pc = "near"
    /\ t.p[cur] \notin t.red
    /\ AllBlack(Sib(t, cur))
    /\ t' = Paint(t, Sib(t, cur), TRUE)
    /\ cur' = t.p[cur]
    /\ pc' = "rm"
    /\ UNCHANGED <<up, new, link, out, present, swapped>>

(* __rm4: a red parent and its black child exchange colours.               *)
RmExchange ==
    /\ pc = "near"
    /\ t.p[cur] \in t.red
    /\ AllBlack(Sib(t, cur))
    /\ t' = Paint(Paint(t, Sib(t, cur), TRUE), t.p[cur], FALSE)
    /\ pc' = "replace"
    /\ UNCHANGED <<cur, up, new, link, out, present, swapped>>

(* __rm5: a nephew that is red on the near side goes to the far side.      *)
RmNear ==
    /\ pc = "near"
    /\ ~ AllBlack(Sib(t, cur))
    /\ pc' = "far"
    /\ LET s == Sib(t, cur)
           near == IF IsLeft(t, cur) THEN t.l[s] ELSE t.r[s]
           far == IF IsLeft(t, cur) THEN t.r[s] ELSE t.l[s]
           x == Paint(Paint(t, s, TRUE), near, FALSE)
       IN  IF s \notin t.red /\ near \in t.red /\ far \notin t.red
           THEN t' = IF IsLeft(t, cur) THEN RotateRight(x, s) ELSE RotateLeft(x, s)
           ELSE UNCHANGED t
    /\ UNCHANGED <<cur, up, new, link, out, present, swapped>>

(* Faulty variant of RmFar: the far nephew stays red.                      *)
RmFarStaysRed ==
    /\ pc = "far"
    /\ LET s == Sib(t, cur)
           x == Paint(Paint(t, s, t.p[cur] \in t.red), t.p[cur], FALSE)
       IN  t' = IF IsLeft(t, cur) THEN RotateLeft(x, t.p[cur])
                ELSE RotateRight(x, t.p[cur])
    /\ pc' = "replace"
    /\ UNCHANGED <<cur, up, new, link, out, present, swapped>>

(* __rm6: the red far nephew pays for the node that goes.                  *)
RmFar ==
    /\ pc = "far"
    /\ LET s == Sib(t, cur)
           far == IF IsLeft(t, cur) THEN t.r[s] ELSE t.l[s]
           x == Paint(Paint(Paint(t, s, t.p[cur] \in t.red), t.p[cur], FALSE), far, FALSE)
       IN  t' = IF IsLeft(t, cur) THEN RotateLeft(x, t.p[cur])
                ELSE RotateRight(x, t.p[cur])
    /\ pc' = "replace"
    /\ UNCHANGED <<cur, up, new, link, out, present, swapped>>

(* The links of a removed node are not read again before it is initialised *)
(* and inserted anew.                                                      *)
Forget(x, n) == [x EXCEPT !.l[n] = Nil, !.r[n] = Nil, !.p[n] = Nil, !.red = @ \ {n}]

(* Faulty variant of Replace: a right child is dropped.                    *)
ReplaceByLeft ==
    /\ pc = "replace"
    /\ LET c == t.l[new]
           x == SetParent(Relink(t, new, c), c, t.p[new])
       IN  t' = Forget(IF t.p[new] = Nil /\ c # Nil THEN Paint(x, c, FALSE) ELSE x, new)
    /\ present' = present \ {new}
    /\ pc' = "idle"
    /\ cur' = Nil /\ new' = Nil
    /\ UNCHANGED <<up, link, out, swapped>>

(* __replace: the child takes the place of the removed node.               *)
Replace ==
    /\ pc = "replace"
    /\ LET c == Child(t, new)
           gone == IF new = t.root THEN [t EXCEPT !.root = c] ELSE Relink(t, new, c)
           x == SetParent(gone, c, t.p[new])
       IN  t' = Forget(IF t.p[new] = Nil /\ c # Nil THEN Paint(x, c, FALSE) ELSE x, new)
    /\ present' = present \ {new}
    /\ pc' = "idle"
    /\ cur' = Nil /\ new' = Nil
    /\ UNCHANGED <<up, link, out, swapped>>

-----------------------------------------------------------------------------
(* The iterator (Morris): cur goes down to the left after threading the    *)
(* last node of the left subtree back to where it came from, and finds the *)
(* thread there when it is back.  right is __r of the code.                *)
right(n) == IF t.r[n] # Nil THEN t.r[n] ELSE link[n]

Thread ==
    LET Last[m \in Node] == IF right(m) \in {Nil, cur} THEN m ELSE Last[right(m)]
    IN  Last[t.l[cur]]

IterBegin ==
    /\ pc = "idle"
    /\ present # {}
    /\ pc' = "iterate"
    /\ cur' = t.root
    /\ out' = <<>>
    /\ UNCHANGED <<t, up, new, link, present, swapped>>

(* A faulty variant of the iterator: it leaves its threads.                *)
IterBackKeeps ==
    /\ pc = "iterate"
    /\ cur # Nil
    /\ t.l[cur] # Nil
    /\ right(Thread) = cur
    /\ out' = Append(out, cur)
    /\ cur' = right(cur)
    /\ UNCHANGED <<t, pc, up, new, link, present, swapped>>

IterLeaf ==
    /\ pc = "iterate"
    /\ cur # Nil
    /\ t.l[cur] = Nil
    /\ out' = Append(out, cur)
    /\ cur' = right(cur)
    /\ UNCHANGED <<t, pc, up, new, link, present, swapped>>

IterDown ==
    /\ pc = "iterate"
    /\ cur # Nil
    /\ t.l[cur] # Nil
    /\ right(Thread) = Nil
    /\ link' = [link EXCEPT ![Thread] = cur]
    /\ cur' = t.l[cur]
    /\ UNCHANGED <<t, pc, up, new, out, present, swapped>>

IterBack ==
    /\ pc = "iterate"
    /\ cur # Nil
    /\ t.l[cur] # Nil
    /\ right(Thread) = cur
    /\ out' = Append(out, cur)
    /\ link' = [link EXCEPT ![Thread] = Nil]
    /\ cur' = IF t.r[cur] # Nil THEN t.r[cur] ELSE link'[cur]
    /\ UNCHANGED <<t, pc, up, new, present, swapped>>

IterEnd ==
    /\ pc = "iterate"
    /\ cur = Nil
    /\ pc' = "idle"
    /\ out' = <<>>
    /\ UNCHANGED <<t, cur, up, new, link, present, swapped>>

Next ==
    \/ \E n \in Node : Insert(n) \/ Remove(n)
    \/ Descend \/ Conflict \/ Attach
    \/ FixRecolour \/ FixInner \/ FixOuter \/ FixDone
    \/ Min \/ Swap \/ Cut
    \/ RmRoot \/ RmRedSibling \/ RmUp \/ RmExchange \/ RmNear \/ RmFar \/ Replace
    \/ IterBegin \/ IterLeaf \/ IterDown \/ IterBack \/ IterEnd

Spec == Init /\ [][Next]_vars

-----------------------------------------------------------------------------
Quiet == pc \in {"idle", "iterate"}

(* The nodes below a place, in order, by the links to the children.        *)
InOrder ==
    LET Below[n \in Ref] ==
            IF n = Nil THEN <<>> ELSE Below[t.l[n]] \o <<n>> \o Below[t.r[n]]
    IN  Below[t.root]

(* Links to parents and to children agree, at every step of an operation.  *)
Linked ==
    /\ t.root # Nil => t.p[t.root] = Nil
    /\ \A n \in Node :
          /\ t.l[n] # Nil => t.p[t.l[n]] = n
          /\ t.r[n] # Nil => t.p[t.r[n]] = n
          /\ t.p[n] # Nil /\ ~ (pc = "down" /\ n = new) =>
                 n \in {t.l[t.p[n]], t.r[t.p[n]]}

(* The sentinel, which all trees share and which is const, is never        *)
(* written: every rotation and recolouring meets the nodes it expects.     *)
SentinelUntouched ==
    t.l[Nil] = Nil /\ t.r[Nil] = Nil /\ t.p[Nil] = Nil /\ Nil \notin t.red

(* Balance, after every operation: no red node has a red parent, the root  *)
(* is black, and every path has as many black nodes.                       *)
Balanced ==
    LET Blacks[n \in Ref] ==
            IF n = Nil THEN {0}
            ELSE {b + (IF n \in t.red THEN 0 ELSE 1) : b \in Blacks[t.l[n]] \cup Blacks[t.r[n]]}
    IN  Quiet => /\ t.root \notin t.red
                 /\ \A n \in t.red : t.p[n] \notin t.red
                 /\ Cardinality(Blacks[t.root]) = 1

(* The tree holds the nodes inserted and not removed, each once, whatever  *)
(* the rotations did.                                                      *)
HoldsAll ==
    Quiet => /\ Len(InOrder) = Cardinality(present)
             /\ {InOrder[i] : i \in 1..Len(InOrder)} = present

(* liteco_rbt_find.                                                        *)
Find(k) ==
    LET From[n \in Ref] ==
            IF n = Nil THEN Nil
            ELSE IF k = Key[n] THEN n
            ELSE IF k < Key[n] THEN From[t.l[n]] ELSE From[t.r[n]]
    IN  From[t.root]

(* What was inserted and not removed is found, as lc_rbt_test.c:29 has it. *)
FindsAll == Quiet => \A n \in present : Find(Key[n]) = n

(* So it is as long as no node with two children has been removed: __min   *)
(* breaks the order of the keys (lc_rbt.c:78-80).                          *)
FindsUntilSwap == ~ swapped => FindsAll

(* The iterator returns every node once, in the order of the tree, and     *)
(* leaves no thread behind: the next removal may free any node.            *)
IteratesAll ==
    /\ pc = "iterate" /\ cur = Nil => out = InOrder /\ link = AllNil
    /\ pc # "iterate" => link = AllNil
=============================================================================
