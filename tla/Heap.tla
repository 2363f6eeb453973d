-------------------------------- MODULE Heap --------------------------------
(***************************************************************************)
(* The binary heap of src/lc_heap.c: a complete tree of nodes linked to    *)
(* their parent and children, in which a node is moved by exchanging links *)
(* and never contents.  A heap is a record; the operations are operators   *)
(* on heaps, and key gives each node what the comparison looks at.  Nil is *)
(* NULL.                                                                   *)
(***************************************************************************)
EXTENDS Integers, FiniteSets

CONSTANTS Node, Nil

Ref == Node \cup {Nil}

Heaps == [root : Ref, cnt : Nat, p : [Ref -> Ref], l : [Ref -> Ref], r : [Ref -> Ref]]

AllNil == [n \in Ref |-> Nil]

EmptyHeap == [root |-> Nil, cnt |-> 0, p |-> AllNil, l |-> AllNil, r |-> AllNil]

(* The comparison of the loop's timers.                                    *)
Swaps(key, p, c) == key[c] < key[p]

-----------------------------------------------------------------------------
(* The code finds the place after or at cnt by the bits of cnt below its   *)
(* highest one: places are numbered by rows, and place k is a child of     *)
(* place k \div 2.                                                         *)
Places(h) ==
    LET at[k \in Nat] ==
            IF k = 1 THEN h.root
            ELSE IF k % 2 = 1 THEN h.r[at[k \div 2]] ELSE h.l[at[k \div 2]]
    IN  [k \in 1..h.cnt |-> at[k]]

Put(h, k, n) ==     \* *in = node and *max = NULL
    IF k = 1 THEN [h EXCEPT !.root = n]
    ELSE LET p == Places(h)[k \div 2]
         IN  IF k % 2 = 1 THEN [h EXCEPT !.r[p] = n] ELSE [h EXCEPT !.l[p] = n]

(* What led to node old, the root or a link of its parent p, leads to new. *)
Relink(h, p, old, new) ==
    IF p = Nil THEN [h EXCEPT !.root = new]
    ELSE IF h.l[p] = old THEN [h EXCEPT !.l[p] = new]
    ELSE [h EXCEPT !.r[p] = new]

(* Nodes in S that are there get p for their parent.                       *)
Adopt(h, S, p) == [h EXCEPT !.p = [n \in Ref |-> IF n \in S \ {Nil} THEN p ELSE @[n]]]

(* p and its child c exchange their places.                                *)
Swap(h, p, c) ==
    LET left == h.l[p] = c
        links == [h EXCEPT !.p[p] = c, !.p[c] = h.p[p],
                           !.l[p] = h.l[c], !.l[c] = IF left THEN p ELSE h.l[p],
                           !.r[p] = h.r[c], !.r[c] = IF left THEN h.r[p] ELSE p]
        sibling == Adopt(links, {IF left THEN h.r[p] ELSE h.l[p]}, c)
        nephews == Adopt(sibling, {h.l[c], h.r[c]}, p)
    IN  Relink(nephews, h.p[p], p, c)

-----------------------------------------------------------------------------
SiftUp(heap, key, n) ==
    LET up[h \in Heaps] ==
            IF h.p[n] # Nil /\ Swaps(key, h.p[n], n) THEN up[Swap(h, h.p[n], n)] ELSE h
    IN  up[heap]

Smallest(h, key, n) ==
    LET less(a, b) == IF b # Nil /\ Swaps(key, a, b) THEN b ELSE a
    IN  less(less(n, h.l[n]), h.r[n])

SiftDown(heap, key, n) ==
    LET down[h \in Heaps] ==
            LET small == Smallest(h, key, n)
            IN  IF small = n THEN h ELSE down[Swap(h, n, small)]
    IN  down[heap]

NodeInit(h, n) == [h EXCEPT !.p[n] = Nil, !.l[n] = Nil, !.r[n] = Nil]

(* The node has been initialised; the first one keeps no parent.           *)
HeapInsert(h, key, n) ==
    LET k == h.cnt + 1
        put == [Put(h, k, n) EXCEPT !.cnt = k]
    IN  IF k = 1 THEN put
        ELSE SiftUp([put EXCEPT !.p[n] = Places(h)[k \div 2]], key, n)

(* The last node takes the place of the one removed, then sinks or rises.  *)
HeapRemove(h, key, n) ==
    LET last == Places(h)[h.cnt]
        cut == [Put(h, h.cnt, Nil) EXCEPT !.cnt = @ - 1]
        moved == [cut EXCEPT !.l[last] = cut.l[n], !.r[last] = cut.r[n],
                             !.p[last] = cut.p[n]]
        placed == Relink(Adopt(moved, {cut.l[n], cut.r[n]}, last), cut.p[n], n, last)
    IN  IF h.cnt = 0 THEN h
        ELSE IF last = n THEN cut
        ELSE SiftUp(SiftDown(placed, key, last), key, last)

-----------------------------------------------------------------------------
(* A heap of the nodes in S: complete, each once, with links both ways.    *)
WellLinked(h, S) ==
    LET at == Places(h)
        Link(k, side) == IF k <= h.cnt THEN side[at[k \div 2]] = at[k] /\ h.p[at[k]] = at[k \div 2]
                         ELSE side[at[k \div 2]] = Nil
    IN  /\ h.cnt = Cardinality(S)
        /\ {at[k] : k \in 1..h.cnt} = S
        /\ h.cnt = 0 => h.root = Nil
        /\ h.cnt > 0 => h.p[h.root] = Nil
        /\ \A k \in 2..(2 * h.cnt + 1) : Link(k, IF k % 2 = 1 THEN h.r ELSE h.l)

Ordered(h, key) ==
    LET at == Places(h)
    IN  \A k \in 2..h.cnt : ~Swaps(key, at[k \div 2], at[k])
=============================================================================
