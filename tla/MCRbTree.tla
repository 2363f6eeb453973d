------------------------------ MODULE MCRbTree ------------------------------
(* RbTree with nodes that are numbers, each its own key but for one: node 11 *)
(* has the key of node 5. *)
EXTENDS RbTree

TwoOfOneKey == [n \in Node |-> IF n = 11 THEN 5 ELSE n]

(* Trees whose order __min has broken are explored up to this size.        *)
SwappedMax == 4
SwapsInSmallTrees == swapped => Cardinality(present) <= SwappedMax
=============================================================================
