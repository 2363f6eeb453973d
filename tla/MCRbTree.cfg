\* Eleven nodes: the fewest keys for which a removal climbs more than one
\* level is ten.
CONSTANTS
    Node = {1, 2, 3, 4, 5, 6, 7, 8, 9, 10, 11}
    Nil = 0
    Key <- TwoOfOneKey
SPECIFICATION Spec
CONSTRAINT SwapsInSmallTrees
INVARIANT Linked
INVARIANT SentinelUntouched
INVARIANT Balanced
INVARIANT HoldsAll
INVARIANT FindsUntilSwap
INVARIANT IteratesAll
