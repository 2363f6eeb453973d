\* Five nodes, any removals.
CONSTANTS
    Node = {1, 2, 3, 4, 5}
    Nil = 0
    Key <- TwoOfOneKey
SPECIFICATION Spec
INVARIANT FindsAll
