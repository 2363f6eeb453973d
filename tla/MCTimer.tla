------------------------------ MODULE MCTimer -------------------------------
(* Timers on small instances, and the heap's operations on all heaps of    *)
(* seven nodes: insertions with any keys, then any removal, which keeps    *)
(* the links sound also when a key was changed in place.                   *)
EXTENDS Timer, TLC

Seven == INSTANCE Heap WITH Node <- 1..7, Nil <- 0

Built(key) ==
    LET heaps[n \in 0..7] ==
            IF n = 0 THEN Seven!EmptyHeap
            ELSE Seven!HeapInsert(Seven!NodeInit(heaps[n - 1], n), key, n)
    IN  heaps[7]

IsHeap(h, key, S) == Seven!WellLinked(h, S) /\ Seven!Ordered(h, key)

ASSUME HeapOperations ==
    \A key \in Permutations(1..7) \cup [1..7 -> 1..2] :
        /\ IsHeap(Built(key), key, 1..7)
        /\ \A n \in 1..7 : IsHeap(Seven!HeapRemove(Built(key), key, n), key, (1..7) \ {n})

ASSUME RemovalAfterChange ==
    \A key \in [1..7 -> 1..2], changed \in 1..7, n \in 1..7 :
        Seven!WellLinked(Seven!HeapRemove(Built(key), [key EXCEPT ![changed] = 3 - @], n),
                         (1..7) \ {n})
=============================================================================
