------------------------------ MODULE MCSelect ------------------------------
(* Select on small instances: the MCSelect*.cfg give its constants values. *)
EXTENDS Select, TLC

CONSTANTS k, l, s   \* two channels and the coroutine that selects

OneElement == [c \in Chan |-> IF c = k THEN 1 ELSE 0]
NoBuffer == [c \in Chan |-> 0]

CallsOfOthers == [a \in Actor |->
    IF a = s THEN {} ELSE IF a \in Co THEN {"push", "pop"} ELSE {"upush", "trypop", "close"}]

Offer(c, t) == [on |-> c, type |-> t]

OneSelector == [a \in Actor |->
    IF a = s THEN {<<Offer(k, "push"), Offer(l, "push")>>,
                   <<Offer(l, "pop"), Offer(k, "pop")>>}
    ELSE {}]
=============================================================================
