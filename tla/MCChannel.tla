----------------------------- MODULE MCChannel -----------------------------
(* Channel on small instances: the MCChannel*.cfg give its constants values. *)
EXTENDS Channel, TLC

OneElement == [c \in Chan |-> 1]
NoBuffer == [c \in Chan |-> 0]

(* The coroutines are interchangeable, for runs that check no liveness.    *)
Coroutines == Permutations(Co)

CallsOfMost == [a \in Actor |->
    IF a \in Co THEN {"push", "pop", "close"}
    ELSE {"upush", "trypush", "trypop"}]

CallsOfAll == [a \in Actor |->
    IF a \in Co THEN Op ELSE Op \ {"push", "pop"}]
=============================================================================
