------------------------------- MODULE Select -------------------------------
(***************************************************************************)
(* liteco_select (src/lc_channel.c:208-331): a coroutine offers a push or  *)
(* a pop on each of several channels and carries out one of them.          *)
(*                                                                         *)
(* liteco_select_choose takes the mutexes of all the channels, looks for a *)
(* case that would not block and releases them; the select then makes that *)
(* case's call in its form that does not block, and chooses again when it  *)
(* failed.  When no case is ready the coroutine registers a waiter of kind *)
(* "select" with every channel and sleeps.  Whoever takes such a waiter    *)
(* out passes no element: it wakes the coroutine and is refused itself.    *)
(***************************************************************************)
EXTENDS Channel

CONSTANT SelectsOf   \* the lists of cases each actor may select on

Case == [on : Chan, type : {"push", "pop"}]

(* A select of no case at all, which sleeps for good, is not modelled.    *)
ASSUME SelectAssumption ==
    /\ SelectsOf \in [Actor -> SUBSET Seq(Case)]
    /\ \A a \in Actor : <<>> \notin SelectsOf[a]

VARIABLES
    sel,       \* where each actor is inside liteco_select
    cases,     \* its list of cases
    blocked,   \* its argument blocked
    at         \* the case whose channel it locks next, or that it has chosen

selvars == <<sel, cases, blocked, at>>

(* "lock" and "relock" take the mutexes; "decide" and "dereg" hold them    *)
(* all; "try" is inside the call of the chosen case.                       *)
SelPc == {"none", "lock", "decide", "chosen", "try", "parked", "relock", "dereg"}

SelectTypeOK ==
    /\ TypeOK
    /\ sel \in [Actor -> SelPc]
    /\ cases \in [Actor -> Seq(Case)]
    /\ blocked \in [Actor -> BOOLEAN]
    /\ at \in [Actor -> Nat]

SelectInit ==
    /\ Init
    /\ sel = [a \in Actor |-> "none"]
    /\ cases = [a \in Actor |-> <<>>]
    /\ blocked = [a \in Actor |-> FALSE]
    /\ at = [a \in Actor |-> 0]

Indices(a) == 1..Len(cases[a])
ChannelsOf(a) == {cases[a][i].on : i \in Indices(a)}
In(a, type, c) == \E i \in Indices(a) : cases[a][i] = [on |-> c, type |-> type]

(* What the i-th case of the select pushes.                                *)
CaseElem(a, i) ==
    IF cases[a][i].type = "push"
    THEN [by |-> a, n |-> left[a] + 1, on |-> cases[a][i].on] ELSE None

WouldBlock(a, i) ==
    IF cases[a][i].type = "push"
    THEN wblocked(cases[a][i].on) ELSE rblocked(cases[a][i].on)

Ready(a) == {i \in Indices(a) : ~ WouldBlock(a, i)}

Select(a, cs, b) ==
    /\ Executes(a)
    /\ pc[a] = "user"
    /\ sel[a] = "none"
    /\ left[a] > 0
    /\ b => a \in Co
    /\ left' = [left EXCEPT ![a] = @ - 1]
    /\ sel' = [sel EXCEPT ![a] = "lock"]
    /\ cases' = [cases EXCEPT ![a] = cs]
    /\ blocked' = [blocked EXCEPT ![a] = b]
    /\ at' = [at EXCEPT ![a] = 1]
    /\ UNCHANGED <<rtvars, chvars, lock, pc, acvars, history>>

(* The mutexes are taken one at a time, in the order of the cases.         *)
SelectLock(a) ==
    /\ Executes(a)
    /\ sel[a] \in {"lock", "relock"}
    /\ at[a] \in Indices(a)
    /\ lock[cases[a][at[a]].on] = None
    /\ lock' = [lock EXCEPT ![cases[a][at[a]].on] = a]
    /\ at' = [at EXCEPT ![a] = @ + 1]
    /\ sel' = [sel EXCEPT ![a] =
                   IF at[a] < Len(cases[a]) THEN @
                   ELSE IF @ = "lock" THEN "decide" ELSE "dereg"]
    /\ UNCHANGED <<rtvars, chvars, pc, acvars, left, history, cases, blocked>>

-----------------------------------------------------------------------------
(* All the mutexes are released, the select goes on at place.              *)
ReleaseAll(a) ==
    lock' = [c \in Chan |-> IF c \in ChannelsOf(a) THEN None ELSE lock[c]]

(* The first case that would not block is chosen.                          *)
Choose(a) ==
    /\ Executes(a)
    /\ sel[a] = "decide"
    /\ Ready(a) # {}
    /\ at' = [at EXCEPT ![a] = CHOOSE i \in Ready(a) : \A j \in Ready(a) : i <= j]
    /\ sel' = [sel EXCEPT ![a] = "chosen"]
    /\ ReleaseAll(a)
    /\ UNCHANGED <<rtvars, chvars, pc, acvars, left, history, cases, blocked>>

(* No case is ready and the select must not block: it returns NULL.        *)
SelectNone(a) ==
    /\ Executes(a)
    /\ sel[a] = "decide"
    /\ Ready(a) = {}
    /\ ~ blocked[a]
    /\ sel' = [sel EXCEPT ![a] = "none"]
    /\ ReleaseAll(a)
    /\ UNCHANGED <<rtvars, chvars, pc, acvars, left, history, cases, blocked, at>>

(* No case is ready: a waiter goes to the head of every channel's list, as *)
(* far as malloc provides one, and the coroutine is WAITING.               *)
WithWaiter(a, type, list, made) ==
    [c \in Chan |->
        IF \E i \in made : cases[a][i] = [on |-> c, type |-> type]
        THEN <<[co |-> a, kind |-> "select",
                ele |-> IF type = "push"
                        THEN [by |-> a, n |-> left[a] + 1, on |-> c] ELSE None]>>
             \o list[c]
        ELSE list[c]]

Register(a, made) ==
    /\ Executes(a)
    /\ sel[a] = "decide"
    /\ Ready(a) = {}
    /\ blocked[a]
    /\ made \subseteq Indices(a)
    /\ "fails" \in Mallocs \/ made = Indices(a)
    /\ w' = WithWaiter(a, "push", w, made)
    /\ r' = WithWaiter(a, "pop", r, made)
    /\ status' = [status EXCEPT ![a] = "WAITING"]
    /\ sel' = [sel EXCEPT ![a] = "parked"]
    /\ ReleaseAll(a)
    /\ UNCHANGED <<rq, yielded, async, loop, cur, queue, closed, pc, acvars, left,
                   history, cases, blocked, at>>

(* liteco_yield; when it is resumed it takes the mutexes again.            *)
SelectPark(a) ==
    /\ Executes(a)
    /\ sel[a] = "parked"
    /\ sel' = [sel EXCEPT ![a] = "relock"]
    /\ at' = [at EXCEPT ![a] = 1]
    /\ SwapOut(status[a])
    /\ UNCHANGED <<chvars, lock, pc, acvars, left, history, cases, blocked>>

(* liteco_chan_wdblock, liteco_chan_rdblock: every waiter of a leaves the  *)
(* list.  The code goes through the whole list; ListedOnce, an invariant   *)
(* of SelectProofs, says that there is one at most, and NoDanglingWaiter   *)
(* would not hold of another one left behind.                              *)
Without(list, a) ==
    LET Mine == {i \in 1..Len(list) : list[i].co = a}
        first == CHOOSE i \in Mine : TRUE
    IN  IF Mine = {} THEN list
        ELSE SubSeq(list, 1, first - 1) \o SubSeq(list, first + 1, Len(list))

(* Faulty variants of Deregister: every waiter removed instead of those of *)
(* the coroutine, the readers forgotten.                                   *)
DeregisterAll(a) ==
    /\ Executes(a)
    /\ sel[a] = "dereg"
    /\ w' = [c \in Chan |-> IF In(a, "push", c) THEN <<>> ELSE w[c]]
    /\ r' = [c \in Chan |-> IF In(a, "pop", c) THEN <<>> ELSE r[c]]
    /\ sel' = [sel EXCEPT ![a] = "decide"]
    /\ UNCHANGED <<rtvars, queue, closed, lock, pc, acvars, left, history,
                   cases, blocked, at>>

DeregisterWriters(a) ==
    /\ Executes(a)
    /\ sel[a] = "dereg"
    /\ w' = [c \in Chan |-> IF In(a, "push", c) THEN Without(w[c], a) ELSE w[c]]
    /\ sel' = [sel EXCEPT ![a] = "decide"]
    /\ UNCHANGED <<rtvars, queue, r, closed, lock, pc, acvars, left, history,
                   cases, blocked, at>>

(* On every channel of the cases, the waiters that nobody has taken go.    *)
Deregister(a) ==
    /\ Executes(a)
    /\ sel[a] = "dereg"
    /\ w' = [c \in Chan |-> IF In(a, "push", c) THEN Without(w[c], a) ELSE w[c]]
    /\ r' = [c \in Chan |-> IF In(a, "pop", c) THEN Without(r[c], a) ELSE r[c]]
    /\ sel' = [sel EXCEPT ![a] = "decide"]
    /\ UNCHANGED <<rtvars, queue, closed, lock, pc, acvars, left, history,
                   cases, blocked, at>>

-----------------------------------------------------------------------------
(* The call of the chosen case begins.  On a closed channel a push fails,  *)
(* and the select chooses again; a pop returns NULL, and the select ends.  *)
Try(a) ==
    LET i == at[a]
        c == cases[a][i].on
    IN  /\ Executes(a)
        /\ sel[a] = "chosen"
        /\ Begin(a, IF cases[a][i].type = "push" THEN "trypush" ELSE "trypop",
                 c, CaseElem(a, i))
        /\ sel' = [sel EXCEPT ![a] = IF c \notin closed THEN "try"
                                     ELSE IF cases[a][i].type = "push" THEN "lock"
                                     ELSE "none"]
        /\ at' = [at EXCEPT ![a] = IF c \in closed THEN 1 ELSE @]
        /\ UNCHANGED <<rtvars, chvars, lock, left, history, cases, blocked>>

(* Faulty variant of SelectActorStep: the result of the call is ignored.   *)
SelectActorStepAgain(a) ==
    /\ ActorStep(a)
    /\ IF sel[a] = "try" /\ pc'[a] = "user"
       THEN sel' = [sel EXCEPT ![a] = "lock"] /\ at' = [at EXCEPT ![a] = 1]
       ELSE UNCHANGED <<sel, at>>
    /\ UNCHANGED <<cases, blocked>>

(* A step of a call.  When it is the last one of a select's call, the      *)
(* select ends, or chooses again if the call gave up.                      *)
SelectActorStep(a) ==
    /\ ActorStep(a)
    /\ IF sel[a] = "try" /\ pc'[a] = "user"
       THEN /\ sel' = [sel EXCEPT ![a] = IF pc[a] = "refused" THEN "lock" ELSE "none"]
            /\ at' = [at EXCEPT ![a] = 1]
       ELSE UNCHANGED <<sel, at>>
    /\ UNCHANGED <<cases, blocked>>

SelectStep(a) ==
    \/ SelectLock(a)
    \/ Choose(a)
    \/ SelectNone(a)
    \/ \E made \in SUBSET Indices(a) : Register(a, made)
    \/ SelectPark(a)
    \/ Deregister(a)
    \/ Try(a)
    \/ SelectActorStep(a)

(* What an actor does outside select.                                      *)
Outside(a) == sel[a] = "none" /\ UNCHANGED selvars

SelectNext ==
    \/ LoopThread /\ UNCHANGED selvars
    \/ \E a \in Actor : SelectStep(a)
    \/ \E a \in Actor : \E cs \in SelectsOf[a], b \in BOOLEAN : Select(a, cs, b)
    \/ \E a \in Actor, o \in Op, c \in Chan : Call(a, o, c) /\ Outside(a)
    \/ \E a \in Co : (CoroutineStep(a) \/ Spawn(a) \/ Yield(a) \/ Terminate(a))
                     /\ Outside(a)
    \/ \E h \in Hdl : HandlerStep(h) /\ Outside(h)

(* As for Channel: a call or a select once begun goes on.                  *)
SelectFairness ==
    /\ WF_<<vars, selvars>>(LoopThread /\ UNCHANGED selvars)
    /\ SF_<<vars, selvars>>(Callback /\ LoopThread /\ UNCHANGED selvars)
    /\ \A a \in Actor : WF_<<vars, selvars>>(SelectStep(a))
    /\ \A a \in Co : WF_<<vars, selvars>>((CoroutineStep(a) \/ Terminate(a)) /\ Outside(a))
    /\ \A h \in Hdl : WF_<<vars, selvars>>(HandlerReturns(h) /\ HandlerStep(h) /\ Outside(h))

SelectSpec == SelectInit /\ [][SelectNext]_<<vars, selvars>> /\ SelectFairness

-----------------------------------------------------------------------------
(* Waiters of the lists do not outlive the call that made them, on whose   *)
(* stack their element or its place is: the coroutine of a plain waiter    *)
(* sleeps in the call, that of a select's waiter is inside the select and  *)
(* has the channel among its cases (lc_channel.c:246-284).                 *)
NoDanglingWaiter ==
    \A k \in Chan, c \in Co :
        /\ \A i \in 1..Len(w[k]) : w[k][i].co = c =>
               IF w[k][i].kind = "plain" THEN pc[c] \in {"parked", "asleep"} /\ ch[c] = k
               ELSE sel[c] \in {"parked", "relock", "dereg"} /\ In(c, "push", k)
        /\ \A i \in 1..Len(r[k]) : r[k][i].co = c =>
               IF r[k][i].kind = "plain" THEN pc[c] \in {"parked", "asleep"} /\ ch[c] = k
               ELSE sel[c] \in {"parked", "relock", "dereg"} /\ In(c, "pop", k)

(* A select carries out one case.  Of the elements its cases offer at most *)
(* one is in a channel, in a reader's hands or returned by a pop.          *)
OneCase ==
    \A d, e \in Elem : d.by = e.by /\ d.n = e.n /\ d # e =>
        Copies(d) = 0 \/ Copies(e) = 0
=============================================================================
