------------------------------ MODULE Channel ------------------------------
(***************************************************************************)
(* Channels (src/lc_channel.c): bounded buffers through which coroutines   *)
(* pass pointers, with a list of waiting writers and one of waiting        *)
(* readers.  Coroutines call them from the loop's thread, other callbacks  *)
(* of the loop and other threads through the calls that do not block.      *)
(*                                                                         *)
(* A channel's mutex is taken, and its critical section is cut where the   *)
(* caller touches something another mutex or an atomic guards: the status  *)
(* of the coroutine it wakes, and the runtime's queue.                     *)
(***************************************************************************)
EXTENDS Runtime, FiniteSets

CONSTANTS
    Chan,     \* channels
    Cap,      \* ele_cnt of each channel; 0 is a channel without a buffer
    Thr,      \* threads that are not the loop's
    CallsOf,  \* the calls each actor makes
    Budget    \* bound on the calls of one actor

Op == {"push", "trypush", "upush", "pop", "trypop", "close"}
Pushes == {"push", "trypush", "upush"}
Pops == {"pop", "trypop"}

ASSUME ChannelAssumption ==
    /\ Cap \in [Chan -> Nat]
    /\ None \notin Chan \cup Thr \cup Op
    /\ Thr \cap (Co \cup Hdl) = {}
    /\ Budget \in Nat

Actor == Co \cup Hdl \cup Thr

(* Only a coroutine can block.                                             *)
ASSUME CallsAssumption ==
    /\ CallsOf \in [Actor -> SUBSET Op]
    /\ \A a \in Actor \ Co : CallsOf[a] \cap {"push", "pop"} = {}

(* What is pushed: the n-th last call of an actor, on a channel.           *)
Elem == [by : Actor, n : 1..Budget, on : Chan]

ASSUME ElemAssumption == None \notin Elem

(* A waiter of a list.  co = None is liteco_ignore_awake_co: an element    *)
(* left behind by a push that must not block.  A reader has no element.    *)
Waiter == [co : Co \cup {None}, ele : Elem \cup {None},
           kind : {"plain", "select"}]

VARIABLES
    queue,     \* the buffer, oldest first
    w, r,      \* waiting writers and readers, the next to be served first
    closed,    \* the channels that are closed
    lock,      \* who holds each channel's mutex
    pc,        \* where each actor is
    op, ch,    \* its call and the channel of the call
    ele,       \* the element it pushes, or where a popped one is stored
    tgt,       \* the waiter it has taken out of a list and wakes
    left,      \* calls it may still make
    accepted,  \* history: elements whose push returned 0
    received   \* history: elements returned by a pop

chvars == <<queue, w, r, closed>>
acvars == <<op, ch, ele, tgt>>
history == <<accepted, received>>
vars == <<rtvars, chvars, lock, pc, acvars, left, history>>

(* "user" is the actor's own code; "lock" is before the mutex; "refused",  *)
(* "wake", "spin", "join" and "drain" hold it; a blocked coroutine is      *)
(* "parked" until it has switched contexts and "asleep" from then on.      *)
Holding == {"refused", "wake", "spin", "join", "drain"}
Pc == {"new", "user", "lock", "parked", "asleep", "dead"} \cup Holding

ChannelTypeOK ==
    /\ queue \in [Chan -> Seq(Elem)]
    /\ w \in [Chan -> Seq(Waiter)]
    /\ r \in [Chan -> Seq(Waiter)]
    /\ closed \in SUBSET Chan

CallTypeOK ==
    /\ lock \in [Chan -> Actor \cup {None}]
    /\ pc \in [Actor -> Pc]
    /\ op \in [Actor -> Op \cup {None}]
    /\ ch \in [Actor -> Chan \cup {None}]
    /\ ele \in [Actor -> Elem \cup {None}]
    /\ tgt \in [Actor -> Waiter \cup {None}]
    /\ left \in [Actor -> 0..Budget]

HistoryTypeOK ==
    /\ accepted \in SUBSET Elem
    /\ received \in SUBSET Elem

TypeOK == RuntimeTypeOK /\ ChannelTypeOK /\ CallTypeOK /\ HistoryTypeOK

Init ==
    /\ RuntimeInit
    /\ queue = [c \in Chan |-> <<>>]
    /\ w = [c \in Chan |-> <<>>]
    /\ r = [c \in Chan |-> <<>>]
    /\ closed = {}
    /\ lock = [c \in Chan |-> None]
    /\ pc = [a \in Actor |-> IF a \in Co THEN "new" ELSE "user"]
    /\ op = [a \in Actor |-> None]
    /\ ch = [a \in Actor |-> None]
    /\ ele = [a \in Actor |-> None]
    /\ tgt = [a \in Actor |-> None]
    /\ left = [a \in Actor |-> Budget]
    /\ accepted = {}
    /\ received = {}

(* The actor's code can execute: threads always, the rest one at a time.   *)
Executes(a) == a \in Thr \/ (loop = "run" /\ cur = a)

wblocked(c) == c \notin closed /\ r[c] = <<>> /\ Len(queue[c]) = Cap[c]
rblocked(c) == c \notin closed /\ w[c] = <<>> /\ queue[c] = <<>>

-----------------------------------------------------------------------------
(* Faulty variant of Return: the NULL a pop gets from a closed channel     *)
(* taken for an element.                                                   *)
ReturnNull(a, acc, rec) ==
    /\ pc' = [pc EXCEPT ![a] = "user"]
    /\ op' = [op EXCEPT ![a] = None]
    /\ ch' = [ch EXCEPT ![a] = None]
    /\ ele' = [ele EXCEPT ![a] = None]
    /\ tgt' = [tgt EXCEPT ![a] = None]
    /\ lock' = [lock EXCEPT ![ch[a]] = IF @ = a THEN None ELSE @]
    /\ accepted' = accepted \cup acc
    /\ received' = received \cup rec

(* The call returns to the actor's code, releasing the mutex if it has it. *)
Return(a, acc, rec) ==
    /\ pc' = [pc EXCEPT ![a] = "user"]
    /\ op' = [op EXCEPT ![a] = None]
    /\ ch' = [ch EXCEPT ![a] = None]
    /\ ele' = [ele EXCEPT ![a] = None]
    /\ tgt' = [tgt EXCEPT ![a] = None]
    /\ lock' = [lock EXCEPT ![ch[a]] = IF @ = a THEN None ELSE @]
    /\ accepted' = accepted \cup (acc \ {None})
    /\ received' = received \cup (rec \ {None})

(* The call goes on with the mutex held.                                   *)
HoldAt(a, place) ==
    /\ pc' = [pc EXCEPT ![a] = place]
    /\ lock' = [lock EXCEPT ![ch[a]] = a]

(* A call begins with a look at closed, before the mutex is taken.         *)
Begin(a, o, c, e) ==
    IF c \in closed
    THEN UNCHANGED <<pc, acvars>>
    ELSE /\ pc' = [pc EXCEPT ![a] = "lock"]
         /\ op' = [op EXCEPT ![a] = o]
         /\ ch' = [ch EXCEPT ![a] = c]
         /\ ele' = [ele EXCEPT ![a] = e]
         /\ UNCHANGED tgt

Call(a, o, c) ==
    /\ Executes(a)
    /\ pc[a] = "user"
    /\ left[a] > 0
    /\ o \in CallsOf[a]
    /\ left' = [left EXCEPT ![a] = @ - 1]
    /\ Begin(a, o, c,
             IF o \in Pushes THEN [by |-> a, n |-> left[a], on |-> c] ELSE None)
    /\ UNCHANGED <<rtvars, chvars, lock, history>>

(* The mutex is free, and the call of a is one of the given operations.    *)
Enters(a, ops) ==
    /\ Executes(a)
    /\ pc[a] = "lock"
    /\ op[a] \in ops
    /\ lock[ch[a]] = None

(* The channel was closed since the first look: chan_w and chan_r report   *)
(* success, so that a push returns 0 and a pop NULL.                       *)
EnterClosed(a) ==
    /\ Enters(a, Pushes \cup Pops)
    /\ ch[a] \in closed
    /\ Return(a, IF op[a] \in Pushes THEN {ele[a]} ELSE {}, {})
    /\ UNCHANGED <<rtvars, chvars, left>>

(* chan_w and chan_r refuse: the caller decides what to do.                *)
EnterRefused(a) ==
    /\ \/ Enters(a, Pushes) /\ wblocked(ch[a])
       \/ Enters(a, Pops) /\ rblocked(ch[a])
    /\ HoldAt(a, "refused")
    /\ UNCHANGED <<rtvars, chvars, acvars, left, history>>

(* Faulty variants of the actions below: a reader left in the list, its    *)
(* element not stored, the buffer preferred to a waiting reader, a writer  *)
(* left in the list, a writer not woken, the buffer's head left in place,  *)
(* an element not left with the writers, all readers removed for the one   *)
(* that is woken, readers forgotten by close.                              *)
PushToReaderKeeps(a) ==
    LET reader == Head(r[ch[a]])
    IN  /\ Enters(a, Pushes)
        /\ ch[a] \notin closed
        /\ r[ch[a]] # <<>>
        /\ ele' = IF reader.kind = "plain"
                  THEN [ele EXCEPT ![reader.co] = ele[a]] ELSE ele
        /\ tgt' = [tgt EXCEPT ![a] = reader]
        /\ HoldAt(a, "wake")
        /\ UNCHANGED <<rtvars, queue, w, r, closed, op, ch, left, history>>

PushToReaderNoStore(a) ==
    LET c == ch[a]
    IN  /\ Enters(a, Pushes)
        /\ c \notin closed
        /\ r[c] # <<>>
        /\ r' = [r EXCEPT ![c] = Tail(@)]
        /\ tgt' = [tgt EXCEPT ![a] = Head(r[c])]
        /\ HoldAt(a, "wake")
        /\ UNCHANGED <<rtvars, queue, w, closed, op, ch, ele, left, history>>

PushToQueueFirst(a) ==
    LET c == ch[a]
    IN  /\ Enters(a, Pushes)
        /\ c \notin closed
        /\ Len(queue[c]) < Cap[c]
        /\ queue' = [queue EXCEPT ![c] = Append(@, ele[a])]
        /\ Return(a, {ele[a]}, {})
        /\ UNCHANGED <<rtvars, w, r, closed, left>>

PopFromWriterNoWake(a) ==
    LET c == ch[a]
    IN  /\ Enters(a, Pops)
        /\ c \notin closed
        /\ w[c] # <<>>
        /\ w' = [w EXCEPT ![c] = Tail(@)]
        /\ Return(a, {}, {Head(w[c]).ele})
        /\ UNCHANGED <<rtvars, queue, r, closed, left>>

PopFromQueueKeeps(a) ==
    LET c == ch[a]
    IN  /\ Enters(a, Pops)
        /\ c \notin closed
        /\ w[c] = <<>>
        /\ queue[c] # <<>>
        /\ Return(a, {}, {Head(queue[c])})
        /\ UNCHANGED <<rtvars, chvars, left>>

LeaveElementNot(a, malloc) ==
    /\ Executes(a)
    /\ pc[a] = "refused"
    /\ op[a] = "upush"
    /\ Return(a, {ele[a]}, {})
    /\ UNCHANGED <<rtvars, chvars, left>>

DrainReaderAll(a) ==
    LET c == ch[a]
    IN  /\ Executes(a)
        /\ pc[a] = "drain"
        /\ w[c] = <<>>
        /\ r[c] # <<>>
        /\ r' = [r EXCEPT ![c] = <<>>]
        /\ tgt' = [tgt EXCEPT ![a] = Head(r[c])]
        /\ HoldAt(a, "wake")
        /\ UNCHANGED <<rtvars, queue, w, closed, op, ch, ele, left, history>>

DrainedWriters(a) ==
    /\ Executes(a)
    /\ pc[a] = "drain"
    /\ w[ch[a]] = <<>>
    /\ Return(a, {}, {})
    /\ UNCHANGED <<rtvars, chvars, left>>

(* liteco_chan_w: to the first waiting reader, else into the buffer.       *)
PushToReader(a) ==
    LET c == ch[a]
        reader == Head(r[c])
    IN  /\ Enters(a, Pushes)
        /\ c \notin closed
        /\ r[c] # <<>>
        /\ r' = [r EXCEPT ![c] = Tail(@)]
        /\ ele' = IF reader.kind = "plain"
                  THEN [ele EXCEPT ![reader.co] = ele[a]] ELSE ele
        /\ tgt' = [tgt EXCEPT ![a] = reader]
        /\ HoldAt(a, "wake")
        /\ UNCHANGED <<rtvars, queue, w, closed, op, ch, left, history>>

PushToQueue(a) ==
    LET c == ch[a]
    IN  /\ Enters(a, Pushes)
        /\ c \notin closed
        /\ r[c] = <<>>
        /\ Len(queue[c]) < Cap[c]
        /\ queue' = [queue EXCEPT ![c] = Append(@, ele[a])]
        /\ Return(a, {ele[a]}, {})
        /\ UNCHANGED <<rtvars, w, r, closed, left>>

(* liteco_chan_r: from the first waiting writer, else from the buffer.     *)
(* There is then no writer waiting, so the refill after it does nothing.   *)
PopFromWriter(a) ==
    LET c == ch[a]
        writer == Head(w[c])
    IN  /\ Enters(a, Pops)
        /\ c \notin closed
        /\ w[c] # <<>>
        /\ w' = [w EXCEPT ![c] = Tail(@)]
        /\ ele' = IF writer.kind = "plain"
                  THEN [ele EXCEPT ![a] = writer.ele] ELSE ele
        /\ tgt' = [tgt EXCEPT ![a] = writer]
        /\ HoldAt(a, "wake")
        /\ UNCHANGED <<rtvars, queue, r, closed, op, ch, left, history>>

PopFromQueue(a) ==
    LET c == ch[a]
    IN  /\ Enters(a, Pops)
        /\ c \notin closed
        /\ w[c] = <<>>
        /\ queue[c] # <<>>
        /\ queue' = [queue EXCEPT ![c] = Tail(@)]
        /\ Return(a, {}, {Head(queue[c])})
        /\ UNCHANGED <<rtvars, w, r, closed, left>>

-----------------------------------------------------------------------------
(* A refused call that must not block returns -2 or chan_pop_failed.       *)
GiveUp(a) ==
    /\ Executes(a)
    /\ pc[a] = "refused"
    /\ op[a] \in {"trypush", "trypop"}
    /\ Return(a, {}, {})
    /\ UNCHANGED <<rtvars, chvars, left>>

(* A refused unenforceable_push leaves its element with the writers; when  *)
(* malloc fails the element is dropped.  It returns 0 either way.          *)
LeaveElement(a, malloc) ==
    LET c == ch[a]
    IN  /\ Executes(a)
        /\ pc[a] = "refused"
        /\ op[a] = "upush"
        /\ w' = IF malloc = "ok"
                THEN [w EXCEPT ![c] =
                         <<[co |-> None, ele |-> ele[a], kind |-> "plain"]>> \o @]
                ELSE w
        /\ Return(a, {ele[a]}, {})
        /\ UNCHANGED <<rtvars, queue, r, closed, left>>

(* A refused call of a coroutine waits: wblock or rblock, WAITING, and the *)
(* mutex is released.  A failed malloc in wblock or rblock is not noticed. *)
Block(a, malloc) ==
    LET c == ch[a]
        waiter == [co |-> a, ele |-> ele[a], kind |-> "plain"]
    IN  /\ Executes(a)
        /\ pc[a] = "refused"
        /\ op[a] \in {"push", "pop"}
        /\ w' = IF op[a] = "push" /\ malloc = "ok"
                THEN [w EXCEPT ![c] = <<waiter>> \o @] ELSE w
        /\ r' = IF op[a] = "pop" /\ malloc = "ok"
                THEN [r EXCEPT ![c] = <<waiter>> \o @] ELSE r
        /\ status' = [status EXCEPT ![a] = "WAITING"]
        /\ lock' = [lock EXCEPT ![c] = None]
        /\ pc' = [pc EXCEPT ![a] = "parked"]
        /\ UNCHANGED <<rq, yielded, async, loop, cur, queue, closed, acvars,
                       left, history>>

(* liteco_yield of the blocked coroutine.                                  *)
Park(a) ==
    /\ Executes(a)
    /\ pc[a] = "parked"
    /\ pc' = [pc EXCEPT ![a] = "asleep"]
    /\ SwapOut(status[a])
    /\ UNCHANGED <<chvars, lock, acvars, left, history>>

(* Resumed, the coroutine takes the mutex again only to release it.        *)
Relock(a) ==
    /\ Executes(a)
    /\ pc[a] = "asleep"
    /\ lock[ch[a]] = None
    /\ IF op[a] = "push" THEN Return(a, {ele[a]}, {}) ELSE Return(a, {}, {ele[a]})
    /\ UNCHANGED <<rtvars, chvars, left>>

(* Faulty variant of Served: a waiter of a select taken for a plain one.   *)
ServedAnyKind(a) ==
    IF op[a] = "close"
    THEN HoldAt(a, "drain") /\ UNCHANGED <<acvars, history>>
    ELSE IF op[a] \in Pushes THEN Return(a, {ele[a]}, {})
    ELSE Return(a, {}, {ele[a]})

(* The waiter has been dealt with: close goes on draining, a call that met *)
(* a select has only told it to look again and is itself refused.          *)
Served(a) ==
    IF op[a] = "close"
    THEN HoldAt(a, "drain") /\ UNCHANGED <<acvars, history>>
    ELSE IF tgt[a].kind = "select"
    THEN HoldAt(a, "refused") /\ UNCHANGED <<acvars, history>>
    ELSE IF op[a] \in Pushes THEN Return(a, {ele[a]}, {})
    ELSE Return(a, {}, {ele[a]})

(* liteco_set_status(co, WAITING, READY) of liteco_chan_join_runtime: it   *)
(* returns at once if co is RUNNING, and else spins until co is WAITING.   *)
Wake(a) ==
    LET c == tgt[a].co
    IN  /\ Executes(a)
        /\ pc[a] \in {"wake", "spin"}
        /\ c # None
        /\ pc[a] = "spin" => status[c] = "WAITING"
        /\ status' = IF status[c] = "WAITING"
                     THEN [status EXCEPT ![c] = "READY"] ELSE status
        /\ HoldAt(a, IF status[c] \in {"WAITING", "RUNNING"} THEN "join" ELSE "spin")
        /\ UNCHANGED <<rq, yielded, async, loop, cur, chvars, acvars, left, history>>

(* liteco_ignore_awake_co: there is nobody to wake.                        *)
WakeNobody(a) ==
    /\ Executes(a)
    /\ pc[a] = "wake"
    /\ tgt[a].co = None
    /\ Served(a)
    /\ UNCHANGED <<rtvars, chvars, left>>

Join(a, malloc) ==
    /\ Executes(a)
    /\ pc[a] = "join"
    /\ JoinRuntime(tgt[a].co, malloc)
    /\ Served(a)
    /\ UNCHANGED <<status, yielded, loop, cur, chvars, left>>

-----------------------------------------------------------------------------
(* liteco_chan_close: marks the channel, then wakes every writer and every *)
(* reader.                                                                 *)
Close(a) ==
    /\ Enters(a, {"close"})
    /\ closed' = closed \cup {ch[a]}
    /\ HoldAt(a, "drain")
    /\ UNCHANGED <<rtvars, queue, w, r, acvars, left, history>>

DrainWriter(a) ==
    LET c == ch[a]
    IN  /\ Executes(a)
        /\ pc[a] = "drain"
        /\ w[c] # <<>>
        /\ w' = [w EXCEPT ![c] = Tail(@)]
        /\ tgt' = [tgt EXCEPT ![a] = Head(w[c])]
        /\ HoldAt(a, "wake")
        /\ UNCHANGED <<rtvars, queue, r, closed, op, ch, ele, left, history>>

DrainReader(a) ==
    LET c == ch[a]
    IN  /\ Executes(a)
        /\ pc[a] = "drain"
        /\ w[c] = <<>>
        /\ r[c] # <<>>
        /\ r' = [r EXCEPT ![c] = Tail(@)]
        /\ tgt' = [tgt EXCEPT ![a] = Head(r[c])]
        /\ HoldAt(a, "wake")
        /\ UNCHANGED <<rtvars, queue, w, closed, op, ch, ele, left, history>>

Drained(a) ==
    /\ Executes(a)
    /\ pc[a] = "drain"
    /\ w[ch[a]] = <<>>
    /\ r[ch[a]] = <<>>
    /\ Return(a, {}, {})
    /\ UNCHANGED <<rtvars, chvars, left>>

-----------------------------------------------------------------------------
(* The user's liteco_runtime_join of a new coroutine; its failure is seen. *)
Spawn(c) ==
    /\ pc[c] = "new"
    /\ pc' = [pc EXCEPT ![c] = "user"]
    /\ JoinRuntime(c, "ok")
    /\ UNCHANGED <<status, yielded, loop, cur, chvars, lock, acvars, left, history>>

(* A coroutine yields of its own accord.                                   *)
Yield(c) ==
    /\ Executes(c)
    /\ pc[c] = "user"
    /\ SwapOut(status[c])
    /\ UNCHANGED <<chvars, lock, pc, acvars, left, history>>

(* A coroutine's function returns: liteco_run ends it.                     *)
Terminate(c) ==
    /\ Executes(c)
    /\ pc[c] = "user"
    /\ pc' = [pc EXCEPT ![c] = "dead"]
    /\ SwapOut("TERMINATE")
    /\ UNCHANGED <<chvars, lock, acvars, left, history>>

HandlerStep(h) ==
    /\ HandlerEnters(h) \/ (HandlerReturns(h) /\ pc[h] = "user")
    /\ UNCHANGED <<chvars, lock, pc, acvars, left, history>>

LoopThread == LoopStep /\ UNCHANGED <<chvars, lock, pc, acvars, left, history>>

(* The steps of an actor inside a call.                                    *)
ActorStep(a) ==
    \/ EnterClosed(a)
    \/ EnterRefused(a)
    \/ PushToReader(a)
    \/ PushToQueue(a)
    \/ PopFromWriter(a)
    \/ PopFromQueue(a)
    \/ GiveUp(a)
    \/ Wake(a)
    \/ WakeNobody(a)
    \/ Close(a)
    \/ DrainWriter(a)
    \/ DrainReader(a)
    \/ Drained(a)
    \/ \E malloc \in Mallocs :
          \/ LeaveElement(a, malloc)
          \/ Join(a, malloc)

CoroutineStep(a) ==
    \/ Park(a)
    \/ Relock(a)
    \/ \E malloc \in Mallocs : Block(a, malloc)

Next ==
    \/ LoopThread
    \/ \E a \in Actor : ActorStep(a)
    \/ \E a \in Actor, o \in Op, c \in Chan : Call(a, o, c)
    \/ \E a \in Co : CoroutineStep(a) \/ Spawn(a) \/ Yield(a) \/ Terminate(a)
    \/ \E h \in Hdl : HandlerStep(h)

(* Threads run; a coroutine or callback in its own code leaves it sooner   *)
(* or later; epoll does not report other events for ever while it has the  *)
(* one of the runtime's handler.  Calls are never required.                *)
Fairness ==
    /\ WF_vars(LoopThread)
    /\ SF_vars(Callback /\ LoopThread)
    /\ \A a \in Actor : WF_vars(ActorStep(a))
    /\ \A a \in Co : WF_vars(CoroutineStep(a)) /\ WF_vars(Terminate(a))
    /\ \A h \in Hdl : WF_vars(HandlerReturns(h) /\ HandlerStep(h))

Spec == Init /\ [][Next]_vars /\ Fairness

-----------------------------------------------------------------------------
Registered(c) ==
    \E k \in Chan : \/ \E i \in 1..Len(w[k]) : w[k][i].co = c
                    \/ \E i \in 1..Len(r[k]) : r[k][i].co = c

WokenBy(a, c, places) == pc[a] \in places /\ tgt[a].co = c

CallbackRuns == loop # "poll" /\ cur \notin Hdl

(* Nobody waits in vain.  An open channel never has waiting readers beside *)
(* waiting writers or buffered elements, nor waiting writers beside room   *)
(* in the buffer; a closed channel whose mutex is free has no waiters      *)
(* (lc_channel.c:364-389, 423-462, 472-498 against each other).            *)
NoStrandedIn(c) ==
    IF c \in closed
    THEN lock[c] = None => w[c] = <<>> /\ r[c] = <<>>
    ELSE /\ r[c] # <<>> => w[c] = <<>> /\ queue[c] = <<>>
         /\ w[c] # <<>> => Len(queue[c]) = Cap[c]

NoStranded == \A c \in Chan : NoStrandedIn(c)

(* Whoever a caller takes out of a list to wake is WAITING, so that the    *)
(* caller never spins in liteco_set_status while it holds the mutex that   *)
(* the sleeper needs to get on (lc_channel.c:102-107).                     *)
WakesOnlyWaiting ==
    \A a \in Actor, c \in Co :
        /\ WokenBy(a, c, {"wake"}) => status[c] = "WAITING"
        /\ pc[a] # "spin"

(* No wakeup is lost: a coroutine that is WAITING is recorded with a       *)
(* channel, or a caller has just taken it out and is about to wake it      *)
(* (lc_channel.c:86-90, 192-196).                                          *)
SleepersRecorded ==
    \A c \in Co : status[c] = "WAITING" =>
        Registered(c) \/ \E a \in Actor : WokenBy(a, c, {"wake"})

(* No runnable coroutine is lost: it is on its way into the ready queue,   *)
(* being resumed, in the list of a callback that runs, or in the ready     *)
(* queue with a callback that runs or is due (lc_runtime.c:47-121).        *)
NoLostRunnable ==
    \A c \in Co :
        status[c] = "READY" \/ (status[c] = "STARTING" /\ pc[c] # "new") =>
            \/ \E a \in Actor : WokenBy(a, c, {"join"})
            \/ cur = c
            \/ InQueue(c, yielded) /\ CallbackRuns
            \/ InQueue(c, rq) /\ (CallbackRuns \/ async = "DONE")

(* What the callback resumes can be resumed: liteco_resume never spins on  *)
(* a coroutine that sleeps in a channel, which would stop the loop         *)
(* (lc_coroutine.c:77, lc_runtime.c:97-104).  True without other threads.  *)
OnlyRunnableQueued ==
    \A c \in Co :
        InQueue(c, rq) \/ InQueue(c, yielded) \/ (loop = "resume" /\ cur = c) =>
            status[c] \in {"STARTING", "READY"}

(* A coroutine that waits in a channel has given up the loop's thread, as  *)
(* lc_channel.c:192 has it, and the loop does not resume it, which would   *)
(* spin in liteco_set_status.                                              *)
WaitersNotResumed ==
    \A c \in Co : loop = "resume" /\ cur = c => status[c] # "WAITING"

(* The places where an element can be: buffered, with a waiting writer, in *)
(* the hands of a pop that has not returned, returned by a pop.            *)
Copies(e) ==
    LET c == e.on
    IN    Cardinality({i \in 1..Len(queue[c]) : queue[c][i] = e})
        + Cardinality({i \in 1..Len(w[c]) : w[c][i].kind = "plain" /\ w[c][i].ele = e})
        + Cardinality({a \in Actor : op[a] \in Pops /\ ele[a] = e})
        + Cardinality(received \cap {e})

(* Each element goes to at most one pop, whichever of the buffer, the      *)
(* waiting writer and the waiting reader it passes through.                *)
DeliveredOnce == \A e \in Elem : Copies(e) <= 1

(* An element whose push returned 0 is not lost while the channel is open. *)
NothingLost == \A e \in accepted : e.on \notin closed => Copies(e) = 1

(* Every runnable coroutine is run.                                        *)
ReadyRuns == \A c \in Co : status[c] = "READY" ~> status[c] = "RUNNING"

(* A coroutine that sleeps in a channel that is closed gets out of it.     *)
CloseReleases ==
    \A c \in Co, k \in Chan :
        pc[c] \in {"parked", "asleep"} /\ ch[c] = k /\ k \in closed ~> pc[c] = "user"
=============================================================================
