--------------------------- MODULE ChannelProofs ---------------------------
(***************************************************************************)
(* Proofs about Channel, for any coroutines, threads, callbacks, channels  *)
(* and capacities, and whatever malloc does.                               *)
(***************************************************************************)
EXTENDS Channel, TLAPS

(* What an actor's place says of its call.                                 *)
Call_OK(a) ==
    /\ pc[a] \in {"lock", "parked", "asleep"} \cup Holding =>
           op[a] \in Op /\ ch[a] \in Chan
    /\ op[a] \in Pushes => ele[a] \in Elem
    /\ op[a] \in {"push", "pop"} => a \in Co
    /\ pc[a] \in {"parked", "asleep"} => op[a] \in {"push", "pop"}
    /\ pc[a] = "refused" => op[a] \in Pushes \cup Pops
    /\ pc[a] = "drain" => op[a] = "close"
    /\ pc[a] \in {"wake", "spin", "join"} => tgt[a] \in Waiter
    /\ pc[a] \in {"spin", "join"} => tgt[a].co \in Co

CallsOK ==
    /\ \A a \in Actor : Call_OK(a)
    /\ loop \in {"resume", "resumed"} => cur \in Co

(* The mutexes and their holders.                                          *)
Mutex ==
    /\ \A a \in Actor : pc[a] \in Holding => lock[ch[a]] = a
    /\ \A c \in Chan : lock[c] # None =>
           pc[lock[c]] \in Holding /\ ch[lock[c]] = c

(* Without select, every waiter waits for an element or for room.          *)
PlainWaiters ==
    \A c \in Chan : /\ \A i \in 1..Len(w[c]) : w[c][i].kind = "plain"
                    /\ \A i \in 1..Len(r[c]) : r[c][i].kind = "plain"

PlainTargets ==
    \A a \in Actor : pc[a] \in {"wake", "spin", "join"} => tgt[a].kind = "plain"

(* A refusal still stands when the caller acts on it: the mutex is held.   *)
Refused_OK(a) ==
    /\ pc[a] = "refused" /\ op[a] \in Pushes => wblocked(ch[a])
    /\ pc[a] = "refused" /\ op[a] \in Pops => rblocked(ch[a])
    /\ pc[a] \in Holding => (ch[a] \in closed <=> op[a] = "close")

Refusals == \A a \in Actor : Refused_OK(a)

IInv ==
    TypeOK /\ CallsOK /\ Mutex /\ PlainWaiters /\ PlainTargets /\ Refusals /\ NoStranded

-----------------------------------------------------------------------------
LEMMA TypeInit == Init => TypeOK
  BY RuntimeAssumption, ChannelAssumption
     DEF Init, TypeOK, RuntimeInit, RuntimeTypeOK, ChannelTypeOK, CallTypeOK,
         HistoryTypeOK, Actor, Status, LoopPc, Pc

LEMMA ReturnTypes ==
    ASSUME TypeOK, NEW a \in Actor, left' = left,
           NEW acc \in SUBSET (Elem \cup {None}),
           NEW rec \in SUBSET (Elem \cup {None}), Return(a, acc, rec)
    PROVE  CallTypeOK' /\ HistoryTypeOK'
  BY DEF TypeOK, CallTypeOK, HistoryTypeOK, Return, Pc

LEMMA HoldTypes ==
    ASSUME TypeOK, NEW a \in Actor, NEW place \in Holding, HoldAt(a, place)
    PROVE  /\ lock' \in [Chan -> Actor \cup {None}]
           /\ pc' \in [Actor -> Pc]
  BY DEF TypeOK, CallTypeOK, HoldAt, Pc

LEMMA ServedTypes ==
    ASSUME TypeOK, NEW a \in Actor, left' = left, Served(a)
    PROVE  CallTypeOK' /\ HistoryTypeOK'
<1>1. CASE op[a] = "close"
  BY <1>1, HoldTypes
     DEF Served, TypeOK, CallTypeOK, HistoryTypeOK, Holding, acvars, history
<1>2. CASE op[a] # "close" /\ tgt[a].kind = "select"
  BY <1>2, HoldTypes
     DEF Served, TypeOK, CallTypeOK, HistoryTypeOK, Holding, acvars, history
<1>3. CASE op[a] # "close" /\ tgt[a].kind # "select"
  <2>1. ele[a] \in Elem \cup {None}
    BY DEF TypeOK, CallTypeOK
  <2> QED
    BY <1>3, <2>1, ReturnTypes DEF Served
<1> QED
  BY <1>1, <1>2, <1>3

(* The runtime's variables keep their types whoever joins, and when the    *)
(* callback pops a coroutine or puts one back.                             *)
LEMMA JoinRuntimeTypes ==
    ASSUME rq \in Seq(Co), async \in {"NO_PADDING", "DONE"},
           NEW c \in Co, NEW malloc, JoinRuntime(c, malloc)
    PROVE  rq' \in Seq(Co) /\ async' \in {"NO_PADDING", "DONE"}
<1>1. Append(rq, c) \in Seq(Co)
  OBVIOUS
<1> QED
  BY <1>1, Zenon DEF JoinRuntime

LEMMA PopTypes ==
    ASSUME RuntimeTypeOK, Pop
    PROVE  RuntimeTypeOK'
<1>1. CASE rq = <<>>
  BY <1>1 DEF Pop, RuntimeTypeOK, LoopPc
<1>2. CASE rq # <<>>
  <2>1. rq \in Seq(Co) /\ rq # <<>>
    BY <1>2 DEF RuntimeTypeOK
  <2>2. Head(rq) \in Co /\ Tail(rq) \in Seq(Co)
    BY <2>1
  <2>3. /\ loop' = "resume" /\ cur' = Head(rq) /\ rq' = Tail(rq)
        /\ UNCHANGED <<status, yielded, async>>
    BY <1>2 DEF Pop
  <2> QED
    BY <2>2, <2>3 DEF RuntimeTypeOK, LoopPc
<1> QED
  BY <1>1, <1>2

LEMMA FlushTypes ==
    ASSUME RuntimeTypeOK, FlushOne
    PROVE  RuntimeTypeOK'
<1>1. yielded \in Seq(Co) /\ yielded # <<>> /\ rq \in Seq(Co)
  BY DEF FlushOne, RuntimeTypeOK
<1>2. Head(yielded) \in Co /\ Tail(yielded) \in Seq(Co)
  BY <1>1
<1>3. Append(rq, Head(yielded)) \in Seq(Co)
  BY <1>1, <1>2
<1>4. rq' \in Seq(Co)
  BY <1>1, <1>3, Zenon DEF FlushOne
<1> QED
  BY <1>2, <1>4 DEF FlushOne, RuntimeTypeOK

LEMMA TypeStep == TypeOK /\ CallsOK /\ [Next]_vars => TypeOK'
<1> SUFFICES ASSUME TypeOK, CallsOK, [Next]_vars PROVE TypeOK'
  OBVIOUS
<1> USE DEF TypeOK, rtvars, chvars, acvars, history
<1>1. ASSUME NEW a \in Actor, EnterClosed(a) PROVE TypeOK'
  BY <1>1, ReturnTypes
     DEF EnterClosed, RuntimeTypeOK, ChannelTypeOK, CallTypeOK
<1>2. ASSUME NEW a \in Actor, EnterRefused(a) PROVE TypeOK'
  BY <1>2, HoldTypes
     DEF EnterRefused, RuntimeTypeOK, ChannelTypeOK, CallTypeOK, HistoryTypeOK,
         Holding
<1>3. ASSUME NEW a \in Actor, PushToReader(a) PROVE TypeOK'
  <2>1. r' \in [Chan -> Seq(Waiter)] /\ Head(r[ch[a]]) \in Waiter
    BY <1>3 DEF PushToReader, ChannelTypeOK, CallTypeOK, Enters, CallsOK, Call_OK
  <2>2. /\ ele' \in [Actor -> Elem \cup {None}]
        /\ tgt' \in [Actor -> Waiter \cup {None}]
    BY <1>3, <2>1 DEF PushToReader, CallTypeOK
  <2> QED
    BY <1>3, <2>1, <2>2, HoldTypes
       DEF PushToReader, RuntimeTypeOK, ChannelTypeOK, CallTypeOK, HistoryTypeOK,
           Holding
<1>4. ASSUME NEW a \in Actor, PushToQueue(a) PROVE TypeOK'
  <2>1. queue' \in [Chan -> Seq(Elem)] /\ ele[a] \in Elem
    BY <1>4 DEF PushToQueue, Enters, ChannelTypeOK, CallTypeOK, CallsOK, Call_OK
  <2> QED
    BY <1>4, <2>1, ReturnTypes
       DEF PushToQueue, RuntimeTypeOK, ChannelTypeOK, CallTypeOK
<1>5. ASSUME NEW a \in Actor, PopFromWriter(a) PROVE TypeOK'
  <2>1. w' \in [Chan -> Seq(Waiter)] /\ Head(w[ch[a]]) \in Waiter
    BY <1>5 DEF PopFromWriter, ChannelTypeOK, CallTypeOK, Enters, CallsOK, Call_OK
  <2>2. /\ ele' \in [Actor -> Elem \cup {None}]
        /\ tgt' \in [Actor -> Waiter \cup {None}]
    BY <1>5, <2>1 DEF PopFromWriter, CallTypeOK, Waiter
  <2> QED
    BY <1>5, <2>1, <2>2, HoldTypes
       DEF PopFromWriter, RuntimeTypeOK, ChannelTypeOK, CallTypeOK, HistoryTypeOK,
           Holding
<1>6. ASSUME NEW a \in Actor, PopFromQueue(a) PROVE TypeOK'
  <2>1. queue' \in [Chan -> Seq(Elem)] /\ Head(queue[ch[a]]) \in Elem
    BY <1>6 DEF PopFromQueue, Enters, ChannelTypeOK, CallTypeOK, CallsOK, Call_OK
  <2> QED
    BY <1>6, <2>1, ReturnTypes
       DEF PopFromQueue, RuntimeTypeOK, ChannelTypeOK, CallTypeOK
<1>7. ASSUME NEW a \in Actor, GiveUp(a) PROVE TypeOK'
  BY <1>7, ReturnTypes DEF GiveUp, RuntimeTypeOK, ChannelTypeOK
<1>8. ASSUME NEW a \in Actor, NEW malloc \in Mallocs, LeaveElement(a, malloc)
      PROVE  TypeOK'
  <2>1. ele[a] \in Elem /\ ch[a] \in Chan
    BY <1>8 DEF LeaveElement, CallsOK, Call_OK, Holding, Pushes
  <2>2. w' \in [Chan -> Seq(Waiter)]
    <3>1. [co |-> None, ele |-> ele[a], kind |-> "plain"] \in Waiter
      BY <2>1 DEF Waiter
    <3> QED
      BY <1>8, <2>1, <3>1 DEF LeaveElement, ChannelTypeOK
  <2> QED
    BY <1>8, <2>1, <2>2, ReturnTypes
       DEF LeaveElement, RuntimeTypeOK, ChannelTypeOK
<1>9. ASSUME NEW a \in Co, NEW malloc \in Mallocs, Block(a, malloc)
      PROVE  TypeOK'
  <2>1. a \in Actor /\ ch[a] \in Chan
    BY <1>9 DEF Block, Actor, CallsOK, Call_OK, Holding
  <2>2. w' \in [Chan -> Seq(Waiter)] /\ r' \in [Chan -> Seq(Waiter)]
    <3>1. [co |-> a, ele |-> ele[a], kind |-> "plain"] \in Waiter
      BY <2>1 DEF Waiter, CallTypeOK
    <3> QED
      BY <1>9, <2>1, <3>1 DEF Block, ChannelTypeOK
  <2>3. RuntimeTypeOK'
    BY <1>9 DEF Block, RuntimeTypeOK, Status
  <2>4. CallTypeOK'
    BY <1>9, <2>1 DEF Block, CallTypeOK, Pc
  <2> QED
    BY <1>9, <2>2, <2>3, <2>4 DEF Block, ChannelTypeOK, HistoryTypeOK
<1>10. ASSUME NEW a \in Co, Park(a) PROVE TypeOK'
  <2>1. a \in Actor
    BY DEF Actor
  <2>2. RuntimeTypeOK'
    BY <1>10 DEF Park, SwapOut, RuntimeTypeOK, Status, LoopPc
  <2> QED
    BY <1>10, <2>1, <2>2
       DEF Park, ChannelTypeOK, CallTypeOK, HistoryTypeOK, Pc
<1>11. ASSUME NEW a \in Co, Relock(a) PROVE TypeOK'
  <2>1. a \in Actor /\ ele[a] \in Elem \cup {None}
    BY DEF Actor, CallTypeOK
  <2> QED
    BY <1>11, <2>1, ReturnTypes DEF Relock, RuntimeTypeOK, ChannelTypeOK
<1>12. ASSUME NEW a \in Actor, Wake(a) PROVE TypeOK'
  <2>1. RuntimeTypeOK'
    BY <1>12 DEF Wake, RuntimeTypeOK, Status
  <2> QED
    BY <1>12, <2>1, HoldTypes
       DEF Wake, ChannelTypeOK, CallTypeOK, HistoryTypeOK, Holding
<1>13. ASSUME NEW a \in Actor, WakeNobody(a) PROVE TypeOK'
  BY <1>13, ServedTypes DEF WakeNobody, RuntimeTypeOK, ChannelTypeOK
<1>14. ASSUME NEW a \in Actor, NEW malloc \in Mallocs, Join(a, malloc)
      PROVE  TypeOK'
  <2>1. tgt[a].co \in Co
    BY <1>14 DEF Join, CallsOK, Call_OK
  <2>2. RuntimeTypeOK'
    <3>1. JoinRuntime(tgt[a].co, malloc) /\ UNCHANGED <<status, yielded, loop, cur>>
      BY <1>14 DEF Join
    <3>2. rq' \in Seq(Co) /\ async' \in {"NO_PADDING", "DONE"}
      BY <2>1, <3>1, JoinRuntimeTypes DEF RuntimeTypeOK
    <3> QED
      BY <3>1, <3>2 DEF RuntimeTypeOK
  <2> QED
    BY <1>14, <2>2, ServedTypes DEF Join, ChannelTypeOK
<1>15. ASSUME NEW a \in Actor, Close(a) PROVE TypeOK'
  BY <1>15, HoldTypes
     DEF Close, Enters, RuntimeTypeOK, ChannelTypeOK, CallTypeOK, HistoryTypeOK,
         Holding, CallsOK, Call_OK
<1>16. ASSUME NEW a \in Actor, DrainWriter(a) PROVE TypeOK'
  <2>1. ch[a] \in Chan
    BY <1>16 DEF DrainWriter, CallsOK, Call_OK, Holding
  <2>2. w' \in [Chan -> Seq(Waiter)] /\ Head(w[ch[a]]) \in Waiter
    BY <1>16, <2>1 DEF DrainWriter, ChannelTypeOK
  <2> QED
    BY <1>16, <2>2, HoldTypes
       DEF DrainWriter, RuntimeTypeOK, ChannelTypeOK, CallTypeOK, HistoryTypeOK,
           Holding
<1>17. ASSUME NEW a \in Actor, DrainReader(a) PROVE TypeOK'
  <2>1. ch[a] \in Chan
    BY <1>17 DEF DrainReader, CallsOK, Call_OK, Holding
  <2>2. r' \in [Chan -> Seq(Waiter)] /\ Head(r[ch[a]]) \in Waiter
    BY <1>17, <2>1 DEF DrainReader, ChannelTypeOK
  <2> QED
    BY <1>17, <2>2, HoldTypes
       DEF DrainReader, RuntimeTypeOK, ChannelTypeOK, CallTypeOK, HistoryTypeOK,
           Holding
<1>18. ASSUME NEW a \in Actor, Drained(a) PROVE TypeOK'
  BY <1>18, ReturnTypes DEF Drained, RuntimeTypeOK, ChannelTypeOK
<1>19. ASSUME NEW c \in Co, Spawn(c) PROVE TypeOK'
  <2>1. c \in Actor
    BY DEF Actor
  <2>2. RuntimeTypeOK'
    <3>1. JoinRuntime(c, "ok") /\ UNCHANGED <<status, yielded, loop, cur>>
      BY <1>19 DEF Spawn
    <3>2. rq' \in Seq(Co) /\ async' \in {"NO_PADDING", "DONE"}
      BY <3>1, JoinRuntimeTypes DEF RuntimeTypeOK
    <3> QED
      BY <3>1, <3>2 DEF RuntimeTypeOK
  <2> QED
    BY <1>19, <2>1, <2>2
       DEF Spawn, ChannelTypeOK, CallTypeOK, HistoryTypeOK, Pc
<1>20. ASSUME NEW c \in Co, Yield(c) \/ Terminate(c) PROVE TypeOK'
  <2>1. c \in Actor
    BY DEF Actor
  <2>2. RuntimeTypeOK'
    BY <1>20 DEF Yield, Terminate, SwapOut, RuntimeTypeOK, Status, LoopPc
  <2> QED
    BY <1>20, <2>1, <2>2
       DEF Yield, Terminate, ChannelTypeOK, CallTypeOK, HistoryTypeOK, Pc
<1>21. ASSUME NEW a \in Actor, NEW o \in Op, NEW c \in Chan, Call(a, o, c)
      PROVE  TypeOK'
  <2>1. left[a] \in 1..Budget
    BY <1>21, ChannelAssumption DEF Call, CallTypeOK
  <2>2. left' \in [Actor -> 0..Budget]
    BY <1>21, <2>1, ChannelAssumption DEF Call, CallTypeOK
  <2>3. [by |-> a, n |-> left[a], on |-> c] \in Elem
    BY <2>1 DEF Elem
  <2>4. RuntimeTypeOK' /\ ChannelTypeOK' /\ HistoryTypeOK'
    BY <1>21 DEF Call, Begin, RuntimeTypeOK, ChannelTypeOK, HistoryTypeOK
  <2>5. /\ pc' \in [Actor -> Pc] /\ lock' = lock /\ tgt' = tgt
        /\ op' \in [Actor -> Op \cup {None}]
    BY <1>21 DEF Call, Begin, CallTypeOK, Pc
  <2>6. ch' \in [Actor -> Chan \cup {None}] /\ ele' \in [Actor -> Elem \cup {None}]
    BY <1>21, <2>3 DEF Call, Begin, CallTypeOK
  <2> QED
    BY <2>2, <2>4, <2>5, <2>6 DEF CallTypeOK
<1>22. ASSUME NEW h \in Hdl, HandlerStep(h) PROVE TypeOK'
  BY <1>22 DEF HandlerStep, HandlerEnters, HandlerReturns, RuntimeTypeOK, LoopPc,
               ChannelTypeOK, CallTypeOK, HistoryTypeOK
<1>23. CASE LoopThread
  <2>1. RuntimeTypeOK'
    <3> USE DEF RuntimeTypeOK, LoopPc, Status
    <3>1. CASE Callback \/ FlushEnd
      BY <3>1 DEF Callback, FlushEnd
    <3>2. CASE Pop
      BY <3>2, PopTypes
    <3>3. CASE Resume \/ ResumeTerminated
      BY <3>3 DEF Resume, ResumeTerminated
    <3>4. CASE Resumed
      BY <3>4 DEF Resumed, CallsOK
    <3>5. CASE FlushOne
      BY <3>5, FlushTypes
    <3> QED
      BY <1>23, <3>1, <3>2, <3>3, <3>4, <3>5 DEF LoopThread, LoopStep
  <2> QED
    BY <1>23, <2>1 DEF LoopThread, ChannelTypeOK, CallTypeOK, HistoryTypeOK
<1>24. CASE UNCHANGED vars
  BY <1>24 DEF vars, RuntimeTypeOK, ChannelTypeOK, CallTypeOK, HistoryTypeOK
<1> QED
  BY <1>1, <1>2, <1>3, <1>4, <1>5, <1>6, <1>7, <1>8, <1>9, <1>10, <1>11, <1>12,
     <1>13, <1>14, <1>15, <1>16, <1>17, <1>18, <1>19, <1>20, <1>21, <1>22, <1>23,
     <1>24
     DEF Next, ActorStep, CoroutineStep

-----------------------------------------------------------------------------
(* The calls of actors other than the one that moves.                      *)
LEMMA OtherCalls ==
    ASSUME NEW b \in Actor, Call_OK(b),
           pc'[b] = pc[b], op'[b] = op[b], ch'[b] = ch[b], tgt'[b] = tgt[b],
           ele'[b] = ele[b] \/ ele'[b] \in Elem
    PROVE  Call_OK(b)'
  BY DEF Call_OK

LEMMA ReturnCalls ==
    ASSUME TypeOK, CallsOK, NEW a \in Actor, NEW acc, NEW rec, Return(a, acc, rec)
    PROVE  \A b \in Actor : Call_OK(b)'
<1> SUFFICES ASSUME NEW b \in Actor PROVE Call_OK(b)'
  OBVIOUS
<1>1. CASE b = a
  <2>1. pc'[a] = "user" /\ op'[a] = None
    BY DEF Return, TypeOK, CallTypeOK
  <2>2. None \notin Pushes \cup {"push", "pop"}
    BY ChannelAssumption DEF Pushes, Op
  <2> QED
    BY <1>1, <2>1, <2>2 DEF Call_OK, Holding
<1>2. CASE b # a
  BY <1>2, OtherCalls DEF Return, CallsOK, TypeOK, CallTypeOK
<1> QED
  BY <1>1, <1>2

LEMMA HoldCalls ==
    ASSUME TypeOK, CallsOK, NEW a \in Actor, NEW place, HoldAt(a, place),
           op' = op, ch' = ch,
           \A b \in Actor : ele'[b] = ele[b] \/ ele'[b] \in Elem,
           \A b \in Actor \ {a} : tgt'[b] = tgt[b],
           pc[a] \in {"lock"} \cup Holding,
           place = "refused" => op[a] \in Pushes \cup Pops,
           place = "drain" => op[a] = "close",
           place \in {"wake", "spin", "join"} => tgt'[a] \in Waiter,
           place \in {"spin", "join"} => tgt'[a].co \in Co,
           place \in Holding
    PROVE  \A b \in Actor : Call_OK(b)'
<1> SUFFICES ASSUME NEW b \in Actor PROVE Call_OK(b)'
  OBVIOUS
<1>1. CASE b = a
  <2>1. pc'[a] = place
    BY DEF HoldAt, TypeOK, CallTypeOK
  <2>2. Call_OK(a)
    BY DEF CallsOK
  <2> QED
    BY <1>1, <2>1, <2>2 DEF Call_OK, Holding
<1>2. CASE b # a
  BY <1>2, OtherCalls DEF HoldAt, CallsOK, TypeOK, CallTypeOK
<1> QED
  BY <1>1, <1>2

LEMMA ServedCalls ==
    ASSUME TypeOK, CallsOK, NEW a \in Actor, Served(a),
           pc[a] \in {"wake", "join"}
    PROVE  \A b \in Actor : Call_OK(b)'
<1>1. CASE op[a] = "close"
  BY <1>1, HoldCalls DEF Served, acvars, Holding
<1>2. CASE op[a] # "close" /\ tgt[a].kind = "select"
  <2>1. op[a] \in Pushes \cup Pops
    BY <1>2 DEF CallsOK, Call_OK, Holding, Op, Pushes, Pops
  <2> QED
    BY <1>2, <2>1, HoldCalls DEF Served, acvars, Holding
<1>3. CASE op[a] # "close" /\ tgt[a].kind # "select"
  BY <1>3, ReturnCalls DEF Served
<1> QED
  BY <1>1, <1>2, <1>3

(* What an actor's place says of its call holds after every step, also     *)
(* when some of the waiters are a select's.                                *)
LEMMA CallsStep == TypeOK /\ CallsOK /\ [Next]_vars => CallsOK'
<1> SUFFICES ASSUME TypeOK, CallsOK, [Next]_vars PROVE CallsOK'
  OBVIOUS
<1>0. ASSUME \A b \in Actor : Call_OK(b)', UNCHANGED <<loop, cur>>
      PROVE  CallsOK'
  BY <1>0 DEF CallsOK
<1> USE DEF rtvars, chvars, acvars, history
<1>1. ASSUME NEW a \in Actor, EnterClosed(a) PROVE CallsOK'
  BY <1>0, <1>1, ReturnCalls DEF EnterClosed
<1>2. ASSUME NEW a \in Actor, EnterRefused(a) PROVE CallsOK'
  BY <1>0, <1>2, HoldCalls DEF EnterRefused, Enters, Holding
<1>3. ASSUME NEW a \in Actor, PushToReader(a) PROVE CallsOK'
  <2>1. ch[a] \in Chan /\ ele[a] \in Elem
    BY <1>3 DEF PushToReader, Enters, CallsOK, Call_OK
  <2>2. Head(r[ch[a]]) \in Waiter
    <3>1. r[ch[a]] \in Seq(Waiter) /\ r[ch[a]] # <<>>
      BY <1>3, <2>1 DEF PushToReader, TypeOK, ChannelTypeOK
    <3>2. Head(r[ch[a]]) = r[ch[a]][1] /\ 1 \in 1..Len(r[ch[a]])
      BY <3>1
    <3> QED
      BY <3>1, <3>2
  <2>3. tgt' = [tgt EXCEPT ![a] = Head(r[ch[a]])]
    BY <1>3 DEF PushToReader
  <2>4. \A b \in Actor : ele'[b] = ele[b] \/ ele'[b] \in Elem
    BY <1>3, <2>1 DEF PushToReader, TypeOK, CallTypeOK
  <2> QED
    BY <1>0, <1>3, <2>2, <2>3, <2>4, HoldCalls
       DEF PushToReader, Enters, Holding, TypeOK, CallTypeOK
<1>4. ASSUME NEW a \in Actor, PushToQueue(a) PROVE CallsOK'
  BY <1>0, <1>4, ReturnCalls DEF PushToQueue
<1>5. ASSUME NEW a \in Actor, PopFromWriter(a) PROVE CallsOK'
  <2>1. ch[a] \in Chan
    BY <1>5 DEF PopFromWriter, Enters, CallsOK, Call_OK
  <2>2. Head(w[ch[a]]) \in Waiter
    <3>1. w[ch[a]] \in Seq(Waiter) /\ w[ch[a]] # <<>>
      BY <1>5, <2>1 DEF PopFromWriter, TypeOK, ChannelTypeOK
    <3>2. Head(w[ch[a]]) = w[ch[a]][1] /\ 1 \in 1..Len(w[ch[a]])
      BY <3>1
    <3> QED
      BY <3>1, <3>2
  <2>3. /\ tgt' = [tgt EXCEPT ![a] = Head(w[ch[a]])]
        /\ \E e : ele' = [ele EXCEPT ![a] = e]
    <3>1. ele' = ele => ele' = [ele EXCEPT ![a] = ele[a]]
      BY DEF TypeOK, CallTypeOK
    <3> QED
      BY <1>5, <3>1 DEF PopFromWriter
  <2>4. op[a] \notin Pushes
    BY <1>5 DEF PopFromWriter, Enters, Pops, Pushes
  <2>5. Call_OK(a)'
    <3>1. pc'[a] = "wake" /\ op'[a] = op[a] /\ ch'[a] = ch[a] /\ tgt'[a] \in Waiter
      BY <1>5, <2>2, <2>3 DEF PopFromWriter, HoldAt, TypeOK, CallTypeOK
    <3>2. Call_OK(a) /\ pc[a] = "lock"
      BY <1>5 DEF PopFromWriter, Enters, CallsOK
    <3> QED
      BY <2>4, <3>1, <3>2 DEF Call_OK, Holding
  <2>6. ASSUME NEW b \in Actor, b # a PROVE Call_OK(b)'
    BY <1>5, <2>3, <2>6, OtherCalls
       DEF PopFromWriter, HoldAt, CallsOK, TypeOK, CallTypeOK
  <2> QED
    BY <1>0, <1>5, <2>5, <2>6 DEF PopFromWriter
<1>6. ASSUME NEW a \in Actor, PopFromQueue(a) PROVE CallsOK'
  BY <1>0, <1>6, ReturnCalls DEF PopFromQueue
<1>7. ASSUME NEW a \in Actor, GiveUp(a) PROVE CallsOK'
  BY <1>0, <1>7, ReturnCalls DEF GiveUp
<1>8. ASSUME NEW a \in Actor, NEW malloc \in Mallocs, LeaveElement(a, malloc)
      PROVE  CallsOK'
  BY <1>0, <1>8, ReturnCalls DEF LeaveElement
<1>9. ASSUME NEW a \in Co, NEW malloc \in Mallocs, Block(a, malloc)
      PROVE  CallsOK'
  <2>1. a \in Actor
    BY DEF Actor
  <2>2. Call_OK(a)'
    <3>1. /\ pc'[a] = "parked" /\ op[a] \in {"push", "pop"} /\ pc[a] = "refused"
          /\ UNCHANGED <<op, ch, ele, tgt>>
      BY <1>9, <2>1 DEF Block, TypeOK, CallTypeOK
    <3> QED
      BY <2>1, <3>1 DEF CallsOK, Call_OK, Holding
  <2>3. ASSUME NEW b \in Actor, b # a PROVE Call_OK(b)'
    BY <1>9, <2>3, OtherCalls DEF Block, CallsOK, TypeOK, CallTypeOK
  <2> QED
    BY <1>0, <1>9, <2>2, <2>3 DEF Block
<1>10. ASSUME NEW a \in Co, Park(a) PROVE CallsOK'
  <2>1. a \in Actor /\ cur = a /\ cur' = a
    BY <1>10, ChannelAssumption DEF Actor, Park, Executes, SwapOut
  <2>2. Call_OK(a)'
    <3>1. /\ pc'[a] = "asleep" /\ pc[a] = "parked" /\ UNCHANGED <<op, ch, ele, tgt>>
      BY <1>10, <2>1 DEF Park, TypeOK, CallTypeOK
    <3> QED
      BY <2>1, <3>1 DEF CallsOK, Call_OK, Holding
  <2>3. ASSUME NEW b \in Actor, b # a PROVE Call_OK(b)'
    BY <1>10, <2>3, OtherCalls DEF Park, CallsOK, TypeOK, CallTypeOK
  <2> QED
    BY <2>1, <2>2, <2>3 DEF CallsOK
<1>11. ASSUME NEW a \in Co, Relock(a) PROVE CallsOK'
  <2>1. a \in Actor
    BY DEF Actor
  <2> QED
    BY <1>0, <1>11, <2>1, ReturnCalls DEF Relock
<1>12. ASSUME NEW a \in Actor, Wake(a) PROVE CallsOK'
  <2>1. /\ tgt[a] \in Waiter /\ tgt[a].co # None
        /\ pc[a] \in Holding
    BY <1>12 DEF Wake, CallsOK, Call_OK, Holding
  <2>2. tgt[a].co \in Co
    BY <2>1 DEF Waiter
  <2> QED
    BY <1>0, <1>12, <2>1, <2>2, HoldCalls DEF Wake, Holding
<1>13. ASSUME NEW a \in Actor, WakeNobody(a) PROVE CallsOK'
  BY <1>0, <1>13, ServedCalls DEF WakeNobody
<1>14. ASSUME NEW a \in Actor, NEW malloc \in Mallocs, Join(a, malloc)
      PROVE  CallsOK'
  BY <1>0, <1>14, ServedCalls DEF Join
<1>15. ASSUME NEW a \in Actor, Close(a) PROVE CallsOK'
  BY <1>0, <1>15, HoldCalls DEF Close, Enters, Holding
<1>16. ASSUME NEW a \in Actor, DrainWriter(a) PROVE CallsOK'
  <2>1. ch[a] \in Chan
    BY <1>16 DEF DrainWriter, CallsOK, Call_OK, Holding
  <2>2. w[ch[a]] \in Seq(Waiter) /\ w[ch[a]] # <<>>
    BY <1>16, <2>1 DEF DrainWriter, TypeOK, ChannelTypeOK
  <2>3. Head(w[ch[a]]) = w[ch[a]][1] /\ 1 \in 1..Len(w[ch[a]])
    BY <2>2
  <2>4. Head(w[ch[a]]) \in Waiter
    BY <2>2, <2>3
  <2> QED
    BY <1>0, <1>16, <2>4, HoldCalls DEF DrainWriter, Holding, TypeOK, CallTypeOK
<1>17. ASSUME NEW a \in Actor, DrainReader(a) PROVE CallsOK'
  <2>1. ch[a] \in Chan
    BY <1>17 DEF DrainReader, CallsOK, Call_OK, Holding
  <2>2. r[ch[a]] \in Seq(Waiter) /\ r[ch[a]] # <<>>
    BY <1>17, <2>1 DEF DrainReader, TypeOK, ChannelTypeOK
  <2>3. Head(r[ch[a]]) = r[ch[a]][1] /\ 1 \in 1..Len(r[ch[a]])
    BY <2>2
  <2>4. Head(r[ch[a]]) \in Waiter
    BY <2>2, <2>3
  <2> QED
    BY <1>0, <1>17, <2>4, HoldCalls DEF DrainReader, Holding, TypeOK, CallTypeOK
<1>18. ASSUME NEW a \in Actor, Drained(a) PROVE CallsOK'
  BY <1>0, <1>18, ReturnCalls DEF Drained
<1>19. ASSUME NEW c \in Co, Spawn(c) PROVE CallsOK'
  <2>1. c \in Actor /\ pc' = [pc EXCEPT ![c] = "user"] /\ pc[c] = "new"
    BY <1>19 DEF Spawn, Actor
  <2>2. Call_OK(c)'
    BY <1>19, <2>1 DEF Spawn, CallsOK, Call_OK, Holding, TypeOK, CallTypeOK
  <2>3. ASSUME NEW b \in Actor, b # c PROVE Call_OK(b)'
    BY <1>19, <2>1, <2>3, OtherCalls DEF Spawn, CallsOK, TypeOK, CallTypeOK
  <2> QED
    BY <1>0, <1>19, <2>2, <2>3 DEF Spawn
<1>20. ASSUME NEW c \in Co, Yield(c) \/ Terminate(c) PROVE CallsOK'
  <2>1. c \in Actor /\ cur = c /\ cur' = c
    BY <1>20, ChannelAssumption DEF Actor, Yield, Terminate, Executes, SwapOut
  <2>2. Call_OK(c)'
    <3>1. /\ pc[c] = "user" /\ pc'[c] \in {"user", "dead"}
          /\ UNCHANGED <<op, ch, ele, tgt>>
      BY <1>20, <2>1 DEF Yield, Terminate, TypeOK, CallTypeOK
    <3> QED
      BY <2>1, <3>1 DEF CallsOK, Call_OK, Holding
  <2>3. ASSUME NEW b \in Actor, b # c PROVE Call_OK(b)'
    BY <1>20, <2>3, OtherCalls DEF Yield, Terminate, CallsOK, TypeOK, CallTypeOK
  <2> QED
    BY <2>1, <2>2, <2>3 DEF CallsOK
<1>21. ASSUME NEW a \in Actor, NEW o \in Op, NEW c \in Chan, Call(a, o, c)
      PROVE  CallsOK'
  <2>1. CASE c \in closed
    <3>1. UNCHANGED <<pc, op, ch, ele, tgt, loop, cur>>
      BY <1>21, <2>1 DEF Call, Begin
    <3> QED
      BY <3>1 DEF CallsOK, Call_OK
  <2>2. CASE c \notin closed
    <3>1. /\ pc'[a] = "lock" /\ op'[a] = o /\ ch'[a] = c /\ pc[a] = "user"
          /\ ele'[a] = IF o \in Pushes THEN [by |-> a, n |-> left[a], on |-> c]
                                       ELSE None
      BY <1>21, <2>2 DEF Call, Begin, TypeOK, CallTypeOK
    <3>2. left[a] \in 1..Budget
      BY <1>21, ChannelAssumption DEF Call, TypeOK, CallTypeOK
    <3>3. o \in Pushes => ele'[a] \in Elem
      BY <3>1, <3>2 DEF Elem
    <3>4. o \in {"push", "pop"} => a \in Co
      BY <1>21, CallsAssumption DEF Call
    <3>5. Call_OK(a)'
      BY <3>1, <3>3, <3>4 DEF Call_OK, Holding
    <3>6. ASSUME NEW b \in Actor, b # a PROVE Call_OK(b)'
      BY <1>21, <2>2, <3>6, OtherCalls
         DEF Call, Begin, CallsOK, TypeOK, CallTypeOK
    <3> QED
      BY <1>0, <1>21, <3>5, <3>6 DEF Call
  <2> QED
    BY <2>1, <2>2
<1>22. ASSUME NEW h \in Hdl, HandlerStep(h) PROVE CallsOK'
  <2>1. loop' \in {"run", "poll"} /\ UNCHANGED <<pc, op, ch, ele, tgt>>
    BY <1>22 DEF HandlerStep, HandlerEnters, HandlerReturns
  <2> QED
    BY <2>1 DEF CallsOK, Call_OK
<1>23. CASE LoopThread
  <2>1. UNCHANGED <<pc, op, ch, ele, tgt>>
    BY <1>23 DEF LoopThread
  <2>2. loop' \in {"resume", "resumed"} => cur' \in Co
    BY <1>23 DEF LoopThread, LoopStep, Callback, Pop, Resume, ResumeTerminated,
                 Resumed, FlushOne, FlushEnd, TypeOK, RuntimeTypeOK
  <2> QED
    BY <2>1, <2>2 DEF CallsOK, Call_OK
<1>24. CASE UNCHANGED vars
  BY <1>24 DEF vars, CallsOK, Call_OK
<1> QED
  BY <1>1, <1>2, <1>3, <1>4, <1>5, <1>6, <1>7, <1>8, <1>9, <1>10, <1>11, <1>12,
     <1>13, <1>14, <1>15, <1>16, <1>17, <1>18, <1>19, <1>20, <1>21, <1>22, <1>23,
     <1>24
     DEF Next, ActorStep, CoroutineStep

-----------------------------------------------------------------------------
(* A mutex is held exactly while its holder is inside a critical section.  *)
LEMMA ActorNotNone == None \notin Actor
  BY RuntimeAssumption, ChannelAssumption DEF Actor

LEMMA MutexReturn ==
    ASSUME TypeOK, Mutex, NEW a \in Actor, ch[a] \in Chan,
           NEW acc, NEW rec, Return(a, acc, rec)
    PROVE  Mutex'
<1>1. /\ pc' = [pc EXCEPT ![a] = "user"]
      /\ ch' = [ch EXCEPT ![a] = None]
      /\ lock' = [lock EXCEPT ![ch[a]] = IF @ = a THEN None ELSE @]
  BY DEF Return
<1>2. ASSUME NEW b \in Actor, pc'[b] \in Holding PROVE lock'[ch'[b]] = b
  <2>1. b # a
    BY <1>1, <1>2 DEF TypeOK, CallTypeOK, Holding
  <2>2. lock[ch[b]] = b /\ ch'[b] = ch[b]
    BY <1>1, <1>2, <2>1 DEF TypeOK, CallTypeOK, Mutex
  <2> QED
    BY <1>1, <2>1, <2>2 DEF TypeOK, CallTypeOK
<1>3. ASSUME NEW c \in Chan, lock'[c] # None
      PROVE  pc'[lock'[c]] \in Holding /\ ch'[lock'[c]] = c
  <2>1. lock[c] # None /\ lock'[c] = lock[c]
    BY <1>1, <1>3 DEF TypeOK, CallTypeOK
  <2>2. pc[lock[c]] \in Holding /\ ch[lock[c]] = c
    BY <2>1 DEF Mutex
  <2>3. lock[c] # a
    BY <1>1, <1>3, <2>1, <2>2 DEF TypeOK, CallTypeOK
  <2> QED
    BY <1>1, <2>1, <2>2, <2>3 DEF TypeOK, CallTypeOK
<1> QED
  BY <1>2, <1>3 DEF Mutex

LEMMA MutexHold ==
    ASSUME TypeOK, Mutex, NEW a \in Actor, ch[a] \in Chan, ch' = ch,
           lock[ch[a]] = None \/ pc[a] \in Holding,
           NEW place \in Holding, HoldAt(a, place)
    PROVE  Mutex'
<1>1. /\ pc' = [pc EXCEPT ![a] = place]
      /\ lock' = [lock EXCEPT ![ch[a]] = a]
  BY DEF HoldAt
<1>2. ASSUME NEW b \in Actor, pc'[b] \in Holding PROVE lock'[ch'[b]] = b
  <2>1. CASE b = a
    BY <1>1, <2>1 DEF TypeOK, CallTypeOK
  <2>2. CASE b # a
    <3>1. lock[ch[b]] = b
      BY <1>1, <1>2, <2>2 DEF TypeOK, CallTypeOK, Mutex
    <3>2. ch[b] # ch[a]
      BY <2>2, <3>1, ActorNotNone DEF Mutex
    <3> QED
      BY <1>1, <3>1, <3>2 DEF TypeOK, CallTypeOK
  <2> QED
    BY <2>1, <2>2
<1>3. ASSUME NEW c \in Chan, lock'[c] # None
      PROVE  pc'[lock'[c]] \in Holding /\ ch'[lock'[c]] = c
  <2>1. CASE c = ch[a]
    BY <1>1, <2>1 DEF TypeOK, CallTypeOK
  <2>2. CASE c # ch[a]
    <3>1. /\ lock'[c] = lock[c] /\ lock[c] \in Actor
          /\ pc[lock[c]] \in Holding /\ ch[lock[c]] = c
      BY <1>1, <1>3, <2>2 DEF TypeOK, CallTypeOK, Mutex
    <3> QED
      BY <1>1, <2>2, <3>1 DEF TypeOK, CallTypeOK
  <2> QED
    BY <2>1, <2>2
<1> QED
  BY <1>2, <1>3 DEF Mutex

LEMMA MutexOutside ==
    ASSUME TypeOK, Mutex, NEW a \in Actor, NEW place \in Pc \ Holding,
           pc' = [pc EXCEPT ![a] = place], pc[a] \notin Holding, lock' = lock,
           \A b \in Actor \ {a} : ch'[b] = ch[b]
    PROVE  Mutex'
<1>1. ASSUME NEW b \in Actor, pc'[b] \in Holding PROVE lock'[ch'[b]] = b
  BY <1>1 DEF TypeOK, CallTypeOK, Mutex
<1>2. ASSUME NEW c \in Chan, lock'[c] # None
      PROVE  pc'[lock'[c]] \in Holding /\ ch'[lock'[c]] = c
  BY <1>2 DEF TypeOK, CallTypeOK, Mutex
<1> QED
  BY <1>1, <1>2 DEF Mutex

LEMMA MutexServed ==
    ASSUME TypeOK, CallsOK, Mutex, NEW a \in Actor, Served(a),
           pc[a] \in {"wake", "join"}
    PROVE  Mutex'
<1>1. ch[a] \in Chan
  BY DEF CallsOK, Call_OK, Holding
<1>2. CASE op[a] = "close" \/ tgt[a].kind = "select"
  BY <1>1, <1>2, MutexHold DEF Served, acvars, Holding
<1>3. CASE op[a] # "close" /\ tgt[a].kind # "select"
  BY <1>1, <1>3, MutexReturn DEF Served
<1> QED
  BY <1>2, <1>3

LEMMA MutexStep == TypeOK /\ CallsOK /\ Mutex /\ [Next]_vars => Mutex'
<1> SUFFICES ASSUME TypeOK, CallsOK, Mutex, [Next]_vars PROVE Mutex'
  OBVIOUS
<1> USE DEF rtvars, chvars, acvars, history
<1>0. ASSUME NEW a \in Actor, pc[a] \in Pc \ {"new", "user", "dead"}
      PROVE  ch[a] \in Chan
  BY <1>0 DEF Pc, CallsOK, Call_OK
<1>1. ASSUME NEW a \in Actor,
             EnterClosed(a) \/ PushToQueue(a) \/ PopFromQueue(a) \/ GiveUp(a)
             \/ Drained(a) \/ \E malloc \in Mallocs : LeaveElement(a, malloc)
      PROVE  Mutex'
  <2>1. ch[a] \in Chan
    BY <1>0, <1>1 DEF EnterClosed, PushToQueue, PopFromQueue, GiveUp, Drained,
                      LeaveElement, Enters, Pc, Holding
  <2> QED
    BY <1>1, <2>1, MutexReturn
       DEF EnterClosed, PushToQueue, PopFromQueue, GiveUp, Drained, LeaveElement
<1>2. ASSUME NEW a \in Actor, EnterRefused(a) \/ PushToReader(a)
                              \/ PopFromWriter(a) \/ Close(a)
      PROVE  Mutex'
  <2>1. ch[a] \in Chan /\ lock[ch[a]] = None /\ ch' = ch
    BY <1>0, <1>2 DEF EnterRefused, PushToReader, PopFromWriter, Close, Enters,
                      Pc, Holding
  <2> QED
    BY <1>2, <2>1, MutexHold
       DEF EnterRefused, PushToReader, PopFromWriter, Close, Holding
<1>3. ASSUME NEW a \in Actor, Wake(a) \/ DrainWriter(a) \/ DrainReader(a)
      PROVE  Mutex'
  <2>1. ch[a] \in Chan /\ pc[a] \in Holding /\ ch' = ch
    BY <1>0, <1>3 DEF Wake, DrainWriter, DrainReader, Pc, Holding
  <2> QED
    BY <1>3, <2>1, MutexHold DEF Wake, DrainWriter, DrainReader, Holding
<1>4. ASSUME NEW a \in Actor,
             WakeNobody(a) \/ \E malloc \in Mallocs : Join(a, malloc)
      PROVE  Mutex'
  BY <1>4, MutexServed DEF WakeNobody, Join
<1>5. ASSUME NEW a \in Co, NEW malloc \in Mallocs, Block(a, malloc)
      PROVE  Mutex'
  <2>1. /\ a \in Actor /\ ch[a] \in Chan /\ lock[ch[a]] = a /\ ch' = ch
        /\ pc' = [pc EXCEPT ![a] = "parked"]
        /\ lock' = [lock EXCEPT ![ch[a]] = None]
    BY <1>0, <1>5 DEF Block, Actor, Pc, Holding, Mutex
  <2>2. ASSUME NEW b \in Actor, pc'[b] \in Holding PROVE lock'[ch'[b]] = b
    <3>1. b # a /\ lock[ch[b]] = b /\ ch[b] # ch[a]
      BY <2>1, <2>2 DEF TypeOK, CallTypeOK, Mutex, Holding
    <3> QED
      BY <2>1, <3>1 DEF TypeOK, CallTypeOK
  <2>3. ASSUME NEW c \in Chan, lock'[c] # None
        PROVE  pc'[lock'[c]] \in Holding /\ ch'[lock'[c]] = c
    <3>1. c # ch[a] /\ lock'[c] = lock[c] /\ ch[lock[c]] = c
          /\ pc[lock[c]] \in Holding
      BY <2>1, <2>3 DEF TypeOK, CallTypeOK, Mutex
    <3> QED
      BY <2>1, <3>1 DEF TypeOK, CallTypeOK
  <2> QED
    BY <2>2, <2>3 DEF Mutex
<1>6. ASSUME NEW a \in Co, Park(a) \/ Spawn(a) \/ Terminate(a) PROVE Mutex'
  BY <1>6, MutexOutside
     DEF Park, Spawn, Terminate, Actor, Pc, Holding
<1>7. ASSUME NEW a \in Co, Relock(a) PROVE Mutex'
  <2>1. a \in Actor /\ ch[a] \in Chan
    BY <1>0, <1>7 DEF Relock, Actor, Pc
  <2> QED
    BY <1>7, <2>1, MutexReturn DEF Relock
<1>8. ASSUME NEW a \in Actor, NEW o \in Op, NEW c \in Chan, Call(a, o, c)
      PROVE  Mutex'
  <2>1. CASE c \in closed
    BY <1>8, <2>1 DEF Call, Begin, Mutex
  <2>2. CASE c \notin closed
    BY <1>8, <2>2, MutexOutside
       DEF Call, Begin, Pc, Holding, TypeOK, CallTypeOK
  <2> QED
    BY <2>1, <2>2
<1>9. ASSUME UNCHANGED <<lock, pc, ch>> PROVE Mutex'
  BY <1>9 DEF Mutex
<1>10. ASSUME NEW c \in Co, Yield(c) PROVE Mutex'
  BY <1>9, <1>10 DEF Yield
<1>11. ASSUME NEW h \in Hdl, HandlerStep(h) PROVE Mutex'
  BY <1>9, <1>11 DEF HandlerStep
<1>12. CASE LoopThread
  BY <1>9, <1>12 DEF LoopThread
<1>13. CASE UNCHANGED vars
  BY <1>9, <1>13 DEF vars
<1> QED
  BY <1>1, <1>2, <1>3, <1>4, <1>5, <1>6, <1>7, <1>8, <1>10, <1>11, <1>12, <1>13
     DEF Next, ActorStep, CoroutineStep

-----------------------------------------------------------------------------
(* Lists of plain waiters stay so.                                         *)
LEMMA PlainTail ==
    ASSUME NEW s \in Seq(Waiter), s # <<>>,
           \A i \in 1..Len(s) : s[i].kind = "plain"
    PROVE  \A i \in 1..Len(Tail(s)) : Tail(s)[i].kind = "plain"
  OBVIOUS

LEMMA PlainPush ==
    ASSUME NEW s \in Seq(Waiter), \A i \in 1..Len(s) : s[i].kind = "plain",
           NEW x \in Waiter, x.kind = "plain"
    PROVE  \A i \in 1..Len(<<x>> \o s) : (<<x>> \o s)[i].kind = "plain"
  OBVIOUS

LEMMA PlainStep == TypeOK /\ CallsOK /\ PlainWaiters /\ [Next]_vars => PlainWaiters'
<1> SUFFICES ASSUME TypeOK, CallsOK, PlainWaiters, [Next]_vars PROVE PlainWaiters'
  OBVIOUS
<1> USE DEF rtvars, chvars, acvars, history
<1>0. ASSUME UNCHANGED <<w, r>> PROVE PlainWaiters'
  BY <1>0 DEF PlainWaiters
<1>t. \A c \in Chan : w[c] \in Seq(Waiter) /\ r[c] \in Seq(Waiter)
  BY DEF TypeOK, ChannelTypeOK
<1>1. ASSUME NEW a \in Actor, PushToReader(a) \/ DrainReader(a)
      PROVE  PlainWaiters'
  <2>1. ch[a] \in Chan /\ r[ch[a]] # <<>> /\ w' = w
        /\ r' = [r EXCEPT ![ch[a]] = Tail(@)]
    BY <1>1 DEF PushToReader, DrainReader, Enters, CallsOK, Call_OK, Holding
  <2>2. \A i \in 1..Len(Tail(r[ch[a]])) : Tail(r[ch[a]])[i].kind = "plain"
    BY <1>t, <2>1, PlainTail DEF PlainWaiters
  <2> QED
    BY <2>1, <2>2 DEF PlainWaiters, TypeOK, ChannelTypeOK
<1>2. ASSUME NEW a \in Actor, PopFromWriter(a) \/ DrainWriter(a)
      PROVE  PlainWaiters'
  <2>1. ch[a] \in Chan /\ w[ch[a]] # <<>> /\ r' = r
        /\ w' = [w EXCEPT ![ch[a]] = Tail(@)]
    BY <1>2 DEF PopFromWriter, DrainWriter, Enters, CallsOK, Call_OK, Holding
  <2>2. \A i \in 1..Len(Tail(w[ch[a]])) : Tail(w[ch[a]])[i].kind = "plain"
    BY <1>t, <2>1, PlainTail DEF PlainWaiters
  <2> QED
    BY <2>1, <2>2 DEF PlainWaiters, TypeOK, ChannelTypeOK
<1>3. ASSUME NEW a \in Actor, NEW malloc \in Mallocs, LeaveElement(a, malloc)
      PROVE  PlainWaiters'
  <2> DEFINE x == [co |-> None, ele |-> ele[a], kind |-> "plain"]
  <2>1. ch[a] \in Chan /\ x \in Waiter /\ x.kind = "plain"
    BY <1>3 DEF LeaveElement, CallsOK, Call_OK, Holding, Pushes, Waiter
  <2>2. \A i \in 1..Len(<<x>> \o w[ch[a]]) : (<<x>> \o w[ch[a]])[i].kind = "plain"
    BY <1>t, <2>1, PlainPush DEF PlainWaiters
  <2>3. /\ r' = r
        /\ w' = w \/ w' = [w EXCEPT ![ch[a]] = <<x>> \o @]
    BY <1>3 DEF LeaveElement
  <2>4. CASE w' = w
    BY <1>0, <2>3, <2>4
  <2>5. CASE w' = [w EXCEPT ![ch[a]] = <<x>> \o @]
    <3> HIDE DEF x
    <3> DEFINE plain(s) == \A i \in 1..Len(s) : s[i].kind = "plain"
    <3>1. \A c \in Chan : w'[c] = IF c = ch[a] THEN <<x>> \o w[c] ELSE w[c]
      BY <2>5 DEF TypeOK, ChannelTypeOK
    <3>2. \A c \in Chan : plain(w[c]) /\ plain(r'[c])
      BY <2>3 DEF PlainWaiters
    <3>3. plain(<<x>> \o w[ch[a]])
      BY <2>2
    <3> HIDE DEF plain
    <3>4. \A c \in Chan : plain(w'[c])
      BY <3>1, <3>2, <3>3
    <3> QED
      BY <3>2, <3>4 DEF PlainWaiters, plain
  <2> QED
    BY <2>3, <2>4, <2>5
<1>4. ASSUME NEW a \in Co, NEW malloc \in Mallocs, Block(a, malloc)
      PROVE  PlainWaiters'
  <2> DEFINE x == [co |-> a, ele |-> ele[a], kind |-> "plain"]
  <2>1. ch[a] \in Chan /\ x \in Waiter /\ x.kind = "plain"
    BY <1>4 DEF Block, Actor, CallsOK, Call_OK, Holding, Waiter, TypeOK, CallTypeOK
  <2>2. /\ \A i \in 1..Len(<<x>> \o w[ch[a]]) :
               (<<x>> \o w[ch[a]])[i].kind = "plain"
        /\ \A i \in 1..Len(<<x>> \o r[ch[a]]) :
               (<<x>> \o r[ch[a]])[i].kind = "plain"
    BY <1>t, <2>1, PlainPush DEF PlainWaiters
  <2>3. /\ w' = w \/ w' = [w EXCEPT ![ch[a]] = <<x>> \o @]
        /\ r' = r \/ r' = [r EXCEPT ![ch[a]] = <<x>> \o @]
    BY <1>4 DEF Block
  <2>4. ASSUME NEW c \in Chan PROVE \A i \in 1..Len(w'[c]) : w'[c][i].kind = "plain"
    <3>1. w'[c] = w[c] \/ (c = ch[a] /\ w'[c] = <<x>> \o w[c])
      BY <2>1, <2>3 DEF TypeOK, ChannelTypeOK
    <3>2. \A i \in 1..Len(w[c]) : w[c][i].kind = "plain"
      BY DEF PlainWaiters
    <3> HIDE DEF x
    <3> QED
      BY <2>2, <3>1, <3>2
  <2>5. ASSUME NEW c \in Chan PROVE \A i \in 1..Len(r'[c]) : r'[c][i].kind = "plain"
    <3>1. r'[c] = r[c] \/ (c = ch[a] /\ r'[c] = <<x>> \o r[c])
      BY <2>1, <2>3 DEF TypeOK, ChannelTypeOK
    <3>2. \A i \in 1..Len(r[c]) : r[c][i].kind = "plain"
      BY DEF PlainWaiters
    <3> HIDE DEF x
    <3> QED
      BY <2>2, <3>1, <3>2
  <2> QED
    BY <2>4, <2>5 DEF PlainWaiters
<1>5. ASSUME NEW a \in Actor,
             \/ EnterClosed(a) \/ EnterRefused(a) \/ PushToQueue(a)
             \/ PopFromQueue(a) \/ GiveUp(a) \/ Wake(a) \/ WakeNobody(a)
             \/ Close(a) \/ Drained(a) \/ \E malloc \in Mallocs : Join(a, malloc)
             \/ \E o \in Op, c \in Chan : Call(a, o, c)
      PROVE  PlainWaiters'
  BY <1>0, <1>5 DEF EnterClosed, EnterRefused, PushToQueue, PopFromQueue, GiveUp,
                    Wake, WakeNobody, Close, Drained, Join, Call
<1>6. ASSUME NEW c \in Co, \/ Park(c) \/ Relock(c) \/ Spawn(c)
                           \/ Yield(c) \/ Terminate(c)
      PROVE  PlainWaiters'
  BY <1>0, <1>6 DEF Park, Relock, Spawn, Yield, Terminate
<1>7. ASSUME LoopThread \/ UNCHANGED vars \/ \E h \in Hdl : HandlerStep(h)
      PROVE  PlainWaiters'
  BY <1>0, <1>7 DEF LoopThread, vars, HandlerStep
<1> QED
  BY <1>1, <1>2, <1>3, <1>4, <1>5, <1>6, <1>7 DEF Next, ActorStep, CoroutineStep

(* So are the waiters that are taken out of them.                          *)
LEMMA PlainTargetsStep ==
    TypeOK /\ CallsOK /\ PlainWaiters /\ PlainTargets /\ [Next]_vars => PlainTargets'
<1> SUFFICES ASSUME TypeOK, CallsOK, PlainWaiters, PlainTargets, [Next]_vars
             PROVE  PlainTargets'
  OBVIOUS
<1> USE DEF rtvars, chvars, acvars, history
<1> DEFINE Wakes == {"wake", "spin", "join"}
<1>0. ASSUME NEW a \in Actor, \A b \in Actor \ {a} : pc'[b] = pc[b] /\ tgt'[b] = tgt[b],
             pc'[a] \in Wakes =>
                 tgt'[a].kind = "plain" \/ (pc[a] \in Wakes /\ tgt'[a] = tgt[a])
      PROVE  PlainTargets'
  BY <1>0 DEF PlainTargets
<1>1. ASSUME NEW a \in Actor, PushToReader(a) \/ DrainReader(a) PROVE PlainTargets'
  <2>1. PICK k \in Chan : k = ch[a] /\ r[k] # <<>> /\ tgt' = [tgt EXCEPT ![a] = Head(r[k])]
                         /\ pc' = [pc EXCEPT ![a] = "wake"]
    BY <1>1 DEF PushToReader, DrainReader, Enters, HoldAt, CallsOK, Call_OK, Holding
  <2>2. Head(r[k]).kind = "plain"
    <3>1. r[k] \in Seq(Waiter)
      BY DEF TypeOK, ChannelTypeOK
    <3>2. Head(r[k]) = r[k][1] /\ 1 \in 1..Len(r[k])
      BY <2>1, <3>1
    <3> QED
      BY <3>2 DEF PlainWaiters
  <2>3. tgt'[a].kind = "plain" /\ \A b \in Actor \ {a} : pc'[b] = pc[b] /\ tgt'[b] = tgt[b]
    BY <2>1, <2>2 DEF TypeOK, CallTypeOK
  <2> QED
    BY <2>3 DEF PlainTargets
<1>2. ASSUME NEW a \in Actor, PopFromWriter(a) \/ DrainWriter(a) PROVE PlainTargets'
  <2>1. PICK k \in Chan : k = ch[a] /\ w[k] # <<>> /\ tgt' = [tgt EXCEPT ![a] = Head(w[k])]
                         /\ pc' = [pc EXCEPT ![a] = "wake"]
    BY <1>2 DEF PopFromWriter, DrainWriter, Enters, HoldAt, CallsOK, Call_OK, Holding
  <2>2. Head(w[k]).kind = "plain"
    <3>1. w[k] \in Seq(Waiter)
      BY DEF TypeOK, ChannelTypeOK
    <3>2. Head(w[k]) = w[k][1] /\ 1 \in 1..Len(w[k])
      BY <2>1, <3>1
    <3> QED
      BY <3>2 DEF PlainWaiters
  <2>3. tgt'[a].kind = "plain" /\ \A b \in Actor \ {a} : pc'[b] = pc[b] /\ tgt'[b] = tgt[b]
    BY <2>1, <2>2 DEF TypeOK, CallTypeOK
  <2> QED
    BY <2>3 DEF PlainTargets
<1>3. ASSUME NEW a \in Actor,
             \/ EnterClosed(a) \/ PushToQueue(a) \/ PopFromQueue(a) \/ GiveUp(a)
             \/ Drained(a) \/ Relock(a) \/ \E malloc \in Mallocs : LeaveElement(a, malloc)
      PROVE  PlainTargets'
  <2>1. \E acc, rec : Return(a, acc, rec)
    BY <1>3 DEF EnterClosed, PushToQueue, PopFromQueue, GiveUp, Drained, Relock,
                LeaveElement
  <2> QED
    BY <1>0, <2>1 DEF Return, TypeOK, CallTypeOK
<1>4. ASSUME NEW a \in Actor, EnterRefused(a) \/ Close(a) \/ Wake(a)
      PROVE  PlainTargets'
  BY <1>0, <1>4 DEF EnterRefused, Close, Wake, HoldAt, TypeOK, CallTypeOK
<1>5. ASSUME NEW a \in Actor, WakeNobody(a) \/ \E malloc \in Mallocs : Join(a, malloc)
      PROVE  PlainTargets'
  BY <1>0, <1>5 DEF WakeNobody, Join, Served, HoldAt, Return, TypeOK, CallTypeOK
<1>6. ASSUME NEW a \in Co, \/ Park(a) \/ Spawn(a) \/ Yield(a) \/ Terminate(a)
                          \/ \E malloc \in Mallocs : Block(a, malloc)
      PROVE  PlainTargets'
  BY <1>0, <1>6 DEF Park, Spawn, Yield, Terminate, Block, Actor, TypeOK, CallTypeOK
<1>7. ASSUME NEW a \in Actor, NEW o \in Op, NEW c \in Chan, Call(a, o, c)
      PROVE  PlainTargets'
  BY <1>0, <1>7 DEF Call, Begin, TypeOK, CallTypeOK
<1>8. ASSUME LoopThread \/ UNCHANGED vars \/ \E h \in Hdl : HandlerStep(h)
      PROVE  PlainTargets'
  BY <1>8 DEF LoopThread, vars, HandlerStep, PlainTargets
<1> QED
  BY <1>1, <1>2, <1>3, <1>4, <1>5, <1>6, <1>7, <1>8
     DEF Next, ActorStep, CoroutineStep, Actor

-----------------------------------------------------------------------------
(* What one actor does to a channel whose mutex it takes or has does not   *)
(* reach an actor inside the critical section of another.                  *)
LEMMA Elsewhere ==
    ASSUME CallsOK, Mutex, NEW a \in Actor, NEW b \in Actor, a # b,
           pc[b] \in Holding, lock[ch[a]] = None \/ pc[a] \in Holding
    PROVE  ch[b] \in Chan /\ ch[b] # ch[a]
  BY ActorNotNone DEF CallsOK, Call_OK, Mutex

LEMMA RefusalKept ==
    ASSUME NEW b \in Actor, Refused_OK(b),
           pc'[b] = pc[b], op'[b] = op[b], ch'[b] = ch[b],
           pc[b] \in Holding =>
               /\ w'[ch[b]] = w[ch[b]] /\ r'[ch[b]] = r[ch[b]]
               /\ queue'[ch[b]] = queue[ch[b]]
               /\ ch[b] \in closed' <=> ch[b] \in closed
    PROVE  Refused_OK(b)'
  BY DEF Refused_OK, wblocked, rblocked, Holding

LEMMA RefusalOutside ==
    ASSUME NEW b \in Actor, pc'[b] \notin Holding PROVE Refused_OK(b)'
  BY DEF Refused_OK, Holding

LEMMA ReturnRefusals ==
    ASSUME TypeOK, NEW a \in Actor, NEW acc, NEW rec, Return(a, acc, rec)
    PROVE  /\ Refused_OK(a)'
           /\ \A b \in Actor \ {a} :
                 pc'[b] = pc[b] /\ op'[b] = op[b] /\ ch'[b] = ch[b]
<1>1. pc'[a] = "user"
  BY DEF Return, TypeOK, CallTypeOK
<1>2. Refused_OK(a)'
  BY <1>1, RefusalOutside DEF Holding
<1> QED
  BY <1>2 DEF Return, TypeOK, CallTypeOK

LEMMA ServedRefusals ==
    ASSUME TypeOK, PlainTargets, NEW a \in Actor, Refused_OK(a), closed' = closed,
           Served(a), pc[a] \in {"wake", "join"}
    PROVE  /\ Refused_OK(a)'
           /\ \A b \in Actor \ {a} :
                 pc'[b] = pc[b] /\ op'[b] = op[b] /\ ch'[b] = ch[b]
<1>1. tgt[a].kind # "select"
  BY DEF PlainTargets
<1>2. CASE op[a] = "close"
  <2>1. pc' = [pc EXCEPT ![a] = "drain"] /\ op' = op /\ ch' = ch
    BY <1>2 DEF Served, HoldAt, acvars
  <2> QED
    BY <1>2, <2>1 DEF Refused_OK, Holding, TypeOK, CallTypeOK
<1>3. CASE op[a] # "close"
  BY <1>1, <1>3, ReturnRefusals DEF Served
<1> QED
  BY <1>2, <1>3

(* A refusal still stands when the caller acts on it.                      *)
LEMMA RefusalsStep ==
    TypeOK /\ CallsOK /\ Mutex /\ PlainTargets /\ Refusals /\ [Next]_vars => Refusals'
<1> SUFFICES ASSUME TypeOK, CallsOK, Mutex, PlainTargets, Refusals, [Next]_vars
             PROVE  Refusals'
  OBVIOUS
<1> USE DEF rtvars, chvars, acvars, history
<1> DEFINE Stays(b) == pc'[b] = pc[b] /\ op'[b] = op[b] /\ ch'[b] = ch[b]
<1>0. ASSUME NEW a \in Actor, Refused_OK(a)',
             \A b \in Actor \ {a} : Stays(b), UNCHANGED chvars
      PROVE  Refusals'
  <2>1. ASSUME NEW b \in Actor, b # a PROVE Refused_OK(b)'
    BY <1>0, <2>1, RefusalKept DEF Refusals
  <2> QED
    BY <1>0, <2>1 DEF Refusals
<1>1. ASSUME NEW a \in Actor, Refused_OK(a)', ch[a] \in Chan,
             \A b \in Actor \ {a} : Stays(b),
             lock[ch[a]] = None \/ pc[a] \in Holding,
             \A c \in Chan \ {ch[a]} :
                 /\ w'[c] = w[c] /\ r'[c] = r[c] /\ queue'[c] = queue[c]
                 /\ c \in closed' <=> c \in closed
      PROVE  Refusals'
  <2>1. ASSUME NEW b \in Actor, b # a PROVE Refused_OK(b)'
    <3>1. Stays(b) /\ Refused_OK(b)
      BY <1>1, <2>1 DEF Refusals
    <3>2. pc[b] \in Holding => ch[b] \in Chan \ {ch[a]}
      BY <1>1, <2>1, Elsewhere
    <3> QED
      BY <1>1, <3>1, <3>2, RefusalKept
  <2> QED
    BY <1>1, <2>1 DEF Refusals
<1>2. ASSUME NEW a \in Actor, EnterClosed(a) \/ GiveUp(a) \/ Drained(a)
      PROVE  Refusals'
  BY <1>0, <1>2, ReturnRefusals DEF EnterClosed, GiveUp, Drained
<1>3. ASSUME NEW a \in Actor, EnterRefused(a) PROVE Refusals'
  <2>1. /\ op' = op /\ ch' = ch /\ pc' = [pc EXCEPT ![a] = "refused"]
        /\ UNCHANGED chvars /\ op[a] \in Pushes \cup Pops
        /\ \/ op[a] \in Pushes /\ wblocked(ch[a])
           \/ op[a] \in Pops /\ rblocked(ch[a])
    BY <1>3 DEF EnterRefused, Enters, HoldAt
  <2>2. Refused_OK(a)'
    BY <2>1 DEF Refused_OK, wblocked, rblocked, Pushes, Pops, TypeOK, CallTypeOK
  <2> QED
    BY <1>0, <2>1, <2>2 DEF TypeOK, CallTypeOK
<1>4. ASSUME NEW a \in Actor, PushToReader(a) \/ PopFromWriter(a) \/ Close(a)
                              \/ DrainWriter(a) \/ DrainReader(a)
      PROVE  Refusals'
  <2>1. /\ ch[a] \in Chan /\ op' = op /\ ch' = ch
        /\ lock[ch[a]] = None \/ pc[a] \in Holding
        /\ pc' = [pc EXCEPT ![a] = IF op[a] = "close" /\ pc[a] = "lock"
                                   THEN "drain" ELSE "wake"]
    BY <1>4 DEF PushToReader, PopFromWriter, Close, DrainWriter, DrainReader,
                Enters, HoldAt, CallsOK, Call_OK, Holding, Pushes, Pops
  <2>2. ch[a] \in closed' <=> op[a] = "close"
    <3>1. CASE PushToReader(a) \/ PopFromWriter(a)
      BY <3>1 DEF PushToReader, PopFromWriter, Enters, Pushes, Pops
    <3>2. CASE Close(a)
      BY <3>2 DEF Close, Enters
    <3>3. CASE DrainWriter(a) \/ DrainReader(a)
      BY <3>3 DEF DrainWriter, DrainReader, CallsOK, Call_OK, Refusals,
                  Refused_OK, Holding
    <3> QED
      BY <1>4, <3>1, <3>2, <3>3
  <2>3. Refused_OK(a)'
    BY <2>1, <2>2 DEF Refused_OK, TypeOK, CallTypeOK
  <2>4. \A c \in Chan \ {ch[a]} :
            /\ w'[c] = w[c] /\ r'[c] = r[c] /\ queue'[c] = queue[c]
            /\ c \in closed' <=> c \in closed
    BY <1>4, <2>1 DEF PushToReader, PopFromWriter, Close, DrainWriter, DrainReader,
                      TypeOK, ChannelTypeOK
  <2> QED
    BY <1>1, <2>1, <2>3, <2>4 DEF TypeOK, CallTypeOK
<1>5. ASSUME NEW a \in Actor,
             PushToQueue(a) \/ PopFromQueue(a)
             \/ \E malloc \in Mallocs : LeaveElement(a, malloc)
      PROVE  Refusals'
  <2>1. ch[a] \in Chan /\ (lock[ch[a]] = None \/ pc[a] \in Holding)
    BY <1>5 DEF PushToQueue, PopFromQueue, LeaveElement, Enters, CallsOK, Call_OK,
                Holding
  <2>2. Refused_OK(a)' /\ \A b \in Actor \ {a} : Stays(b)
    BY <1>5, ReturnRefusals DEF PushToQueue, PopFromQueue, LeaveElement
  <2>3. \A c \in Chan \ {ch[a]} :
            /\ w'[c] = w[c] /\ r'[c] = r[c] /\ queue'[c] = queue[c]
            /\ c \in closed' <=> c \in closed
    BY <1>5, <2>1 DEF PushToQueue, PopFromQueue, LeaveElement, TypeOK,
                      ChannelTypeOK
  <2> QED
    BY <1>1, <2>1, <2>2, <2>3
<1>6. ASSUME NEW a \in Co, NEW malloc \in Mallocs, Block(a, malloc)
      PROVE  Refusals'
  <2>1. /\ a \in Actor /\ ch[a] \in Chan /\ pc[a] \in Holding /\ op' = op
        /\ ch' = ch /\ pc' = [pc EXCEPT ![a] = "parked"]
    BY <1>6 DEF Block, Actor, CallsOK, Call_OK, Holding
  <2>2. Refused_OK(a)'
    BY <2>1, RefusalOutside DEF Holding, TypeOK, CallTypeOK
  <2>3. \A c \in Chan \ {ch[a]} :
            /\ w'[c] = w[c] /\ r'[c] = r[c] /\ queue'[c] = queue[c]
            /\ c \in closed' <=> c \in closed
    BY <1>6, <2>1 DEF Block, TypeOK, ChannelTypeOK
  <2> QED
    BY <1>1, <2>1, <2>2, <2>3 DEF TypeOK, CallTypeOK
<1>7. ASSUME NEW a \in Actor, Wake(a) PROVE Refusals'
  <2>1. /\ pc[a] \in Holding /\ op' = op /\ ch' = ch /\ UNCHANGED chvars
        /\ pc' = [pc EXCEPT ![a] =
                     IF status[tgt[a].co] \in {"WAITING", "RUNNING"}
                     THEN "join" ELSE "spin"]
    BY <1>7 DEF Wake, HoldAt, Holding
  <2>2. Refused_OK(a)'
    BY <2>1 DEF Refused_OK, Refusals, TypeOK, CallTypeOK
  <2> QED
    BY <1>0, <2>1, <2>2 DEF TypeOK, CallTypeOK
<1>8. ASSUME NEW a \in Actor,
             WakeNobody(a) \/ \E malloc \in Mallocs : Join(a, malloc)
      PROVE  Refusals'
  <2>1. Refused_OK(a) /\ pc[a] \in {"wake", "join"} /\ Served(a) /\ UNCHANGED chvars
    BY <1>8 DEF Refusals, WakeNobody, Join
  <2> QED
    BY <1>0, <2>1, ServedRefusals
<1>9. ASSUME NEW a \in Co, Park(a) \/ Spawn(a) \/ Terminate(a) PROVE Refusals'
  <2>1. /\ a \in Actor /\ op' = op /\ ch' = ch /\ UNCHANGED chvars
        /\ \E place \in Pc \ Holding : pc' = [pc EXCEPT ![a] = place]
    BY <1>9 DEF Park, Spawn, Terminate, Actor, Pc, Holding
  <2>2. Refused_OK(a)'
    BY <2>1, RefusalOutside DEF TypeOK, CallTypeOK
  <2> QED
    BY <1>0, <2>1, <2>2 DEF TypeOK, CallTypeOK
<1>10. ASSUME NEW a \in Co, Relock(a) PROVE Refusals'
  <2>1. a \in Actor
    BY DEF Actor
  <2> QED
    BY <1>0, <1>10, <2>1, ReturnRefusals DEF Relock
<1>11. ASSUME NEW a \in Actor, NEW o \in Op, NEW c \in Chan, Call(a, o, c)
       PROVE  Refusals'
  <2>1. pc'[a] \notin Holding
    BY <1>11 DEF Call, Begin, Holding, TypeOK, CallTypeOK
  <2>2. \A b \in Actor \ {a} : Stays(b)
    BY <1>11 DEF Call, Begin, TypeOK, CallTypeOK
  <2> QED
    BY <1>0, <1>11, <2>1, <2>2, RefusalOutside DEF Call
<1>12. ASSUME UNCHANGED <<pc, op, ch, chvars>> PROVE Refusals'
  BY <1>12 DEF Refusals, Refused_OK, wblocked, rblocked
<1>13. ASSUME NEW c \in Co, Yield(c) PROVE Refusals'
  BY <1>12, <1>13 DEF Yield
<1>14. ASSUME LoopThread \/ UNCHANGED vars \/ \E h \in Hdl : HandlerStep(h)
       PROVE  Refusals'
  BY <1>12, <1>14 DEF LoopThread, vars, HandlerStep
<1> QED
  BY <1>2, <1>3, <1>4, <1>5, <1>6, <1>7, <1>8, <1>9, <1>10, <1>11, <1>13, <1>14
     DEF Next, ActorStep, CoroutineStep

-----------------------------------------------------------------------------
(* A step that does not touch a channel, and leaves no mutex of a closed   *)
(* one free, strands nobody in it.                                         *)
LEMMA StrandedKept ==
    ASSUME NEW c \in Chan, NoStrandedIn(c),
           w'[c] = w[c], r'[c] = r[c], queue'[c] = queue[c],
           c \in closed' <=> c \in closed,
           lock'[c] = None => lock[c] = None \/ c \notin closed
    PROVE  NoStrandedIn(c)'
  BY DEF NoStrandedIn

LEMMA StrandedHeld ==
    ASSUME TypeOK, NEW a \in Actor, NEW c \in Chan, c \in closed', lock'[c] = a
    PROVE  NoStrandedIn(c)'
  BY ActorNotNone DEF NoStrandedIn

LEMMA ServedStranded ==
    ASSUME TypeOK, CallsOK, PlainTargets, Refusals, NoStranded, NEW a \in Actor,
           Served(a), UNCHANGED chvars, pc[a] \in {"wake", "join"}
    PROVE  NoStranded'
<1>1. ch[a] \in Chan /\ tgt[a].kind # "select"
  BY DEF CallsOK, Call_OK, Holding, PlainTargets
<1> SUFFICES ASSUME NEW c \in Chan PROVE NoStrandedIn(c)'
  BY DEF NoStranded
<1>2. CASE op[a] = "close"
  <2>1. lock' = [lock EXCEPT ![ch[a]] = a]
    BY <1>2 DEF Served, HoldAt
  <2> QED
    BY <1>1, <2>1, StrandedKept, ActorNotNone
       DEF NoStranded, chvars, TypeOK, CallTypeOK
<1>3. CASE op[a] # "close"
  <2>1. lock' = [lock EXCEPT ![ch[a]] = IF @ = a THEN None ELSE @]
    BY <1>1, <1>3 DEF Served, Return
  <2>2. ch[a] \notin closed
    BY <1>3 DEF Refusals, Refused_OK, Holding
  <2> QED
    BY <1>1, <2>1, <2>2, StrandedKept
       DEF NoStranded, chvars, TypeOK, CallTypeOK
<1> QED
  BY <1>2, <1>3

(* Nobody waits in vain after a step if nobody did before it.              *)
LEMMA NoStrandedStep ==
    TypeOK /\ CallsOK /\ PlainTargets /\ Refusals /\ NoStranded /\ [Next]_vars
        => NoStranded'
<1> SUFFICES ASSUME TypeOK, CallsOK, PlainTargets, Refusals, NoStranded, [Next]_vars
             PROVE  NoStranded'
  OBVIOUS
<1> USE DEF rtvars, chvars, acvars, history
<1>0. ASSUME UNCHANGED chvars,
             \A c \in Chan : lock'[c] = None => lock[c] = None \/ c \notin closed
      PROVE  NoStranded'
  BY <1>0, StrandedKept DEF NoStranded
<1>c. ASSUME NEW k \in Chan, NoStrandedIn(k)',
             \A c \in Chan \ {k} :
                 /\ w'[c] = w[c] /\ r'[c] = r[c] /\ queue'[c] = queue[c]
                 /\ lock'[c] = lock[c] /\ (c \in closed' <=> c \in closed)
      PROVE  NoStranded'
  BY <1>c, StrandedKept DEF NoStranded
<1>h. ASSUME NEW a \in Actor, pc[a] \in {"lock"} \cup Holding
      PROVE  /\ ch[a] \in Chan /\ NoStrandedIn(ch[a])
             /\ queue[ch[a]] \in Seq(Elem)
             /\ w[ch[a]] \in Seq(Waiter) /\ r[ch[a]] \in Seq(Waiter)
  BY <1>h DEF CallsOK, Call_OK, NoStranded, TypeOK, ChannelTypeOK
<1>1. ASSUME NEW a \in Actor, EnterClosed(a) \/ EnterRefused(a) PROVE NoStranded'
  BY <1>0, <1>1, ActorNotNone
     DEF EnterClosed, EnterRefused, Enters, Return, HoldAt, TypeOK, CallTypeOK
<1>2. ASSUME NEW a \in Actor, PushToReader(a) PROVE NoStranded'
  <2>1. /\ ch[a] \notin closed /\ r[ch[a]] # <<>>
        /\ r' = [r EXCEPT ![ch[a]] = Tail(@)]
        /\ lock' = [lock EXCEPT ![ch[a]] = a]
        /\ UNCHANGED <<w, queue, closed>>
    BY <1>2 DEF PushToReader, HoldAt
  <2>2. ch[a] \in Chan /\ NoStrandedIn(ch[a])
    BY <1>2, <1>h DEF PushToReader, Enters
  <2>k. PICK k \in Chan : k = ch[a]
    BY <2>2
  <2>3. NoStrandedIn(k)'
    BY <2>k, <2>1, <2>2 DEF NoStrandedIn
  <2> QED
    BY <1>c, <2>k, <2>1, <2>2, <2>3 DEF TypeOK, ChannelTypeOK, CallTypeOK
<1>3. ASSUME NEW a \in Actor, PushToQueue(a) PROVE NoStranded'
  <2>1. /\ ch[a] \notin closed /\ r[ch[a]] = <<>>
        /\ Len(queue[ch[a]]) < Cap[ch[a]]
        /\ queue' = [queue EXCEPT ![ch[a]] = Append(@, ele[a])]
        /\ lock' = [lock EXCEPT ![ch[a]] = IF @ = a THEN None ELSE @]
        /\ UNCHANGED <<w, r, closed>>
    BY <1>3 DEF PushToQueue, Return
  <2>2. ch[a] \in Chan /\ NoStrandedIn(ch[a])
    BY <1>3, <1>h DEF PushToQueue, Enters
  <2>k. PICK k \in Chan : k = ch[a]
    BY <2>2
  <2>3. w[ch[a]] = <<>>
    BY <2>k, <2>1, <2>2, ChannelAssumption DEF NoStrandedIn, TypeOK, ChannelTypeOK
  <2>4. NoStrandedIn(k)'
    BY <2>k, <2>1, <2>2, <2>3 DEF NoStrandedIn
  <2> QED
    BY <1>c, <2>k, <2>1, <2>2, <2>4 DEF TypeOK, ChannelTypeOK, CallTypeOK
<1>4. ASSUME NEW a \in Actor, PopFromWriter(a) PROVE NoStranded'
  <2>1. /\ ch[a] \notin closed /\ w[ch[a]] # <<>>
        /\ w' = [w EXCEPT ![ch[a]] = Tail(@)]
        /\ lock' = [lock EXCEPT ![ch[a]] = a]
        /\ UNCHANGED <<r, queue, closed>>
    BY <1>4 DEF PopFromWriter, HoldAt
  <2>2. ch[a] \in Chan /\ NoStrandedIn(ch[a])
    BY <1>4, <1>h DEF PopFromWriter, Enters
  <2>k. PICK k \in Chan : k = ch[a]
    BY <2>2
  <2>3. r[ch[a]] = <<>> /\ Len(queue[ch[a]]) = Cap[ch[a]]
    BY <2>k, <2>1, <2>2 DEF NoStrandedIn
  <2>4. NoStrandedIn(k)'
    BY <2>k, <2>1, <2>2, <2>3 DEF NoStrandedIn
  <2> QED
    BY <1>c, <2>k, <2>1, <2>2, <2>4 DEF TypeOK, ChannelTypeOK, CallTypeOK
<1>5. ASSUME NEW a \in Actor, PopFromQueue(a) PROVE NoStranded'
  <2>1. /\ ch[a] \notin closed /\ w[ch[a]] = <<>> /\ queue[ch[a]] # <<>>
        /\ queue' = [queue EXCEPT ![ch[a]] = Tail(@)]
        /\ lock' = [lock EXCEPT ![ch[a]] = IF @ = a THEN None ELSE @]
        /\ UNCHANGED <<w, r, closed>>
    BY <1>5 DEF PopFromQueue, Return
  <2>2. ch[a] \in Chan /\ NoStrandedIn(ch[a])
    BY <1>5, <1>h DEF PopFromQueue, Enters
  <2>k. PICK k \in Chan : k = ch[a]
    BY <2>2
  <2>3. NoStrandedIn(k)'
    BY <2>k, <2>1, <2>2 DEF NoStrandedIn
  <2> QED
    BY <1>c, <2>k, <2>1, <2>2, <2>3 DEF TypeOK, ChannelTypeOK, CallTypeOK
<1>6. ASSUME NEW a \in Actor, GiveUp(a) PROVE NoStranded'
  <2>1. ch[a] \notin closed /\ ch[a] \in Chan
    BY <1>6 DEF GiveUp, Refusals, Refused_OK, Holding, CallsOK, Call_OK
  <2> QED
    BY <1>0, <1>6, <2>1 DEF GiveUp, Return, TypeOK, CallTypeOK
<1>7. ASSUME NEW a \in Actor, NEW malloc \in Mallocs, LeaveElement(a, malloc)
      PROVE  NoStranded'
  <2>1. wblocked(ch[a])
    BY <1>7 DEF LeaveElement, Refusals, Refused_OK, Pushes
  <2>2. ch[a] \in Chan
    BY <1>7, <1>h DEF LeaveElement, Holding
  <2>k. PICK k \in Chan : k = ch[a]
    BY <2>2
  <2>3. /\ UNCHANGED <<r, queue, closed>>
        /\ \A c \in Chan \ {ch[a]} : w'[c] = w[c]
        /\ lock' = [lock EXCEPT ![ch[a]] = IF @ = a THEN None ELSE @]
    BY <2>k, <1>7, <2>2 DEF LeaveElement, Return, TypeOK, ChannelTypeOK
  <2>4. NoStrandedIn(k)'
    BY <2>k, <2>1, <2>3 DEF NoStrandedIn, wblocked
  <2> QED
    BY <1>c, <2>k, <2>2, <2>3, <2>4 DEF TypeOK, CallTypeOK
<1>8. ASSUME NEW a \in Co, NEW malloc \in Mallocs, Block(a, malloc)
      PROVE  NoStranded'
  <2>1. a \in Actor /\ ch[a] \in Chan
    BY <1>8, <1>h DEF Actor, Block, Holding
  <2>k. PICK k \in Chan : k = ch[a]
    BY <2>1
  <2>2. /\ UNCHANGED <<queue, closed>>
        /\ \A c \in Chan \ {ch[a]} : w'[c] = w[c] /\ r'[c] = r[c]
        /\ lock' = [lock EXCEPT ![ch[a]] = None]
    BY <2>k, <1>8, <2>1 DEF Block, TypeOK, ChannelTypeOK
  <2>3. CASE op[a] = "push"
    <3>1. wblocked(ch[a]) /\ r' = r
      BY <2>k, <1>8, <2>1, <2>3 DEF Block, Refusals, Refused_OK, Pushes
    <3>2. NoStrandedIn(k)'
      BY <2>k, <2>2, <3>1 DEF NoStrandedIn, wblocked
    <3> QED
      BY <1>c, <2>k, <2>1, <2>2, <3>2 DEF TypeOK, CallTypeOK
  <2>4. CASE op[a] = "pop"
    <3>1. rblocked(ch[a]) /\ w' = w
      BY <2>k, <1>8, <2>1, <2>4 DEF Block, Refusals, Refused_OK, Pops
    <3>2. NoStrandedIn(k)'
      BY <2>k, <2>2, <3>1 DEF NoStrandedIn, rblocked
    <3> QED
      BY <1>c, <2>k, <2>1, <2>2, <3>2 DEF TypeOK, CallTypeOK
  <2> QED
    BY <2>k, <1>8, <2>3, <2>4 DEF Block
<1>9. ASSUME NEW a \in Actor, Wake(a) PROVE NoStranded'
  BY <1>0, <1>9, ActorNotNone DEF Wake, HoldAt, TypeOK, CallTypeOK
<1>10. ASSUME NEW a \in Actor,
              WakeNobody(a) \/ \E malloc \in Mallocs : Join(a, malloc)
       PROVE  NoStranded'
  BY <1>10, ServedStranded DEF WakeNobody, Join
<1>11. ASSUME NEW a \in Actor, Close(a) \/ DrainWriter(a) \/ DrainReader(a)
       PROVE  NoStranded'
  <2>1. ch[a] \in Chan /\ lock' = [lock EXCEPT ![ch[a]] = a]
    BY <1>11, <1>h DEF Close, DrainWriter, DrainReader, Enters, Holding, HoldAt
  <2>k. PICK k \in Chan : k = ch[a]
    BY <2>1
  <2>2. ch[a] \in closed'
    <3>1. CASE Close(a)
      BY <2>k, <3>1 DEF Close
    <3>2. CASE DrainWriter(a) \/ DrainReader(a)
      BY <2>k, <3>2 DEF DrainWriter, DrainReader, CallsOK, Call_OK, Refusals, Refused_OK,
                  Holding
    <3> QED
      BY <2>k, <1>11, <3>1, <3>2
  <2>3. NoStrandedIn(k)'
    BY <2>k, <2>1, <2>2, StrandedHeld DEF TypeOK, CallTypeOK
  <2> QED
    BY <1>c, <2>k, <1>11, <2>1, <2>3
       DEF Close, DrainWriter, DrainReader, TypeOK, ChannelTypeOK, CallTypeOK
<1>12. ASSUME NEW a \in Actor, Drained(a) PROVE NoStranded'
  <2>1. /\ ch[a] \in Chan /\ w[ch[a]] = <<>> /\ r[ch[a]] = <<>>
        /\ UNCHANGED chvars
        /\ lock' = [lock EXCEPT ![ch[a]] = IF @ = a THEN None ELSE @]
    BY <1>12, <1>h DEF Drained, Holding, Return
  <2>k. PICK k \in Chan : k = ch[a]
    BY <2>1
  <2>2. NoStrandedIn(k)'
    BY <2>k, <2>1 DEF NoStrandedIn
  <2> QED
    BY <1>c, <2>k, <2>1, <2>2 DEF TypeOK, CallTypeOK
<1>13. ASSUME NEW a \in Co, Relock(a) PROVE NoStranded'
  BY <1>0, <1>13 DEF Relock, Return, TypeOK, CallTypeOK
<1>14. ASSUME UNCHANGED <<chvars, lock>> PROVE NoStranded'
  BY <1>0, <1>14
<1>15. ASSUME NEW c \in Co, Park(c) \/ Spawn(c) \/ Yield(c) \/ Terminate(c)
       PROVE  NoStranded'
  BY <1>14, <1>15 DEF Park, Spawn, Yield, Terminate
<1>16. ASSUME NEW a \in Actor, NEW o \in Op, NEW c \in Chan, Call(a, o, c)
       PROVE  NoStranded'
  BY <1>14, <1>16 DEF Call
<1>17. ASSUME LoopThread \/ UNCHANGED vars \/ \E h \in Hdl : HandlerStep(h)
       PROVE  NoStranded'
  BY <1>14, <1>17 DEF LoopThread, vars, HandlerStep
<1> QED
  BY <1>1, <1>2, <1>3, <1>4, <1>5, <1>6, <1>7, <1>8, <1>9, <1>10, <1>11, <1>12,
     <1>13, <1>15, <1>16, <1>17
     DEF Next, ActorStep, CoroutineStep

-----------------------------------------------------------------------------
LEMMA InvInit == Init => IInv
<1> SUFFICES ASSUME Init PROVE IInv
  OBVIOUS
<1>1. TypeOK
  BY TypeInit
<1>2. None \notin Pushes \cup {"push", "pop"}
  BY ChannelAssumption DEF Pushes, Op
<1>3. CallsOK
  BY <1>2 DEF Init, RuntimeInit, CallsOK, Call_OK, Holding
<1>4. Mutex /\ PlainWaiters /\ PlainTargets /\ Refusals
  BY DEF Init, Mutex, PlainWaiters, PlainTargets, Refusals, Refused_OK, Holding
<1>5. NoStranded
  BY DEF Init, NoStranded, NoStrandedIn
<1> QED
  BY <1>1, <1>3, <1>4, <1>5 DEF IInv

LEMMA InvHolds == Spec => []IInv
<1>1. IInv /\ [Next]_vars => IInv'
  BY TypeStep, CallsStep, MutexStep, PlainStep, PlainTargetsStep, RefusalsStep,
     NoStrandedStep
     DEF IInv
<1> QED
  BY InvInit, <1>1, PTL DEF Spec

(* Every variable keeps the type the code gives it, whatever the actors    *)
(* call and whatever malloc does.                                          *)
THEOREM ChannelTypeCorrect == Spec => []TypeOK
<1>1. IInv => TypeOK
  BY DEF IInv
<1> QED
  BY <1>1, InvHolds, PTL

(* Nobody waits in vain, for any number of coroutines, threads and         *)
(* channels, any capacities and whatever malloc does: chan_w, chan_r,      *)
(* wblocked and rblocked (lc_channel.c:364-389, 423-462, 472-498) agree on *)
(* who must wait, and close leaves no waiter behind.                       *)
THEOREM NobodyStranded == Spec => []NoStranded
<1>1. IInv => NoStranded
  BY DEF IInv
<1> QED
  BY <1>1, InvHolds, PTL

(* Two actors are never inside the critical section of one channel, and a  *)
(* refusal still stands when the caller acts on it, after the steps the    *)
(* critical section is cut into (lc_channel.c:82-99, 188-205).             *)
THEOREM RefusalsStand == Spec => [](Mutex /\ Refusals)
<1>1. IInv => Mutex /\ Refusals
  BY DEF IInv
<1> QED
  BY <1>1, InvHolds, PTL
=============================================================================
