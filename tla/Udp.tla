-------------------------------- MODULE Udp ---------------------------------
(***************************************************************************)
(* Datagram sockets and udp channels (src/lc_udp.c) on the loop of Io.     *)
(*                                                                         *)
(* Every object is a liteco_udp_chan_t, whose callbacks are the library's: *)
(* a buffer from the program's alloc_cb, a datagram read into it and       *)
(* pushed to the channel, or the buffer given back by recovery_cb.  The    *)
(* program's code, which may open, use and close any socket, runs before   *)
(* the loop, in App's callback, in alloc_cb and in recovery_cb.            *)
(*                                                                         *)
(* Buffers are counted, not named.  All sockets push to one channel; the   *)
(* loop's thread alone uses it, so that its calls are steps (see Channel   *)
(* for what happens inside them), and its writers are the elements that    *)
(* unenforceable pushes left.                                              *)
(***************************************************************************)
EXTENDS Io

CONSTANTS
    Buffers,    \* bound: how many buffers the program has
    Room,       \* ele_cnt of the channel
    Readers,    \* how many coroutines read from the channel
    Load        \* bound: how many datagrams are sent

ASSUME UdpAssumption ==
    Buffers \in Nat /\ Room \in Nat /\ Readers \in Nat /\ Load \in Nat

VARIABLES
    life,       \* "new", "open", "receiving", "closed"; "kept": closed, but not its descriptor
    bound,      \* sockets with an address, to which datagrams can be sent
    left,       \* how many are still to be sent
    free,       \* buffers the program has
    held,       \* the receive loop has one
    chanClosed,
    queued,     \* buffers in the channel's array
    leftover,   \* buffers in the waiters of chan->w
    asking,     \* coroutines in chan->r
    handed,     \* buffers given to coroutines that have yet to run
    lost,       \* history: buffers that went with the close of the channel
    dropped,    \* history: buffers for whose waiter there was no memory
    starved     \* history: sockets whose last callback left before the end

sockets == <<life, bound, left>>
chan == <<chanClosed, queued, leftover, asking, handed, lost, dropped>>
buffers == <<free, held, chan>>
vars == <<iovars, sockets, buffers, starved>>

Init ==
    /\ IoInit
    /\ life = [s \in Object |-> "new"]
    /\ bound = {}
    /\ left = Load
    /\ free = Buffers
    /\ held = FALSE
    /\ chanClosed = FALSE
    /\ queued = 0
    /\ leftover = 0
    /\ asking = 0
    /\ handed = 0
    /\ lost = 0
    /\ dropped = 0
    /\ starved = {}

-----------------------------------------------------------------------------
(* The program's calls.                                                    *)
InUserCode == pc \in {"user", "app", "alloc", "recover"}

(* liteco_udp_chan_init.  The program stops opening sockets when there are *)
(* no numbers left, which liteco_udp_chan_init does not report.            *)
Open(s) ==
    /\ InUserCode
    /\ life[s] = "new"
    /\ Socket(s)
    /\ life' = [life EXCEPT ![s] = "open"]
    /\ UNCHANGED <<loopvars, interest, ready, data, denied, ended, bound, left, buffers, starved>>

Bind(s) ==
    /\ InUserCode
    /\ life[s] \in {"open", "receiving"}
    /\ bound' = bound \cup {s}
    /\ UNCHANGED <<iovars, life, left, buffers, starved>>

(* liteco_udp_chan_recv sets the callbacks and listens; the loop registers *)
(* the socket in its next pass.                                            *)
Receive(s) ==
    /\ InUserCode
    /\ life[s] = "open"
    /\ IoStart(s)
    /\ life' = [life EXCEPT ![s] = "receiving"]
    /\ UNCHANGED <<key, reg, closed, pc, self, batch, kernel, history, bound, left, buffers, starved>>

(* What still arrives at a kept descriptor nobody hears; it is left out.   *)
Close(s) ==
    /\ InUserCode
    /\ life[s] \in {"open", "receiving"}
    /\ IoStop(s)
    /\ life' = [life EXCEPT ![s] = IF @ = "receiving" THEN "closed" ELSE "kept"]
    /\ bound' = bound \ {s}
    /\ UNCHANGED <<key, reg, closed, pc, self, batch, unheard, denied, left, buffers, starved>>

(* liteco_chan_close frees all waiters, and with those of the writers the  *)
(* buffers in them.  The array keeps what it has, but no pop returns it.   *)
CloseChan ==
    /\ InUserCode
    /\ ~chanClosed
    /\ chanClosed' = TRUE
    /\ leftover' = 0
    /\ lost' = lost + leftover
    /\ asking' = 0
    /\ UNCHANGED <<iovars, sockets, free, held, queued, handed, dropped, starved>>

CloseLoop ==
    /\ InUserCode
    /\ EloopClose
    /\ UNCHANGED <<sockets, buffers, starved>>

(* Coroutines run in App's callback.  One pops: the buffer of a writer, if *)
(* there is one, or else the array's first, and gives it back; or it waits *)
(* in chan->r.  (If malloc fails it waits unrecorded, and takes nothing.)  *)
Pop ==
    /\ pc = "app"
    /\ ~chanClosed
    /\ \/ /\ leftover > 0
          /\ leftover' = leftover - 1
          /\ free' = free + 1
          /\ UNCHANGED <<queued, asking>>
       \/ /\ leftover = 0 /\ queued > 0
          /\ queued' = queued - 1
          /\ free' = free + 1
          /\ UNCHANGED <<leftover, asking>>
       \/ /\ leftover = 0 /\ queued = 0
          /\ asking + handed < Readers
          /\ asking' = asking + 1
          /\ UNCHANGED <<free, queued, leftover>>
    /\ UNCHANGED <<iovars, sockets, held, chanClosed, handed, lost, dropped, starved>>

(* A coroutine that a push has woken runs, and gives the buffer back.      *)
PopResumes ==
    /\ pc = "app"
    /\ handed > 0
    /\ handed' = handed - 1
    /\ free' = free + 1
    /\ UNCHANGED <<iovars, sockets, held, chanClosed, queued, leftover, asking, lost, dropped, starved>>

-----------------------------------------------------------------------------
(* The loop calls back: liteco_udp_io_cb, or the program's own handler.    *)
UdpCallback ==
    /\ \E s \in batch \ {App} : Dispatch(s, "alloc")
    /\ UNCHANGED <<data, sockets, buffers, starved>>

AppCallback ==
    /\ Dispatch(App, "app")
    /\ data' = [data EXCEPT ![App] = 0]
    /\ UNCHANGED <<sockets, buffers, starved>>

ReturnsTo(place) ==
    /\ pc' = place
    /\ UNCHANGED <<key, mon, reg, closed, self, batch, kernel, history>>

UserReturns ==
    /\ pc \in {"app", "recover"}
    /\ pc' = "dispatch"
    /\ self' = Nil
    /\ UNCHANGED <<key, mon, reg, closed, batch, kernel, history, sockets, buffers, starved>>

(* alloc_cb returns a buffer.                                              *)
Alloc ==
    /\ pc = "alloc"
    /\ free > 0
    /\ free' = free - 1
    /\ held' = TRUE
    /\ ReturnsTo("recvmsg")
    /\ UNCHANGED <<sockets, chan, starved>>

(* alloc_cb has none: recv_cb gets -1 and no buffer, and what recovery_cb  *)
(* gets is an address computed from NULL, which the program must ignore.   *)
(* The socket is not read to its end.                                      *)
AllocFails ==
    /\ pc = "alloc"
    /\ free = 0 \/ "alloc_cb" \in Faults
    /\ starved' = starved \cup {self}
    /\ ReturnsTo("recover")
    /\ UNCHANGED <<sockets, buffers>>

(* The end of liteco_chan_unenforceable_push when liteco_chan_w refuses:   *)
(* it returns 0 whether there is memory for the buffer's waiter or not.    *)
LeftToWriters ==
    \/ /\ leftover' = leftover + 1
       /\ UNCHANGED dropped
    \/ /\ "malloc" \in Faults
       /\ dropped' = dropped + 1
       /\ UNCHANGED leftover

(* liteco_chan_w with a coroutine in chan->r: a pop gets the buffer, but a *)
(* select is only woken.                                                   *)
PushToReader ==
    /\ asking > 0
    /\ asking' = asking - 1
    /\ \/ handed' = handed + 1 /\ UNCHANGED <<leftover, dropped>>
       \/ LeftToWriters /\ UNCHANGED handed

PushToQueue ==
    /\ asking = 0 /\ queued < Room
    /\ queued' = queued + 1

(* liteco_chan_unenforceable_push, whose result nobody looks at.           *)
Push ==
    /\ \/ /\ chanClosed
          /\ lost' = lost + 1
          /\ UNCHANGED <<queued, leftover, asking, handed, dropped>>
       \/ /\ ~chanClosed /\ PushToReader
          /\ UNCHANGED <<queued, lost>>
       \/ /\ ~chanClosed /\ PushToQueue
          /\ UNCHANGED <<leftover, asking, handed, lost, dropped>>
       \/ /\ ~chanClosed /\ asking = 0 /\ queued = Room
          /\ LeftToWriters
          /\ UNCHANGED <<queued, asking, handed, lost>>
    /\ held' = FALSE
    /\ UNCHANGED <<free, chanClosed>>

(* The number is the one the socket had, whatever it stands for now.       *)
Source == file[key[self]]

ReceivedOnce ==
    /\ pc = "recvmsg"
    /\ Source # Nil /\ data[Source] > 0
    /\ data' = [data EXCEPT ![Source] = @ - 1]
    /\ Push
    /\ pc' = "dispatch" /\ self' = Nil
    /\ UNCHANGED <<key, mon, reg, closed, batch, file, interest, ready, history, sockets, starved>>

Received ==
    /\ pc = "recvmsg"
    /\ Source # Nil /\ data[Source] > 0
    /\ data' = [data EXCEPT ![Source] = @ - 1]
    /\ Push
    /\ pc' = "alloc"
    /\ UNCHANGED <<key, mon, reg, closed, self, batch, file, interest, ready, history, sockets, starved>>

(* An empty datagram: recv_cb gets 0 and the program its buffer, whose next *)
(* alloc_cb follows at once.                                               *)
ReceivedEmpty ==
    /\ pc = "recvmsg"
    /\ Source # Nil /\ data[Source] > 0
    /\ data' = [data EXCEPT ![Source] = @ - 1]
    /\ held' = FALSE
    /\ free' = free + 1
    /\ pc' = "alloc"
    /\ UNCHANGED <<key, mon, reg, closed, self, batch, file, interest, ready, history, sockets>>
    /\ UNCHANGED <<chan, starved>>

NothingLeftNoRecovery ==
    /\ pc = "recvmsg"
    /\ Source # Nil /\ data[Source] = 0
    /\ held' = FALSE
    /\ ReturnsTo("recover")
    /\ starved' = starved \ {self}
    /\ UNCHANGED <<sockets, free, chan>>

(* EAGAIN: recv_cb gets 0 and the program its buffer.                      *)
NothingLeft ==
    /\ pc = "recvmsg"
    /\ Source # Nil /\ data[Source] = 0
    /\ held' = FALSE
    /\ free' = free + 1
    /\ ReturnsTo("recover")
    /\ starved' = starved \ {self}
    /\ UNCHANGED <<sockets, chan>>

(* Any other error, such as a closed descriptor: recv_cb gets errno, which *)
(* is positive, and so takes the buffer for a datagram of that length.     *)
ReceiveFails ==
    /\ pc = "recvmsg"
    /\ Source = Nil \/ "recvmsg" \in Faults
    /\ Push
    /\ starved' = starved \cup {self}
    /\ pc' = "dispatch" /\ self' = Nil
    /\ UNCHANGED <<key, mon, reg, closed, batch, kernel, history, sockets>>

-----------------------------------------------------------------------------
(* Which of the handlers a call may fail for.                              *)
Failing(call, handlers) == IF call \in Faults THEN SUBSET handlers ELSE {{}}

LoopStep ==
    /\ \/ \E unmarked \in Failing("malloc", Unregistered) :
              \E refused \in Failing("epoll_ctl", Unregistered \ unmarked) :
                  Register(unmarked, refused)
       \/ \E events \in SUBSET ready : EpollWait(events)
       \/ BatchDone \/ Run
    /\ UNCHANGED <<sockets, buffers, starved>>

Callback ==
    \/ UdpCallback \/ AppCallback \/ UserReturns
    \/ Alloc \/ AllocFails \/ Received \/ ReceivedEmpty \/ NothingLeft \/ ReceiveFails

Program ==
    \/ \E s \in Object : Open(s) \/ Bind(s) \/ Receive(s) \/ Close(s)
    \/ CloseChan \/ CloseLoop \/ Pop \/ PopResumes

(* A datagram for a bound socket; a timer, or somebody wakes a coroutine.  *)
Datagram(s) ==
    /\ s \in bound
    /\ left > 0
    /\ left' = left - 1
    /\ Arrives(s)
    /\ UNCHANGED <<key, loopvars, file, interest, history, life, bound, buffers, starved>>

AppEvent ==
    /\ data[App] = 0
    /\ Arrives(App)
    /\ UNCHANGED <<key, loopvars, file, interest, history, sockets, buffers, starved>>

Signal == Interrupted /\ UNCHANGED <<sockets, buffers, starved>>

Environment == AppEvent \/ Signal \/ \E s \in Object : Datagram(s)

Next == LoopStep \/ Callback \/ Program \/ Environment

(* The loop goes on and callbacks return; nobody has to send or to call.   *)
(* epoll reports in turn what is ready, so that each number gets its turn. *)
Fairness ==
    /\ WF_vars(LoopStep) /\ WF_vars(Callback)
    /\ \A s \in Object :
           SF_vars(\E events \in SUBSET ready :
                       /\ EpollWait(events) /\ s \in batch'
                       /\ UNCHANGED <<sockets, buffers, starved>>)

Spec == Init /\ [][Next]_vars /\ Fairness

-----------------------------------------------------------------------------
(* A socket the loop does not hear: its number was in reg when it got it,  *)
(* epoll_ctl failed, there was no memory for its mark, or its last         *)
(* callback left data behind.                                              *)
Deaf(s) == s \in unheard \cup denied \cup starved

(* Each edge is reported once, so before the loop waits nothing may be     *)
(* left unread, unless the kernel will report it or the socket is deaf.    *)
NothingWaitsUnseen ==
    pc = "wait" /\ ~closed =>
        \A s \in mon : data[s] > 0 => Deaf(s) \/ (interest[key[s]] = s /\ key[s] \in ready)

(* A callback of a closed socket runs only in the batch of its close, and  *)
(* the kernel never keeps the address of a handler that was stopped.       *)
ClosedIsQuiet ==
    /\ \A s \in Object :
           life[s] = "closed" /\ s \in batch \cup {self} => s \in ended
    /\ \A k \in Fd : interest[k] # Nil => interest[k] \in mon /\ key[interest[k]] = k

(* A descriptor is open from the socket's opening to its close, whatever   *)
(* numbers others get; a socket that never received keeps it for ever.     *)
DescriptorsMatch ==
    /\ \A s \in Object : life[s] \in {"open", "receiving", "kept"} <=>
                             \E k \in Fd : key[s] = k /\ file[k] = s
    /\ mon = {App} \cup {s \in Object : life[s] = "receiving"}

(* A buffer is the program's, the receive loop's, in the channel or on its *)
(* way to a coroutine; or it is gone, in one of two ways.  The close of    *)
(* the channel takes those that it finds in waiters or that come later,    *)
(* so that no waiter is left behind.  From an open channel a buffer goes   *)
(* only when malloc fails.                                                 *)
BuffersAccounted ==
    /\ free + (IF held THEN 1 ELSE 0) + queued + leftover + handed + lost + dropped = Buffers
    /\ lost > 0 => chanClosed
    /\ dropped > 0 => "malloc" \in Faults
    /\ chanClosed => leftover = 0 /\ asking = 0
    /\ queued <= Room

(* What was sent to a socket that receives is read, unless it goes deaf,   *)
(* is closed or the loop is.                                               *)
EverythingRead ==
    \A s \in Object :
        s \in mon /\ data[s] > 0 ~> data[s] = 0 \/ s \notin mon \/ Deaf(s) \/ closed
=============================================================================
