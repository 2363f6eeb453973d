--------------------------------- MODULE Io ---------------------------------
(***************************************************************************)
(* Descriptors, their registration and the loop that waits for them:       *)
(* liteco_io_start and _stop (src/platform/linux/lc_io.c, the same in       *)
(* src/platform/darwin) and liteco_eloop_run with liteco_eloop_reg_io       *)
(* (src/platform/linux/lc_eloop.c).                                        *)
(*                                                                         *)
(* The loop's thread is the only one that calls them: before the loop runs *)
(* and in callbacks.  The kernel's part, descriptors and an edge-triggered *)
(* epoll, is modelled from what the code asks of it; kqueue with EV_CLEAR  *)
(* does the same for Darwin.                                               *)
(*                                                                         *)
(* mon and reg are trees keyed by descriptor numbers, here sets: mon of    *)
(* the handlers listened to, reg of numbers.  Trees of up to three nodes   *)
(* behave as sets; larger ones lose keys after a removal (see RbTree).     *)
(***************************************************************************)
EXTENDS Naturals, FiniteSets

CONSTANTS
    Object,     \* the program's sockets, each opened at most once
    App,        \* the handler of timers and coroutines: the program's code
    Nil,
    Fd,         \* descriptor numbers
    MaxEvents,  \* how many events one wait returns: 32 in the code
    Faults      \* what may fail: a subset of FaultKinds

FaultKinds == {"malloc", "epoll_ctl", "alloc_cb", "recvmsg"}

Handler == Object \cup {App}

ASSUME IoAssumption ==
    /\ App \notin Object
    /\ Nil \notin Handler \cup Fd
    /\ Fd \subseteq Nat /\ Fd # {} /\ IsFiniteSet(Fd)
    /\ MaxEvents \in Nat \ {0}
    /\ Faults \subseteq FaultKinds

VARIABLES
    \* the program
    key,        \* io.key of each handler
    mon, reg,   \* the loop's two trees
    closed,     \* liteco_eloop_close was called
    pc, self,   \* where the loop's thread is, and the handler it serves
    batch,      \* handlers whose event the last wait returned, not yet served
    \* the kernel
    file,       \* the handler whose socket a number stands for
    interest,   \* the data.ptr of the numbers in epoll's interest list
    ready,      \* numbers that epoll has to report
    data,       \* how much waits to be read in each socket
    \* history
    unheard,    \* handlers whose number is in reg, but not they in epoll: it was
                \* there when they got it, or epoll_ctl failed
    denied,     \* handlers that the last pass could not register
    ended       \* handlers stopped since the last wait

loopvars == <<mon, reg, closed, pc, self, batch>>
kernel == <<file, interest, ready, data>>
history == <<unheard, denied, ended>>
iovars == <<key, loopvars, kernel, history>>

LowestOf(S) == CHOOSE k \in S : \A j \in S : k <= j

Free == {k \in Fd : file[k] = Nil}

(* App listens from the start; nothing is registered before the loop runs. *)
IoInit ==
    LET first == LowestOf(Fd)
    IN  /\ key = [i \in Handler |-> IF i = App THEN first ELSE Nil]
        /\ file = [k \in Fd |-> IF k = first THEN App ELSE Nil]
    /\ mon = {App}
    /\ reg = {}
    /\ closed = FALSE
    /\ pc = "user"
    /\ self = Nil
    /\ batch = {}
    /\ interest = [k \in Fd |-> Nil]
    /\ ready = {}
    /\ data = [i \in Handler |-> 0]
    /\ unheard = {}
    /\ denied = {}
    /\ ended = {}

-----------------------------------------------------------------------------
(* The kernel.                                                             *)

(* Something arrives at a socket: an edge, if the socket is listened to.   *)
Arrives(i) ==
    /\ data' = [data EXCEPT ![i] = @ + 1]
    /\ ready' = IF interest[key[i]] # Nil THEN ready \cup {key[i]} ELSE ready

(* socket() gives the lowest number that is free.                          *)
Socket(i) ==
    /\ Free # {}
    /\ key' = [key EXCEPT ![i] = LowestOf(Free)]
    /\ file' = [file EXCEPT ![LowestOf(Free)] = i]
    /\ unheard' = IF LowestOf(Free) \in reg THEN unheard \cup {i} ELSE unheard

(* close() takes the descriptor out of epoll, but no event out of batch.   *)
CloseFd(k) ==
    /\ file' = [file EXCEPT ![k] = Nil]
    /\ interest' = [interest EXCEPT ![k] = Nil]
    /\ ready' = ready \ {k}
    /\ data' = [i \in Handler |-> IF i = file[k] THEN 0 ELSE data[i]]

Readable(k) == file[k] # Nil /\ data[file[k]] > 0

-----------------------------------------------------------------------------
Monitored(i) == \E m \in mon : key[m] = key[i]

IoStart(i) == mon' = IF Monitored(i) THEN mon ELSE mon \cup {i}

StopKeepsOpen(i) ==
    IF Monitored(i)
    THEN /\ mon' = mon \ {i}
         /\ ended' = ended \cup {i}
         /\ UNCHANGED kernel
    ELSE UNCHANGED <<mon, ended, kernel>>

StopKeepsMonitored(i) ==
    IF Monitored(i)
    THEN CloseFd(key[i]) /\ ended' = ended \cup {i} /\ UNCHANGED mon
    ELSE UNCHANGED <<mon, ended, kernel>>

(* liteco_io_stop with all the events of the handler.  The number stays in *)
(* reg; a handler that is not listened to keeps its descriptor.            *)
IoStop(i) ==
    IF Monitored(i)
    THEN /\ mon' = mon \ {i}
         /\ CloseFd(key[i])
         /\ ended' = ended \cup {i}
    ELSE UNCHANGED <<mon, ended, kernel>>

-----------------------------------------------------------------------------
(* The loop: a pass registers what is new in mon and waits.  The program's *)
(* code runs in between.  A number in reg is taken for registered.         *)
Unregistered == {i \in mon : key[i] \notin reg}

(* unmarked: those for whose mark malloc has no memory, to be tried again. *)
(* refused: those that epoll_ctl does not take, which nobody notices, and  *)
(* whose mark is in reg already.                                           *)
Register(unmarked, refused) ==
    /\ pc = "register" /\ ~closed
    /\ LET marked == Unregistered \ unmarked
           new == marked \ refused
           added == {key[i] : i \in new}
       IN  /\ reg' = reg \cup {key[i] : i \in marked}
           /\ interest' = [k \in Fd |-> IF k \in added THEN CHOOSE i \in new : key[i] = k
                                        ELSE interest[k]]
           /\ ready' = ready \cup {k \in added : Readable(k)}
           /\ unheard' = unheard \cup refused
    /\ denied' = unmarked
    /\ pc' = "wait"
    /\ UNCHANGED <<key, mon, closed, self, batch, file, data, ended>>

Reported == {k \in ready : Readable(k)}

(* epoll_wait returns as many events as it can.  What has nothing left to  *)
(* read is passed over; the rest is reported by another wait.              *)
EpollWait(events) ==
    /\ pc = "wait"
    /\ events # {}
    /\ events \subseteq Reported
    /\ Cardinality(events) <= MaxEvents
    /\ events # Reported => Cardinality(events) = MaxEvents
    /\ batch' = {interest[k] : k \in events}
    /\ ready' = Reported \ events
    /\ pc' = "dispatch"
    /\ ended' = {}
    /\ UNCHANGED <<key, mon, reg, closed, self, file, interest, data, unheard, denied>>

(* With nothing to report a signal interrupts epoll_wait: another pass.     *)
Interrupted ==
    /\ pc = "wait"
    /\ Reported = {}
    /\ pc' = "register"
    /\ UNCHANGED <<key, mon, reg, closed, self, batch, kernel, history>>

DispatchFirst(i, callback) ==
    /\ pc = "dispatch"
    /\ i \in batch
    /\ self' = i
    /\ batch' = {}
    /\ pc' = callback
    /\ UNCHANGED <<key, mon, reg, closed, file, interest, ready, history>>

(* The callback of an event of the batch, which is where its code starts.  *)
(* epoll's order is its own, so that any is the next.                      *)
Dispatch(i, callback) ==
    /\ pc = "dispatch"
    /\ i \in batch
    /\ self' = i
    /\ batch' = batch \ {i}
    /\ pc' = callback
    /\ UNCHANGED <<key, mon, reg, closed, file, interest, ready, history>>

BatchDone ==
    /\ pc = "dispatch"
    /\ batch = {}
    /\ pc' = IF closed THEN "stopped" ELSE "register"
    /\ UNCHANGED <<key, mon, reg, closed, self, batch, kernel, history>>

(* liteco_eloop_run.                                                       *)
Run ==
    /\ pc = "user"
    /\ pc' = IF closed THEN "stopped" ELSE "register"
    /\ UNCHANGED <<key, mon, reg, closed, self, batch, kernel, history>>

(* liteco_eloop_close by the loop's thread: epoll goes, the loop ends with *)
(* the batch.                                                              *)
EloopClose ==
    /\ ~closed
    /\ closed' = TRUE
    /\ interest' = [k \in Fd |-> Nil]
    /\ ready' = {}
    /\ UNCHANGED <<key, mon, reg, pc, self, batch, file, data, history>>
=============================================================================
