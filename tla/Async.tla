------------------------------- MODULE Async -------------------------------
(***************************************************************************)
(* Asynchronous handlers of an event loop (src/lc_async.c and the eventfd  *)
(* half of src/platform/linux/lc_eloop.c).  Any thread may send on a       *)
(* handler; the loop thread is woken through one eventfd registered        *)
(* edge-triggered, walks its list of handlers and runs the callbacks of    *)
(* those that were sent.                                                   *)
(*                                                                         *)
(* A send is three shared-memory steps: claim the handler (a CAS), write   *)
(* the eventfd, publish the claim (a second CAS).  The loop's side is also *)
(* cut at every shared access, so a thread can be between any two of its   *)
(* steps while the loop is between any two of its own.                     *)
(***************************************************************************)
EXTENDS Naturals

CONSTANTS
    N,        \* handlers that are ever initialised; 1..N is their list order
    Thread,   \* threads other than the loop's that send
    Loop      \* the loop's own thread, which sends from callbacks

ASSUME AsyncAssumption == N \in Nat /\ Loop \notin Thread

Handler == 1..N
Sender == Thread \cup {Loop}

VARIABLES
    reg,      \* handlers 1..reg are in the loop's list
    hstat,    \* status of each handler
    asked,    \* handlers sent since their callback last started
    counter,  \* value of the eventfd
    edge,     \* "raised": epoll holds an edge the loop was not told of
    spc,      \* where each sender is inside liteco_async_send
    tgt,      \* the handler each sender is sending on
    lpc,      \* where the loop is
    pos       \* the list position it has reached

vars == <<reg, hstat, asked, counter, edge, spc, tgt, lpc, pos>>

TypeOK ==
    /\ reg \in 0..N
    /\ hstat \in [Handler -> {"NO_PADDING", "WORKING", "DONE"}]
    /\ asked \in SUBSET Handler
    /\ counter \in Nat
    /\ edge \in {"none", "raised"}
    /\ spc \in [Sender -> {"idle", "write", "finish"}]
    /\ tgt \in [Sender -> 0..N]
    /\ lpc \in {"wait", "read", "scan", "cas", "cb"}
    /\ pos \in 1..(N + 1)

Init ==
    /\ reg = 0
    /\ hstat = [h \in Handler |-> "NO_PADDING"]
    /\ asked = {}
    /\ counter = 0
    /\ edge = "none"
    /\ spc = [s \in Sender |-> "idle"]
    /\ tgt = [s \in Sender |-> 0]
    /\ lpc = "wait"
    /\ pos = 1

-----------------------------------------------------------------------------
(* The loop thread runs user code in a callback of this list ("cb") and,   *)
(* between two reads of the eventfd, in the callbacks of other sources or  *)
(* before liteco_eloop_run ("wait").                                       *)
InUserCode == lpc \in {"wait", "cb"}

-----------------------------------------------------------------------------
(* Defective variants of the steps below: each is what a plausible mistake *)
(* in the code would do, and breaks one of the properties.                 *)

(* The loop does not wait for a claim to be published.                     *)
SpinReadNoWait ==
    /\ lpc = "scan"
    /\ pos <= reg
    /\ lpc' = "cas"
    /\ UNCHANGED <<reg, hstat, asked, counter, edge, spc, tgt, pos>>

(* Only a published send coalesces; a claim in progress is claimed again.  *)
SendClaimTwice(s, h) ==
    /\ s = Loop => InUserCode
    /\ spc[s] = "idle"
    /\ h <= reg
    /\ asked' = asked \cup {h}
    /\ IF hstat[h] # "DONE"
       THEN /\ hstat' = [hstat EXCEPT ![h] = "WORKING"]
            /\ spc' = [spc EXCEPT ![s] = "write"]
            /\ tgt' = [tgt EXCEPT ![s] = h]
       ELSE UNCHANGED <<hstat, spc, tgt>>
    /\ UNCHANGED <<reg, counter, edge, lpc, pos>>

(* The sender leaves after the eventfd write and never publishes.          *)
SendFinishForgets(s) ==
    /\ spc[s] = "finish"
    /\ spc' = [spc EXCEPT ![s] = "idle"]
    /\ UNCHANGED <<reg, hstat, asked, counter, edge, tgt, lpc, pos>>

(* The walk steps over the handler that follows one it did not serve.      *)
SpinCasFailsSkips ==
    /\ lpc = "cas"
    /\ hstat[pos] # "DONE"
    /\ lpc' = "scan"
    /\ pos' = pos + 2
    /\ UNCHANGED <<reg, hstat, asked, counter, edge, spc, tgt>>

(* The walk stops after the first callback it ran.                         *)
CallbackReturnsStop ==
    /\ lpc = "cb"
    /\ spc[Loop] = "idle"
    /\ lpc' = "wait"
    /\ pos' = 1
    /\ UNCHANGED <<reg, hstat, asked, counter, edge, spc, tgt>>

-----------------------------------------------------------------------------
(* liteco_async_init: the handler goes to the tail of the list.            *)
AsyncInit ==
    /\ InUserCode
    /\ spc[Loop] = "idle"
    /\ reg < N
    /\ reg' = reg + 1
    /\ UNCHANGED <<hstat, asked, counter, edge, spc, tgt, lpc, pos>>

(* First half of liteco_async_send.  The plain read and the CAS are one    *)
(* step: both lead to the same return when the handler is already claimed. *)
SendClaim(s, h) ==
    /\ s = Loop => InUserCode
    /\ spc[s] = "idle"
    /\ h <= reg
    /\ asked' = asked \cup {h}
    /\ IF hstat[h] = "NO_PADDING"
       THEN /\ hstat' = [hstat EXCEPT ![h] = "WORKING"]
            /\ spc' = [spc EXCEPT ![s] = "write"]
            /\ tgt' = [tgt EXCEPT ![s] = h]
       ELSE UNCHANGED <<hstat, spc, tgt>>
    /\ UNCHANGED <<reg, counter, edge, lpc, pos>>

(* liteco_eloop_async_send: adds 1 to the eventfd; every write is an edge. *)
SendWrite(s) ==
    /\ spc[s] = "write"
    /\ counter' = counter + 1
    /\ edge' = "raised"
    /\ spc' = [spc EXCEPT ![s] = "finish"]
    /\ UNCHANGED <<reg, hstat, asked, tgt, lpc, pos>>

(* Second CAS.  Were the status not WORKING the call would return -1.      *)
SendFinish(s) ==
    /\ spc[s] = "finish"
    /\ hstat' = [hstat EXCEPT ![tgt[s]] =
                     IF @ = "WORKING" THEN "DONE" ELSE @]
    /\ spc' = [spc EXCEPT ![s] = "idle"]
    /\ UNCHANGED <<reg, asked, counter, edge, tgt, lpc, pos>>

-----------------------------------------------------------------------------
(* epoll_wait returns the eventfd's event and the loop calls async_io_cb.  *)
EpollReport ==
    /\ lpc = "wait"
    /\ spc[Loop] = "idle"
    /\ edge = "raised"
    /\ edge' = "none"
    /\ lpc' = "read"
    /\ UNCHANGED <<reg, hstat, asked, counter, spc, tgt, pos>>

(* eventfd_read takes the whole counter, and fails when it is zero.        *)
EventfdRead ==
    /\ lpc = "read"
    /\ counter' = 0
    /\ lpc' = IF counter > 0 THEN "scan" ELSE "wait"
    /\ pos' = 1
    /\ UNCHANGED <<reg, hstat, asked, edge, spc, tgt>>

(* liteco_async_spin reads the status until it is not WORKING ...          *)
SpinRead ==
    /\ lpc = "scan"
    /\ pos <= reg
    /\ hstat[pos] # "WORKING"
    /\ lpc' = "cas"
    /\ UNCHANGED <<reg, hstat, asked, counter, edge, spc, tgt, pos>>

(* ... and only then tries the CAS: a sender may have moved in between.    *)
SpinCasTakes ==
    /\ lpc = "cas"
    /\ hstat[pos] = "DONE"
    /\ hstat' = [hstat EXCEPT ![pos] = "NO_PADDING"]
    /\ asked' = asked \ {pos}
    /\ lpc' = "cb"
    /\ UNCHANGED <<reg, counter, edge, spc, tgt, pos>>

SpinCasFails ==
    /\ lpc = "cas"
    /\ hstat[pos] # "DONE"
    /\ lpc' = "scan"
    /\ pos' = pos + 1
    /\ UNCHANGED <<reg, hstat, asked, counter, edge, spc, tgt>>

(* The callback returns, and the walk goes on after its handler.           *)
CallbackReturns ==
    /\ lpc = "cb"
    /\ spc[Loop] = "idle"
    /\ lpc' = "scan"
    /\ pos' = pos + 1
    /\ UNCHANGED <<reg, hstat, asked, counter, edge, spc, tgt>>

(* End of the walk: async_io_cb returns and the loop polls again.          *)
ScanEnds ==
    /\ lpc = "scan"
    /\ pos > reg
    /\ lpc' = "wait"
    /\ pos' = 1
    /\ UNCHANGED <<reg, hstat, asked, counter, edge, spc, tgt>>

LoopStep ==
    \/ EpollReport
    \/ EventfdRead
    \/ SpinRead
    \/ SpinCasTakes
    \/ SpinCasFails
    \/ CallbackReturns
    \/ ScanEnds

SendStep(s) == SendWrite(s) \/ SendFinish(s)

Next ==
    \/ AsyncInit
    \/ \E s \in Sender, h \in Handler : SendClaim(s, h)
    \/ \E s \in Sender : SendStep(s)
    \/ LoopStep

(* Every thread that has entered a send, and the loop, keep running, and   *)
(* callbacks return; nobody has to send or to initialise a handler.        *)
Fairness ==
    /\ WF_vars(LoopStep)
    /\ \A s \in Sender : WF_vars(SendStep(s))

Spec == Init /\ [][Next]_vars /\ Fairness

-----------------------------------------------------------------------------
(* A sender between its two CASes.                                         *)
Busy(s) == spc[s] # "idle"

(* The eventfd has been written on behalf of h's pending send.             *)
Written(h) ==
    \/ hstat[h] = "DONE"
    \/ \E s \in Sender : spc[s] = "finish" /\ tgt[s] = h

(* The walk in progress has yet to look at h.                              *)
WillVisit(h) ==
    \/ lpc = "scan" /\ pos <= h
    \/ lpc = "cas" /\ pos < h
    \/ lpc = "cas" /\ pos = h /\ hstat[h] = "DONE"
    \/ lpc = "cb" /\ pos < h

(* No send is forgotten.  Once its eventfd write is done, either the       *)
(* eventfd still holds a count that the loop has been or will be told of,  *)
(* or the walk in progress will still reach the handler (lc_eloop.c:57-79, *)
(* where a CAS may fail on a handler claimed after the status was read).   *)
NoLostSend ==
    \A h \in 1..reg :
        Written(h) => \/ counter > 0 /\ (edge = "raised" \/ lpc = "read")
                      \/ WillVisit(h)

(* A claimed handler has exactly one sender, which is between its CASes:   *)
(* the second CAS never fails (lc_async.c:37) and no claim is orphaned.    *)
OneOwner ==
    \A h \in Handler :
        IF hstat[h] = "WORKING"
        THEN \E s \in Sender : /\ Busy(s) /\ tgt[s] = h
                               /\ \A t \in Sender :
                                      Busy(t) /\ tgt[t] = h => t = s
        ELSE \A s \in Sender : Busy(s) => tgt[s] # h

(* The loop never spins on a claim of its own thread, which could not end  *)
(* (lc_eloop.c:88-99): whoever it waits for is another thread.             *)
SpinsOnOthers ==
    lpc \in {"scan", "cas"} /\ pos <= reg /\ hstat[pos] = "WORKING" =>
        \E s \in Thread : Busy(s) /\ tgt[s] = pos

(* The eventfd counter is at most twice the number of handlers, so the     *)
(* retry loop of liteco_eloop_async_send, which the loop thread can be in  *)
(* itself, never meets a full eventfd (lc_eloop.c:81-86).                  *)
EventfdBounded == counter <= 2 * reg

(* The handlers implement the promise of AsyncSpec, liveness included.     *)
A == INSTANCE AsyncSpec WITH requested <- asked
ImplementsAsyncSpec == A!Spec
=============================================================================
