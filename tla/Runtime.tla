------------------------------ MODULE Runtime ------------------------------
(***************************************************************************)
(* Coroutines and the runtime that schedules them on the thread of an      *)
(* event loop (src/lc_coroutine.c, src/lc_runtime.c).                      *)
(*                                                                         *)
(* The runtime is one asynchronous handler of the loop.  Its callback pops *)
(* the ready queue until it is empty, resuming each coroutine; those that  *)
(* come back READY are kept in a list of the callback's own and put back   *)
(* into the ready queue when the callback ends.                            *)
(*                                                                         *)
(* This module has the steps of the loop's thread and the operator every   *)
(* waker uses, JoinRuntime.  Modules that extend it say what a coroutine   *)
(* does while it runs.                                                     *)
(***************************************************************************)
EXTENDS Naturals, Sequences

CONSTANTS
    Co,      \* coroutines
    Hdl,     \* callbacks of other sources on the same loop: timers, sockets
    None,    \* no coroutine
    Mallocs  \* what malloc may do: a subset of {"ok", "fails"}

ASSUME RuntimeAssumption ==
    /\ None \notin Co \cup Hdl
    /\ Co \cap Hdl = {}
    /\ Mallocs \subseteq {"ok", "fails"}

VARIABLES
    status,   \* liteco_status_t of each coroutine
    rq,       \* the runtime's ready queue
    yielded,  \* the running callback's own list, the local rq
    async,    \* status of the handler: "NO_PADDING" or "DONE" (see Async)
    loop,     \* where the loop's thread is
    cur       \* what it resumes or runs

rtvars == <<status, rq, yielded, async, loop, cur>>

Status == {"STARTING", "READY", "RUNNING", "WAITING", "TERMINATE"}

(* "poll" is epoll_wait; "run" is code of the coroutine or callback cur;   *)
(* "flush" is the end of the callback, which holds the runtime's mutex.    *)
LoopPc == {"poll", "pop", "resume", "run", "resumed", "flush"}

RuntimeTypeOK ==
    /\ status \in [Co -> Status]
    /\ rq \in Seq(Co)
    /\ yielded \in Seq(Co)
    /\ async \in {"NO_PADDING", "DONE"}
    /\ loop \in LoopPc
    /\ cur \in Co \cup Hdl \cup {None}

RuntimeInit ==
    /\ status = [c \in Co |-> "STARTING"]
    /\ rq = <<>>
    /\ yielded = <<>>
    /\ async = "NO_PADDING"
    /\ loop = "poll"
    /\ cur = None

InQueue(c, q) == \E i \in 1..Len(q) : q[i] = c

(* Faulty variants of JoinRuntime, Resumed and FlushEnd: the send left out  *)
(* of each, and a waiting coroutine kept in the callback's list.           *)
JoinRuntimeNoSend(c, malloc) ==
    /\ loop # "flush"
    /\ rq' = IF InQueue(c, rq) \/ malloc = "fails" THEN rq ELSE Append(rq, c)
    /\ UNCHANGED async

ResumedKeepsWaiting ==
    /\ loop = "resumed"
    /\ yielded' = IF status[cur] = "TERMINATE" THEN yielded ELSE Append(yielded, cur)
    /\ loop' = "pop"
    /\ cur' = None
    /\ UNCHANGED <<status, rq, async>>

FlushEndNoSend ==
    /\ loop = "flush"
    /\ yielded = <<>>
    /\ loop' = "poll"
    /\ UNCHANGED <<status, rq, yielded, async, cur>>

(* liteco_runtime_join, in one step: the runtime's mutex is held from the  *)
(* search to the send.  A coroutine already queued is not queued again.    *)
JoinRuntime(c, malloc) ==
    /\ loop # "flush"
    /\ IF InQueue(c, rq) \/ malloc = "fails"
       THEN UNCHANGED <<rq, async>>
       ELSE /\ rq' = Append(rq, c)
            /\ async' = "DONE"

-----------------------------------------------------------------------------
(* The loop serves the handler: liteco_runtime_cb starts.                  *)
Callback ==
    /\ loop = "poll"
    /\ async = "DONE"
    /\ async' = "NO_PADDING"
    /\ loop' = "pop"
    /\ UNCHANGED <<status, rq, yielded, cur>>

(* liteco_runtime_pop; on NULL the callback goes on with the mutex taken.  *)
Pop ==
    /\ loop = "pop"
    /\ IF rq = <<>>
       THEN loop' = "flush" /\ UNCHANGED <<rq, cur>>
       ELSE loop' = "resume" /\ cur' = Head(rq) /\ rq' = Tail(rq)
    /\ UNCHANGED <<status, yielded, async>>

(* liteco_resume.  A coroutine that is neither STARTING nor READY nor      *)
(* TERMINATE keeps the loop's thread in liteco_set_status: no step here.   *)
Resume ==
    /\ loop = "resume"
    /\ status[cur] \in {"STARTING", "READY"}
    /\ status' = [status EXCEPT ![cur] = "RUNNING"]
    /\ loop' = "run"
    /\ UNCHANGED <<rq, yielded, async, cur>>

ResumeTerminated ==
    /\ loop = "resume"
    /\ status[cur] = "TERMINATE"
    /\ loop' = "pop"
    /\ cur' = None
    /\ UNCHANGED <<status, rq, yielded, async>>

(* liteco_yield by the running coroutine, up to the context switch.  The   *)
(* code before it may have made the status WAITING or TERMINATE.           *)
SwapOut(st) ==
    /\ loop' = "resumed"
    /\ status' = [status EXCEPT ![cur] = IF st = "RUNNING" THEN "READY" ELSE st]
    /\ UNCHANGED <<rq, yielded, async, cur>>

(* Back in liteco_runtime_cb after liteco_resume.                          *)
Resumed ==
    /\ loop = "resumed"
    /\ yielded' = IF status[cur] = "READY" THEN Append(yielded, cur) ELSE yielded
    /\ loop' = "pop"
    /\ cur' = None
    /\ UNCHANGED <<status, rq, async>>

(* The end of the callback, one list entry per step; the mutex keeps every *)
(* JoinRuntime out until the send at the end.                              *)
FlushOne ==
    /\ loop = "flush"
    /\ yielded # <<>>
    /\ yielded' = Tail(yielded)
    /\ rq' = IF InQueue(Head(yielded), rq) THEN rq ELSE Append(rq, Head(yielded))
    /\ UNCHANGED <<status, async, loop, cur>>

FlushEnd ==
    /\ loop = "flush"
    /\ yielded = <<>>
    /\ async' = "DONE"
    /\ loop' = "poll"
    /\ UNCHANGED <<status, rq, yielded, cur>>

(* A callback of another source of the loop starts and returns.            *)
HandlerEnters(h) ==
    /\ loop = "poll"
    /\ loop' = "run"
    /\ cur' = h
    /\ UNCHANGED <<status, rq, yielded, async>>

HandlerReturns(h) ==
    /\ loop = "run"
    /\ cur = h
    /\ loop' = "poll"
    /\ cur' = None
    /\ UNCHANGED <<status, rq, yielded, async>>

LoopStep ==
    \/ Callback
    \/ Pop
    \/ Resume
    \/ ResumeTerminated
    \/ Resumed
    \/ FlushOne
    \/ FlushEnd
=============================================================================
