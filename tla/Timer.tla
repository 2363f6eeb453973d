------------------------------- MODULE Timer --------------------------------
(***************************************************************************)
(* The timers of src/lc_timer.c on the event loops of both platforms.  One *)
(* thread runs the loop, the callbacks of the timers and of the            *)
(* descriptors and so every call on a timer; only the clock goes on by     *)
(* itself, so that a callback may take any time.                           *)
(*                                                                         *)
(* Darwin's loop expires the timers once per pass and waits until the      *)
(* earliest timeout.  Linux's does so after every insertion, and so inside *)
(* the callbacks that insert, and arms a timerfd.  Its heap is never       *)
(* initialised: in memory that was zero it is empty and has no comparison, *)
(* so that it bears one timer and the program ends with the second.        *)
(*                                                                         *)
(* Times are numbers: seconds and fractions are carried and borrowed by    *)
(* the code as in a number, since no difference it takes is negative.      *)
(***************************************************************************)
EXTENDS Integers, Sequences, FiniteSets

CONSTANTS
    Timers, Nil,
    Platforms,          \* of {"darwin", "linux"}
    Delays, Periods,    \* what liteco_timer_start is called with, also 0
    MaxTime     \* bound: the clock stops there

ASSUME TimerAssumption ==
    /\ Nil \notin Timers
    /\ Platforms \subseteq {"darwin", "linux"}
    /\ Delays \subseteq Nat /\ Periods \subseteq Nat
    /\ MaxTime \in Nat

INSTANCE Heap WITH Node <- Timers

VARIABLES
    platform,   \* never changes
    heap,       \* timer_heap
    timeout, interval, active, stop,    \* the fields of each timer
    clock,      \* gettimeofday, or CLOCK_MONOTONIC
    pc,         \* where the loop is
    frames,     \* calls of liteco_eloop_timer_active, which callbacks may call
                \* again: the time given and the timer whose callback it is in
    wake,       \* when kevent gives up; the time of the timerfd, 0 if disarmed
    event,      \* the last wait returned an event of the timerfd
    wanted,     \* history: timers whose program still expects a callback
    displaced   \* history: a timer in the heap got another timeout

fields == <<timeout, interval, active, stop>>
loop == <<pc, frames, wake, event>>
vars == <<platform, heap, fields, loop, clock, wanted, displaced>>

Top == frames[Len(frames)]

Init ==
    /\ platform \in Platforms
    /\ heap = EmptyHeap
    /\ timeout = [t \in Timers |-> 0]
    /\ interval = [t \in Timers |-> 0]
    /\ active = {}
    /\ stop = {}
    /\ clock = 1     \* 0 would disarm a timerfd
    /\ pc = "user"
    /\ frames = <<>>
    /\ wake = 0
    /\ event = FALSE
    /\ wanted = {}
    /\ displaced = FALSE

Tick ==
    /\ pc # "crashed"
    /\ clock < MaxTime
    /\ clock' = clock + 1
    /\ UNCHANGED <<platform, heap, fields, loop, wanted, displaced>>

-----------------------------------------------------------------------------
(* liteco_eloop_timer_add and _remove do nothing to a timer that is, or is *)
(* not, in the heap.  On Linux an insertion goes on to expire timers: it   *)
(* looks at the clock, which may have gone on.  A removal does the same,   *)
(* but leaves Linux's heap of one timer empty.                             *)
Crashes(t) == platform = "linux" /\ t \notin active /\ heap.cnt > 0

Add(t, time, then) ==
    /\ timeout' = [timeout EXCEPT ![t] = time]
    /\ displaced' = (displaced \/ t \in active)
    /\ heap' = IF t \in active THEN heap
               ELSE HeapInsert(NodeInit(heap, t), timeout', t)
    /\ active' = active \cup {t}
    /\ pc' = IF platform = "linux" /\ t \notin active THEN "clock" ELSE then

DiscardKeepsNode(t) ==
    /\ heap' = heap
    /\ timeout' = [timeout EXCEPT ![t] = 0]
    /\ active' = active \ {t}
    /\ displaced' = (displaced /\ heap'.cnt > 0)

(* A timer outside the heap keeps its links and its timeout, which nobody  *)
(* reads before they are set again; they are cleared here so that they do  *)
(* not count.                                                              *)
Discard(t) ==
    /\ heap' = IF t \in active THEN NodeInit(HeapRemove(heap, timeout, t), t) ELSE heap
    /\ timeout' = [timeout EXCEPT ![t] = 0]
    /\ active' = active \ {t}
    /\ displaced' = (displaced /\ heap'.cnt > 0)

(* Calls are made in callbacks and before the loop runs.                   *)
InUserCode == pc \in {"user", "callback"}

Start(t, delay, period) ==
    /\ InUserCode
    /\ ~Crashes(t)
    /\ stop' = stop \ {t}
    /\ interval' = [interval EXCEPT ![t] = period]
    /\ Add(t, clock + (IF delay = 0 THEN period ELSE delay), pc)
    /\ wanted' = wanted \cup {t}
    /\ UNCHANGED <<platform, clock, frames, wake, event>>

Stop(t) ==
    /\ InUserCode
    /\ stop' = stop \cup {t}
    /\ Discard(t)
    /\ wanted' = wanted \ {t}
    /\ UNCHANGED <<platform, interval, clock, loop>>

-----------------------------------------------------------------------------
PassOldClock ==
    /\ platform = "darwin"
    /\ pc = "user"
    /\ frames' = <<[now |-> 0, timer |-> Nil]>>
    /\ pc' = "scan"
    /\ UNCHANGED <<platform, heap, fields, clock, wake, event, wanted, displaced>>

(* A pass of Darwin's liteco_eloop_run: it looks at the clock once,        *)
(* expires what is due, and waits for what is left of that look.           *)
Pass ==
    /\ platform = "darwin"
    /\ pc = "user"
    /\ frames' = <<[now |-> clock, timer |-> Nil]>>
    /\ pc' = "scan"
    /\ UNCHANGED <<platform, heap, fields, clock, wake, event, wanted, displaced>>

DueAtOnce(t) == timeout[t] <= Top.now

Due(t) == timeout[t] < Top.now

Expire ==
    /\ pc = "scan"
    /\ heap.root # Nil
    /\ Due(heap.root)
    /\ Discard(heap.root)
    /\ frames' = [frames EXCEPT ![Len(frames)].timer = heap.root]
    /\ pc' = "callback"
    /\ wanted' = IF interval[heap.root] = 0 THEN wanted \ {heap.root} ELSE wanted
    /\ UNCHANGED <<platform, interval, stop, clock, wake, event>>

RepeatsAnyway == pc = "callback" /\ interval[Top.timer] # 0

(* A callback returns, and the timer is to be inserted again.              *)
Repeats == pc = "callback" /\ interval[Top.timer] # 0 /\ Top.timer \notin stop

CallbackReturns ==
    /\ pc = "callback"
    /\ IF Repeats
       THEN ~Crashes(Top.timer) /\ Add(Top.timer, clock + interval[Top.timer], "scan")
       ELSE pc' = "scan" /\ UNCHANGED <<heap, timeout, active, displaced>>
    /\ frames' = [frames EXCEPT ![Len(frames)].timer = Nil]
    /\ UNCHANGED <<platform, interval, stop, clock, wake, event, wanted>>

(* The second timer of Linux's heap: a call of a null comparison, by a     *)
(* start or by the repetition when a callback returns.                     *)
StartCrashes ==
    /\ InUserCode
    /\ \E t \in Timers : Crashes(t)
    /\ pc' = "crashed"
    /\ UNCHANGED <<platform, heap, fields, frames, wake, event, clock, wanted, displaced>>

RepeatCrashes ==
    /\ Repeats
    /\ Crashes(Top.timer)
    /\ pc' = "crashed"
    /\ UNCHANGED <<platform, heap, fields, frames, wake, event, clock, wanted, displaced>>

(* No timer at all means no waiting at all.                                *)
Wait == IF heap.root = Nil THEN 0 ELSE timeout[heap.root] - Top.now

Scanned == pc = "scan" /\ (heap.root # Nil => ~Due(heap.root))

Sleep ==
    /\ platform = "darwin"
    /\ Scanned
    /\ wake' = clock + Wait
    /\ pc' = "wait"
    /\ UNCHANGED <<platform, heap, fields, clock, frames, event, wanted, displaced>>

(* kevent returns when the time is up, or earlier with events, whose       *)
(* callbacks are user code.                                                *)
Awake ==
    /\ platform = "darwin"
    /\ pc = "wait"
    /\ pc' = "user"
    /\ frames' = <<>> /\ wake' = 0    \* gone with the pass
    /\ UNCHANGED <<platform, heap, fields, clock, event, wanted, displaced>>

(* A wait that goes beyond the bound on the clock ends there.              *)
TimeIsUp == clock >= wake \/ clock = MaxTime

-----------------------------------------------------------------------------
(* Linux: an insertion, or the callback of the timerfd, looks at the clock *)
(* and calls liteco_eloop_timer_active.                                    *)
LookAtClock ==
    /\ pc = "clock"
    /\ frames' = Append(frames, [now |-> clock, timer |-> Nil])
    /\ pc' = "scan"
    /\ UNCHANGED <<platform, heap, fields, clock, wake, event, wanted, displaced>>

ArmNotAgain ==
    /\ platform = "linux"
    /\ Scanned
    /\ wake' = IF heap.root = Nil \/ wake # 0 THEN wake ELSE timeout[heap.root]
    /\ frames' = SubSeq(frames, 1, Len(frames) - 1)
    /\ pc' = IF Len(frames) = 1 THEN "user"
             ELSE IF frames[Len(frames) - 1].timer = Nil THEN "scan" ELSE "callback"
    /\ UNCHANGED <<platform, heap, fields, clock, event, wanted, displaced>>

(* It ends, the timerfd armed for the next timer or as it was, and returns *)
(* to the user code that inserted, or to the call whose callback returned. *)
Arm ==
    /\ platform = "linux"
    /\ Scanned
    /\ wake' = IF heap.root = Nil THEN wake ELSE timeout[heap.root]
    /\ frames' = SubSeq(frames, 1, Len(frames) - 1)
    /\ pc' = IF Len(frames) = 1 THEN "user"
             ELSE IF frames[Len(frames) - 1].timer = Nil THEN "scan" ELSE "callback"
    /\ UNCHANGED <<platform, heap, fields, clock, event, wanted, displaced>>

Expired == wake # 0 /\ clock >= wake

EpollWait ==
    /\ platform = "linux"
    /\ pc = "user" /\ ~event
    /\ pc' = "wait"
    /\ UNCHANGED <<platform, heap, fields, frames, wake, event, clock, wanted, displaced>>

(* epoll_wait returns an event of the timerfd, if there is one, or others. *)
Events ==
    /\ platform = "linux"
    /\ pc = "wait"
    /\ event' = Expired
    /\ pc' = "user"
    /\ UNCHANGED <<platform, heap, fields, frames, wake, clock, wanted, displaced>>

(* liteco_timer_io_cb.  A callback before it may have armed it again: then *)
(* the read returns nothing.                                               *)
TimerIoCb ==
    /\ pc = "user" /\ event
    /\ event' = FALSE
    /\ wake' = IF Expired THEN 0 ELSE wake
    /\ pc' = "clock"
    /\ UNCHANGED <<platform, heap, fields, frames, clock, wanted, displaced>>

-----------------------------------------------------------------------------
Next ==
    \/ Tick
    \/ Pass \/ Expire \/ CallbackReturns \/ Sleep \/ Awake
    \/ LookAtClock \/ Arm \/ EpollWait \/ Events \/ TimerIoCb
    \/ StartCrashes \/ RepeatCrashes
    \/ \E t \in Timers :
        \/ \E delay \in Delays, period \in Periods : Start(t, delay, period)
        \/ Stop(t)

(* Time goes on, callbacks return, and a wait ends when its time comes.    *)
Fairness ==
    /\ WF_vars(Tick)
    /\ WF_vars(Pass) /\ WF_vars(Expire) /\ WF_vars(Sleep)
    /\ WF_vars(CallbackReturns \/ RepeatCrashes)
    /\ WF_vars(Awake /\ TimeIsUp)
    /\ WF_vars(LookAtClock \/ Arm \/ EpollWait \/ TimerIoCb)
    /\ WF_vars(Events /\ Expired)

Spec == Init /\ [][Next]_vars /\ Fairness

-----------------------------------------------------------------------------
(* The heap holds the active timers, each in one place, with links both    *)
(* ways, after every sequence of starts, stops and expirations.            *)
HeapHoldsActive == WellLinked(heap, active)

(* A timer is in the heap from its start until it is stopped or, if it has *)
(* no interval, expires; one with an interval leaves it only while its     *)
(* callback runs.                                                          *)
WantedIsActive ==
    /\ active \subseteq wanted
    /\ wanted \subseteq active \cup {frames[i].timer : i \in 1..Len(frames)}

(* A callback runs only for a timer that was started, was not stopped      *)
(* since, has not had its last callback, and whose time has come.          *)
OnlyWantedRun ==
    [][Len(frames') = Len(frames) =>
         \A i \in 1..Len(frames) :
             frames'[i].timer \notin {frames[i].timer, Nil} =>
                 frames'[i].timer \in wanted /\ timeout[frames'[i].timer] < clock]_vars

(* Unless a timeout was changed in the heap, the loop's wait ends at the   *)
(* earliest timeout; Darwin's up to the time its callbacks took.           *)
SleepsUntilEarliest ==
    pc = "wait" /\ ~displaced =>
        \A t \in active :
            IF platform = "linux" THEN wake # 0 /\ wake <= timeout[t]
            ELSE wake <= timeout[t] + (clock - Top.now)

(* A timer whose time has come gets its callback, or is stopped or started *)
(* again, whatever the callbacks do to other timers.                       *)
DueRuns ==
    \A t \in Timers :
        t \in active /\ timeout[t] < clock ~>
            t \notin active \/ timeout[t] >= clock \/ displaced \/ pc = "crashed"
=============================================================================
