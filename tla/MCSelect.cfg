\* A coroutine that selects, one that calls and the callback of a timer, on
\* two channels with and without a buffer.
CONSTANTS
    k = k
    l = l
    s = s
    Co = {s, a}
    Hdl = {timer}
    Thr = {}
    None = None
    Mallocs = {"ok"}
    Chan = {k, l}
    Cap <- OneElement
    CallsOf <- CallsOfOthers
    SelectsOf <- OneSelector
    Budget = 2
SPECIFICATION SelectSpec
INVARIANT NoDanglingWaiter
INVARIANT OneCase
INVARIANT DeliveredOnce
INVARIANT NothingLost
INVARIANT SleepersRecorded
CHECK_DEADLOCK FALSE
