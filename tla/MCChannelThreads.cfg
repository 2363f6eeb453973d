\* Two coroutines on the loop and a thread of its own, on a channel without a
\* buffer.  The loop may stop for good: see WaitersNotResumed.
CONSTANTS
    Co = {a, b}
    Hdl = {}
    Thr = {t}
    None = None
    Mallocs = {"ok"}
    Chan = {ch1}
    Cap <- NoBuffer
    CallsOf <- CallsOfAll
    Budget = 2
SYMMETRY Coroutines
SPECIFICATION Spec
INVARIANT SleepersRecorded
INVARIANT NoLostRunnable
INVARIANT NothingLost
CHECK_DEADLOCK FALSE
