\* As MCChannelLoop, with two coroutines, and malloc may fail.
CONSTANTS
    Co = {a, b}
    Hdl = {timer}
    Thr = {}
    None = None
    Mallocs = {"ok", "fails"}
    Chan = {ch1}
    Cap <- OneElement
    CallsOf <- CallsOfMost
    Budget = 2
SPECIFICATION Spec
INVARIANT SleepersRecorded
CHECK_DEADLOCK FALSE
