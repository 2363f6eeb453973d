\* Two coroutines and a thread on a channel without a buffer.
CONSTANTS
    Co = {a, b}
    Hdl = {}
    Thr = {t}
    None = None
    Mallocs = {"ok"}
    Chan = {ch1}
    Cap <- NoBuffer
    CallsOf <- CallsOfAll
    Budget = 2
SPECIFICATION Spec
INVARIANT WaitersNotResumed
CHECK_DEADLOCK FALSE
