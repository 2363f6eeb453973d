\* One thread: two coroutines and a timer callback on a channel of one.
CONSTANTS
    Co = {a, b}
    Hdl = {timer}
    Thr = {}
    None = None
    Mallocs = {"ok"}
    Chan = {ch1}
    Cap <- OneElement
    CallsOf <- CallsOfMost
    Budget = 2
SPECIFICATION Spec
PROPERTY ReadyRuns
PROPERTY CloseReleases
