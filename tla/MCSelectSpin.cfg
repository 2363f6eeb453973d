\* As MCSelect: whom a stale waiter of the select makes its taker wait for.
CONSTANTS
    k = k
    l = l
    s = s
    Co = {s, a}
    Hdl = {timer}
    Thr = {}
    None = None
    Mallocs = {"ok"}
    Chan = {k, l}
    Cap <- OneElement
    CallsOf <- CallsOfOthers
    SelectsOf <- OneSelector
    Budget = 2
SPECIFICATION SelectSpec
INVARIANT WakesOnlyWaiting
CHECK_DEADLOCK FALSE
