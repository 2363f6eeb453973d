\* The loop's thread alone: three coroutines and the callback of a timer on a
\* channel with a buffer of one element.
CONSTANTS
    Co = {a, b, c}
    Hdl = {timer}
    Thr = {}
    None = None
    Mallocs = {"ok"}
    Chan = {ch1}
    Cap <- OneElement
    CallsOf <- CallsOfMost
    Budget = 2
SYMMETRY Coroutines
SPECIFICATION Spec
INVARIANT TypeOK
INVARIANT NoStranded
INVARIANT WakesOnlyWaiting
INVARIANT SleepersRecorded
INVARIANT NoLostRunnable
INVARIANT OnlyRunnableQueued
INVARIANT DeliveredOnce
INVARIANT NothingLost
