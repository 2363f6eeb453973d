\* Three timers: the fewest for which a removal has to choose between two
\* children. A timer of delay 0 and period 0 is due at the next tick.
CONSTANTS
    Timers = {a, b, c}
    Nil = none
    Delays = {0, 1}
    Periods = {0, 2}
    Platforms = {"darwin", "linux"}
    MaxTime = 4
SPECIFICATION Spec
INVARIANT HeapHoldsActive
INVARIANT WantedIsActive
INVARIANT SleepsUntilEarliest
PROPERTY OnlyWantedRun
PROPERTY DueRuns
CHECK_DEADLOCK FALSE
