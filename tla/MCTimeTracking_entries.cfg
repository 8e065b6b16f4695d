\* Two users, one task, two entries, two requests at a time.
CONSTANTS
    Entry = {e1, e2}
    Task = {t1}
    User = {u1, u2}
    Request = {r1, r2}
    Durations = {1}
    TicksPerSecond = 2
    MaxClock = 2
    CanAbort = TRUE
    Never = Never
    NoEntry = NoEntry
    NoTask = NoTask
    NoUser = NoUser
SYMMETRY Symmetry
SPECIFICATION Spec
INVARIANTS OneTimerPerUser LoggedSettles
PROPERTIES OnlyItsUserChanges StoppedForGood
