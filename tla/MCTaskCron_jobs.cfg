SPECIFICATION MCSpec
CONSTANTS
    Task = {t1}
    User = {u1}
    Request = {r1, r2}
    Mover = r2
    RunsPerDay = 2
    LastDay = 2
    Nobody = Nobody
    NoDay = NoDay
INVARIANTS FlagsSettled DeadlinesAnnounced RemindersBounded
PROPERTIES FlagsBecomeRight
