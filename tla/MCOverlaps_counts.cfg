SPECIFICATION MCSpec
CONSTANTS
    todo = todo
    done = done
    elsewhere = elsewhere
    home = home
    away = away
    Task = {t1, t2}
    Column = {todo, done}
    Project = {home}
    User = {u1}
    Request = {r1, r2}
    ProjectOf <- MCProjectOf
    InitialColumns = {todo, done}
    DoneColumns = {done}
    Kinds <- OverlappingKinds
    CanAbort = TRUE
    NoTask = NoTask
    NoColumn = NoColumn
    NoProject = NoProject
    Nobody = Nobody
SYMMETRY Symmetric
INVARIANTS CountedIsExact AnsweredTasksPersist
