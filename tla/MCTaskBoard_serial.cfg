SPECIFICATION Spec
CONSTANTS
    todo = todo
    done = done
    elsewhere = elsewhere
    home = home
    away = away
    Task = {t1}
    Column = {todo, done, elsewhere}
    Project = {home, away}
    User = {u1}
    Request = {r1}
    ProjectOf <- MCProjectOf
    InitialColumns = {todo, elsewhere}
    DoneColumns = {elsewhere}
    Kinds <- AllKinds
    CanAbort = TRUE
    NoTask = NoTask
    NoColumn = NoColumn
    NoProject = NoProject
    Nobody = Nobody
SYMMETRY Symmetric
INVARIANTS RecountsSettle DeletedStaysDeleted NoTaskWithoutColumn
PROPERTY EditsItsOwnColumns
ACTION_CONSTRAINT EditsAtHome
