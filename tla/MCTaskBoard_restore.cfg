SPECIFICATION Spec
CONSTANTS
    todo = todo
    done = done
    elsewhere = elsewhere
    home = home
    away = away
    Task = {t1}
    Column = {todo, done}
    Project = {home}
    User = {u1}
    Request = {r1}
    ProjectOf <- MCProjectOf
    InitialColumns = {todo, done}
    DoneColumns = {done}
    Kinds <- TrashKinds
    CanAbort = FALSE
    NoTask = NoTask
    NoColumn = NoColumn
    NoProject = NoProject
    Nobody = Nobody
SYMMETRY Symmetric
INVARIANTS RestoreFindsTrash
