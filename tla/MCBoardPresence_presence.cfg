SPECIFICATION MCSpec
CONSTANTS
    a1 = a1
    a2 = a2
    b1 = b1
    ua = ua
    ub = ub
    p1 = p1
    p2 = p2
    todo = todo
    other = other
    User = {ua, ub}
    Socket = {a1, a2, b1}
    Project = {p1, p2}
    Column = {todo, other}
    Task = {t1}
    Request = {r1, r2}
    UserOf <- MCUserOf
    ProjectOf <- MCProjectOf
    Off = Off
SYMMETRY Symmetry
INVARIANTS MapIsRooms SeenArePresent ShownIsStored
