SPECIFICATION MCSpec
CONSTANTS
    None = None
    u1 = u1
    u2 = u2
    u3 = u3
    p1 = p1
    p2 = p2
    x1 = x1
    Request = {r1, r2}
    BoardColumn = {b1, b2}
    Task = {t1, t2, t3}
    BoardLimit = 2
    ListItem = {t1, t2, t3}
    SettingsColumn = {t1, t2, t3}
    Member = {m1, m2}
    ColumnTitle = {1, 2}
    Project = {p1, p2}
    Version = {x1, x2, x3}
    Trashed = {x3}
    CreatedAt <- MCCreatedAt
    ProjectLimit = 1
    Email = {u1, u2, u3}
    Owner = u1
    Name = {m1, m2}
    Notification = {m1, m2}
    InboxLimit = 1
    DatedTask = {m1, m2}
    Title = {x1, x2}
    CalendarDue <- MCCalendarDue
    OpenedOn = {30}
    MonthStarts <- MCMonthStarts
    FirstDay = 2
    MaxEvents = 1
    MyDue <- MCMyDue
    OpenedAt = {25, 26}
    LastTime = 28
    ListLimit = 1
    User = {u1, u2, u3}
    Protected = {u1}
    TableLimit = {1, 2}
    Person = {m1, m2}
    WorkTask = {u1, u2, u3}
    ProjectOf <- MCProjectOf
    Today <- MCToday
    YearLengths <- MCYearLengths
    Top = 1
    Tab = {m1, m2}
    Account = {u1, u2}
SYMMETRY Symmetric
INVARIANTS ProfileSettles AdminSettles BoardSettles TaskSettles SettingsSettle ProjectsSettle SessionSettles NotificationsSettle DatesSettle
CHECK_DEADLOCK FALSE
