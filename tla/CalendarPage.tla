----------------------------- MODULE CalendarPage -----------------------------
(* The calendar of a user in one tab: the page shows a month or a week, and   *)
(* fetches the tasks that are due in it, of all projects, together with the   *)
(* title of the project it was opened for.  Days are numbered from the first  *)
(* of the first month.  A due date is a date without a zone, which the        *)
(* browser reads as midnight in UTC; the dates it asks for are those of its   *)
(* local days in UTC.                                                         *)
EXTENDS Integers, Sequences, FiniteSets

CONSTANTS
    Task, Title, Request, Nothing,
    Due,         \* the days tasks are due
    Opened,      \* the days the page is opened
    StartOf,     \* the first days of the months, and of the one after them
    FirstDay,    \* weekday of day 0, a Sunday is 0
    MaxEvents    \* tasks of a day that a month shows

VARIABLES
    due, projectTitle,             \* in the database
    zone,                          \* where the browser is
    early,                         \* the date in UTC is not the local date when the page is opened
    currentDate, viewMode,
    calendarTasks, title,
    loading, error,
    requests,
    latest,                        \* the fetch the page sent last, until its answer arrives
    stale,                         \* history: a fetch was overtaken by a later one
    changed,                       \* history: something changed since the page last fetched
    missed                         \* history: the title did not arrive

database == <<due, projectTitle>>
place == <<zone, early>>
page == <<currentDate, viewMode, calendarTasks, title, loading, error>>
history == <<latest, stale, changed, missed>>
vars == <<database, place, page, requests, history>>

Months == 1 .. Len(StartOf) - 1
Days == StartOf[1] .. StartOf[Len(StartOf)] - 1
MonthOf(n) == CHOOSE m \in Months : n \in StartOf[m] .. StartOf[m + 1] - 1
GetDay(n) == (n + FirstDay) % 7

Idle == [pc |-> "idle", from |-> 0, to |-> 0, rows |-> <<>>, title |-> Nothing, left |-> {}]

\* Rows are tasks with their due dates.
Rows == UNION {[S -> Due] : S \in SUBSET Task}

TypeOK ==
    /\ due \in [Task -> Due \cup {Nothing}] /\ projectTitle \in Title
    /\ zone \in {"west", "UTC", "east"} /\ early \in BOOLEAN
    /\ currentDate \in Days /\ viewMode \in {"Month", "Week"}
    /\ calendarTasks \in Rows /\ title \in Title \cup {Nothing}
    /\ \A b \in {loading, error, stale, changed, missed} : b \in BOOLEAN
    /\ latest \in Request \cup {Nothing}
    /\ \A r \in Request :
        /\ requests[r].pc \in {"idle", "sent"} /\ requests[r].from - 1 \in -8 .. requests[r].to + 1
        /\ requests[r].rows \in Rows /\ requests[r].title \in Title \cup {Nothing}
        /\ requests[r].left \subseteq {"tasks", "project"}

------------------------------------------------------------------------------
(* Dates.                                                                     *)

\* The grid: whole weeks, from a Sunday to a Saturday.
WeekOf(n) == n - GetDay(n) .. n - GetDay(n) + 6

Grid(n, mode) ==
    LET m == MonthOf(n)
        last == StartOf[m + 1] - 1
    IN IF mode = "Week" THEN WeekOf(n)
       ELSE StartOf[m] - GetDay(StartOf[m]) .. last + 6 - GetDay(last)

FirstOf(days) == CHOOSE d \in days : \A e \in days : d <= e
LastOf(days) == CHOOSE d \in days : \A e \in days : e <= d

\* toISOString of a local midnight, which the month uses, and of the time of
\* day the page was opened, which the week uses.
InUTC(n, mode) ==
    CASE zone = "east" /\ (mode = "Month" \/ early) -> n - 1
      [] zone = "west" /\ mode = "Week" /\ early    -> n + 1
      [] OTHER                                      -> n

\* The local day of midnight in UTC.
ShownOn(d) == IF zone = "west" THEN d - 1 ELSE d

\* setMonth keeps the day of the month, and so may run over into the next one.
NextDate(n, mode, direction) ==
    LET m == MonthOf(n)
    IN IF mode = "Week" THEN n + 7 * direction
       ELSE StartOf[m + direction] + n - StartOf[m]

------------------------------------------------------------------------------
(* fetchCalendarData: at the start, and whenever the range changes.           *)

Fetch(r, base, n, mode) ==
    LET days == Grid(n, mode)
    IN /\ base[r].pc = "idle"
       /\ requests' = [base EXCEPT ![r] =
              [Idle EXCEPT !.pc = "sent", !.from = InUTC(FirstOf(days), mode),
                           !.to = InUTC(LastOf(days), mode), !.left = {"tasks", "project"}]]
       /\ loading' = TRUE /\ error' = FALSE
       /\ latest' = r /\ stale' = FALSE /\ changed' = FALSE /\ missed' = FALSE

Init ==
    /\ due \in [Task -> Due \cup {Nothing}] /\ projectTitle \in Title
    /\ zone \in {"west", "UTC", "east"} /\ early \in (IF zone = "UTC" THEN {FALSE} ELSE BOOLEAN)
    /\ currentDate \in Opened /\ viewMode = "Month"
    /\ calendarTasks = <<>> /\ title = Nothing
    /\ loading = TRUE /\ error = FALSE
    /\ latest \in Request /\ stale = FALSE /\ changed = FALSE /\ missed = FALSE
    /\ requests = [r \in Request |->
           IF r # latest THEN Idle
           ELSE LET days == Grid(currentDate, "Month")
                IN [Idle EXCEPT !.pc = "sent", !.from = InUTC(FirstOf(days), "Month"),
                                !.to = InUTC(LastOf(days), "Month"), !.left = {"tasks", "project"}]]

\* The arrows work while a fetch is under way.
NavigateMonth(r, direction) ==
    /\ viewMode = "Month" => MonthOf(currentDate) + direction \in Months
    /\ NextDate(currentDate, viewMode, direction) \in Days
    /\ currentDate' = NextDate(currentDate, viewMode, direction)
    /\ Fetch(r, requests, currentDate', viewMode)
    /\ UNCHANGED <<database, place, viewMode, calendarTasks, title>>

SetViewMode(r, mode) ==
    /\ mode # viewMode /\ viewMode' = mode
    /\ Fetch(r, requests, currentDate, mode)
    /\ UNCHANGED <<database, place, currentDate, calendarTasks, title>>

\* The button of the error banner.
Retry(r) ==
    /\ error
    /\ Fetch(r, requests, currentDate, viewMode)
    /\ UNCHANGED <<database, place, currentDate, viewMode, calendarTasks, title>>

\* getCalendar: the project it is sent for plays no part.
\* A plausible error in the operator that follows, which no definition uses.
GetCalendar_before(r) ==
    LET q == requests[r]
    IN /\ "tasks" \in q.left
       /\ requests' = [requests EXCEPT
              ![r].left = @ \ {"tasks"},
              ![r].rows = [t \in {t \in Task : due[t] # Nothing /\ q.from <= due[t] /\ due[t] < q.to} |-> due[t]]]
       /\ UNCHANGED <<database, place, page, history>>

GetCalendar(r) ==
    LET q == requests[r]
    IN /\ "tasks" \in q.left
       /\ requests' = [requests EXCEPT
              ![r].left = @ \ {"tasks"},
              ![r].rows = [t \in {t \in Task : due[t] # Nothing /\ due[t] \in q.from .. q.to} |-> due[t]]]
       /\ UNCHANGED <<database, place, page, history>>

GetProjectById(r) ==
    /\ "project" \in requests[r].left
    /\ requests' = [requests EXCEPT ![r].left = @ \ {"project"}, ![r].title = projectTitle]
    /\ UNCHANGED <<database, place, page, history>>

\* Without the project the page keeps the title it has.
MissProject(r) ==
    /\ "project" \in requests[r].left
    /\ requests' = [requests EXCEPT ![r].left = @ \ {"project"}]
    /\ missed' = TRUE
    /\ UNCHANGED <<database, place, page, latest, stale, changed>>

Ended(r) ==
    /\ requests' = [requests EXCEPT ![r] = Idle]
    /\ loading' = FALSE
    /\ latest' = IF latest = r THEN Nothing ELSE latest
    /\ stale' = IF latest = r THEN FALSE ELSE stale \/ latest = Nothing

\* Nothing compares the answer with the range the page shows by now.
Land(r) ==
    LET q == requests[r]
    IN /\ q.pc = "sent" /\ q.left = {}
       /\ calendarTasks' = q.rows
       /\ title' = IF q.title # Nothing THEN q.title ELSE title
       /\ Ended(r)
       /\ UNCHANGED <<database, place, currentDate, viewMode, error, changed, missed>>

Fail(r) ==
    /\ requests[r].pc = "sent"
    /\ error' = TRUE
    /\ Ended(r)
    /\ UNCHANGED <<database, place, currentDate, viewMode, calendarTasks, title, changed, missed>>

\* Elsewhere: a due date or the title changes.
Elsewhere ==
    /\ \/ \E t \in Task, d \in Due \cup {Nothing} :
            due[t] # d /\ due' = [due EXCEPT ![t] = d] /\ UNCHANGED projectTitle
       \/ \E x \in Title \ {projectTitle} : projectTitle' = x /\ UNCHANGED due
    /\ changed' = TRUE
    /\ UNCHANGED <<place, page, requests, latest, stale, missed>>

Next ==
    \/ Elsewhere
    \/ \E r \in Request :
        \/ \E direction \in {-1, 1} : NavigateMonth(r, direction)
        \/ \E mode \in {"Month", "Week"} : SetViewMode(r, mode)
        \/ Retry(r) \/ GetCalendar(r) \/ GetProjectById(r) \/ MissProject(r) \/ Land(r) \/ Fail(r)

Spec == Init /\ [][Next]_vars

------------------------------------------------------------------------------
(* What the grid shows.                                                       *)

OfDay(n) == {t \in DOMAIN calendarTasks : ShownOn(calendarTasks[t]) = n}

\* calendarDays: events and hasMore of a cell.
Cells ==
    [n \in Grid(currentDate, viewMode) |->
        LET fit == IF viewMode = "Month" THEN MaxEvents ELSE Cardinality(Task)
            events == Cardinality(OfDay(n))
        IN [events |-> IF events <= fit THEN events ELSE fit,
            hasMore |-> IF events <= fit THEN 0 ELSE events - fit]]

AtRest == ~loading /\ ~error /\ \A r \in Request : requests[r].pc = "idle"
UpToDate == AtRest /\ ~stale /\ ~changed

\* The last day of the grid is asked for where its date in UTC is the right one.
LastIsAskedFor == zone = "UTC" \/ (viewMode = "Week" /\ (zone = "west" <=> early))

\* dateRange, calendarDays: at rest every day of the grid counts the tasks whose
\* due date the browser reads as that day, whatever the zone and the time of
\* day, also when a month was run over, unless a due date changed since the page
\* last fetched or its answer was overtaken.  The last day may be left out.
DaysAreComplete ==
    UpToDate =>
        \A n \in Grid(currentDate, viewMode) :
            n # LastOf(Grid(currentDate, viewMode)) \/ LastIsAskedFor =>
                Cells[n].events + Cells[n].hasMore
                    = Cardinality({t \in Task : due[t] # Nothing /\ ShownOn(due[t]) = n})

\* The header shows the title of the project, unless it did not arrive.
TitleIsShown == UpToDate /\ ~missed => title = projectTitle

CalendarSettles == DaysAreComplete /\ TitleIsShown
=============================================================================
