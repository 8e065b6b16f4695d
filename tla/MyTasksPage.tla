----------------------------- MODULE MyTasksPage -----------------------------
(* The tasks of a user on their page in one tab.  The page asks for the tasks *)
(* assigned to the user, of which it gets the first ones, and with a request  *)
(* of its own for the overdue ones, and shows them all, by a flag the backend *)
(* keeps or by their due dates.  Days are numbered from a Sunday, and time    *)
(* goes in half-days of where the browser is.  A due date is midnight in UTC, *)
(* half a day sooner west of it and half a day later east.                    *)
EXTENDS Integers, FiniteSetsExt

CONSTANTS
    Task, Nothing,
    Due,            \* the days tasks are due
    Opened,         \* half-days the page is opened at
    LastTime,       \* bound: time ends there
    Limit           \* tasks in an answer

VARIABLES
    tasks,          \* in the database: whether they are the user's, due and flagged
    zone, now,
    rendered,       \* when the page was last drawn, in the course of that half-day
    activeFilter, allTasks, overdueTasks, loading, error,
    request,        \* the answers under way
    changed,        \* history: a task changed since the page began to fetch
    missed          \* history: the overdue ones did not arrive

page == <<rendered, activeFilter, allTasks, overdueTasks, loading, error>>
vars == <<tasks, zone, now, page, request, changed, missed>>

Filter == {"All", "Overdue", "Due Today", "Due This Week"}

\* A task that is in the trash is not there.
TaskRow == [there : BOOLEAN, mine : BOOLEAN, due : Due \cup {Nothing}, isOverdue : BOOLEAN]

\* What the page holds are tasks with their due dates.
Rows == UNION {[S -> Due \cup {Nothing}] : S \in SUBSET Task}

Idle == [pc |-> "idle", left |-> {}, all |-> <<>>, overdue |-> <<>>]
Sent == [Idle EXCEPT !.pc = "sent", !.left = {"all", "overdue"}]

TypeOK ==
    /\ tasks \in [Task -> TaskRow]
    /\ zone \in {"west", "UTC", "east"} /\ now \in 0 .. LastTime /\ rendered \in 0 .. now
    /\ activeFilter \in Filter /\ allTasks \in Rows /\ overdueTasks \in Rows
    /\ request.pc \in {"idle", "sent"} /\ request.left \subseteq {"all", "overdue"}
    /\ request.all \in Rows /\ request.overdue \in Rows
    /\ \A b \in {loading, error, changed, missed} : b \in BOOLEAN

Mine == {t \in Task : tasks[t].there /\ tasks[t].mine}
Overdue == {t \in Task : tasks[t].there /\ tasks[t].isOverdue}
RowsOf(S) == [t \in S |-> tasks[t].due]

Init ==
    /\ tasks \in [Task -> TaskRow] /\ zone \in {"west", "UTC", "east"} /\ now \in Opened
    /\ rendered = now /\ activeFilter = "All" /\ allTasks = <<>> /\ overdueTasks = <<>>
    /\ loading = TRUE /\ error = FALSE
    /\ request = Sent /\ changed = FALSE /\ missed = FALSE

------------------------------------------------------------------------------

\* findAll: those the user is assigned to, as many as an answer has.
ServeAll(S) ==
    /\ "all" \in request.left
    /\ S \subseteq Mine /\ Cardinality(S) = Min({Limit, Cardinality(Mine)})
    /\ request' = [request EXCEPT !.left = @ \ {"all"}, !.all = RowsOf(S)]
    /\ UNCHANGED <<tasks, zone, now, page, changed, missed>>

\* getOverdue: those that are flagged in the projects of the user, whoever they
\* are assigned to.
ServeOverdue ==
    /\ "overdue" \in request.left
    /\ request' = [request EXCEPT !.left = @ \ {"overdue"}, !.overdue = RowsOf(Overdue)]
    /\ UNCHANGED <<tasks, zone, now, page, changed, missed>>

\* Without an answer there is none.
MissOverdue ==
    /\ "overdue" \in request.left
    /\ request' = [request EXCEPT !.left = @ \ {"overdue"}]
    /\ missed' = TRUE
    /\ UNCHANGED <<tasks, zone, now, page, changed>>

Land ==
    /\ request.pc = "sent" /\ request.left = {}
    /\ allTasks' = request.all /\ overdueTasks' = request.overdue
    /\ loading' = FALSE /\ rendered' = now /\ request' = Idle
    /\ UNCHANGED <<tasks, zone, now, activeFilter, error, changed, missed>>

Fail ==
    /\ "all" \in request.left
    /\ error' = TRUE /\ loading' = FALSE /\ rendered' = now /\ request' = Idle
    /\ UNCHANGED <<tasks, zone, now, activeFilter, allTasks, overdueTasks, changed, missed>>

\* The button of the error banner.
Retry ==
    /\ error /\ ~loading
    /\ error' = FALSE /\ loading' = TRUE /\ rendered' = now
    /\ request' = Sent /\ changed' = FALSE /\ missed' = FALSE
    /\ UNCHANGED <<tasks, zone, now, activeFilter, allTasks, overdueTasks>>

SetActiveFilter(f) ==
    /\ ~loading /\ f # activeFilter
    /\ activeFilter' = f /\ rendered' = now
    /\ UNCHANGED <<tasks, zone, now, allTasks, overdueTasks, loading, error, request, changed, missed>>

\* Elsewhere, and the clock, which draws nothing.
Change(t, row) ==
    /\ row # tasks[t] /\ tasks' = [tasks EXCEPT ![t] = row]
    /\ changed' = TRUE
    /\ UNCHANGED <<zone, now, page, request, missed>>

Tick ==
    /\ now < LastTime /\ now' = now + 1
    /\ UNCHANGED <<tasks, zone, page, request, changed, missed>>

Next ==
    \/ \E S \in SUBSET Mine : ServeAll(S)
    \/ ServeOverdue \/ MissOverdue \/ Land \/ Fail \/ Retry \/ Tick
    \/ \E f \in Filter : SetActiveFilter(f)
    \/ \E t \in Task, row \in TaskRow : Change(t, row)

Spec == Init /\ [][Next]_vars

------------------------------------------------------------------------------
(* What is drawn.                                                             *)

Midnight(d) == 2 * d
LocalDay(time) == time \div 2
Instant(d) == CASE zone = "west" -> Midnight(d) - 1 [] zone = "UTC" -> Midnight(d) [] zone = "east" -> Midnight(d) + 1

\* getDay: a Sunday ends the week that begins with it only a week later.
EndOfWeek == LET today == LocalDay(rendered) IN Midnight(today + 7 - (today % 7))

Dated(test(_)) == {t \in DOMAIN allTasks : allTasks[t] # Nothing /\ test(Instant(allTasks[t]))}

\* getFilteredTasks.
Filtered(f) ==
    LET today == LocalDay(rendered)
        isToday(time) == LocalDay(time) = today
        isThisWeek(time) == time \in Midnight(today) .. EndOfWeek
    IN CASE f = "Overdue"       -> DOMAIN overdueTasks
         [] f = "Due Today"     -> Dated(isToday)
         [] f = "Due This Week" -> Dated(isThisWeek)
         [] OTHER               -> DOMAIN allTasks

\* isOverdue: the moment has passed, whatever the flag says.
InRed == LET passed(time) == time <= rendered IN Dated(passed)

UpToDate == ~loading /\ ~error /\ ~changed

\* fetchTasks: what is listed is what the user is assigned to, as much of it as
\* an answer has, and what is flagged in their projects unless that answer did
\* not arrive.
ListsAreStored ==
    UpToDate =>
        /\ Filtered("All") \subseteq Mine
        /\ Cardinality(Mine) <= Limit => Filtered("All") = Mine
        /\ ~missed => Filtered("Overdue") = Overdue

\* getFilteredTasks: what is due on the day the page was drawn, and on the rest
\* of its week, is found under both, in every zone and on a Saturday too; none
\* of a day that was over is, and before its own day nothing is drawn in red.
DaysAgree ==
    LET dayOf(t) == LocalDay(Instant(allTasks[t]))
        today == LocalDay(rendered)
    IN /\ Filtered("Due Today") \subseteq Filtered("Due This Week")
       /\ \A t \in DOMAIN allTasks :
             allTasks[t] # Nothing =>
                /\ dayOf(t) \in today .. today + 6 - (today % 7) => t \in Filtered("Due This Week")
                /\ dayOf(t) < today => t \notin Filtered("Due This Week") /\ t \in InRed
                /\ dayOf(t) > today => t \notin InRed

MyTasksSettle == ListsAreStored /\ DaysAgree
=============================================================================
