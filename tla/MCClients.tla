------------------------------ MODULE MCClients ------------------------------
(* Instances of the clients' pages, of which a behaviour uses some buttons    *)
(* (scope), sends so many requests (sent) and has a step of other users (did).*)
EXTENDS Clients, TLC

CONSTANTS u1, u2, u3, p1, p2, x1

VARIABLES scope, sent, did

\* The first of three months is a Tuesday.  What is due falls at the borders of
\* their grids, and the page is opened on the last day of a long month.
MCCalendarDue == {-2, -1, 32, 60}
MCMonthStarts == <<0, 31, 59, 90>>

\* Friday and Saturday are days 12 and 13.
MCMyDue == 12 .. 14

\* The second July ends on a day February has not; the June before does not.
MCToday == {[month |-> 18, day |-> 15], [month |-> 19, day |-> 31]}
MCYearLengths == <<31, 28, 31, 30, 31, 30, 31, 31, 30, 31, 30, 31>>
MCProjectOf == u1 :> p1 @@ u2 :> p2 @@ u3 :> p2

\* The second project is the newer one, and the list has room for one.
MCCreatedAt == p1 :> 1 @@ p2 :> 2

------------------------------------------------------------------------------

Active(id) == [id |-> id, active |-> TRUE]

Scopes ==
    [settings |-> {"columns", "members", "info"}, session |-> {"one", "two"},
     calendar |-> {"dates", "title"}, mytasks |-> {"days", "lists"},
     creation |-> {"forms", "members"}, overview |-> {"people", "work"}]

Starts ==
    CASE part = "tables" ->
           rows = IF page = "users"
                  THEN [users |-> <<Active(u2), Active(u1)>>, projects |-> <<Active(p1)>>]
                  ELSE [users |-> <<Active(u2)>>, projects |-> <<Active(p2), Active(p1)>>]
      [] part = "settings" ->
           /\ info.title = 1 /\ info.deadline # "later" /\ Cardinality(held) <= 1 /\ members # <<>>
           /\ \A i \in DOMAIN columns : columns[i].title = 1
      [] part = "calendar" ->
           IF scope = "dates" THEN projectTitle = x1 /\ \E d \in CalendarDue : \A t \in DatedTask : due[t] = d
           ELSE zone = "UTC" /\ \A t \in DatedTask : due[t] = None
      [] part = "mytasks" ->
           \A t \in DatedTask :
               IF scope = "days" THEN tasks[t].there /\ tasks[t].mine /\ ~tasks[t].isOverdue
               ELSE tasks[t].due = None /\ zone = "UTC" /\ now = 25
      [] part = "creation" -> accounts = {u1, u2}
      [] part = "overview" ->
           \A x \in DOMAIN rows :
               IF (scope = "people") # (x \in Person) THEN rows[x] = [state |-> "none", month |-> today.month]
               ELSE /\ x \in Project => rows[x].state = "active"
                    /\ x \notin Person \/ rows[x].state = "none" => rows[x].month = today.month
      [] OTHER -> TRUE

MCInit ==
    /\ Init /\ sent = 1 /\ did = 0
    /\ scope \in IF part \in DOMAIN Scopes THEN Scopes[part] ELSE {"all"}
    /\ Starts

\* A behaviour of the settings edits its form, its columns or its members, and
\* types the form once before it is saved.
Kinds == CASE scope = "columns" -> {"saveColumn", "addColumn", "removeColumn"}
           [] scope = "members" -> {"invite", "members", "removeMember"}
           [] OTHER             -> {"info"}

SettingsInScope ==
    /\ \A r \in Request : requests'[r].kind \in Kinds \cup {"none", "load", "close"}
    /\ scope # "info" => (unsaved' => failed')
    /\ scope # "columns" => renamed' = {} /\ held' = held
    /\ Cardinality(renamed') <= 1
    /\ form' # form => ~unsaved \/ loading
    /\ info'.deadline # "later" /\ form'.deadline # "later"

\* Either one tab visits every page, or both are between the login page and the
\* pages of a user.
TabsInScope ==
    /\ Session!BagCardinality(requests') <= 2
    /\ IF scope = "one"
       THEN /\ \A q \in Session!BagToSet(requests') : q.tab = writer
            /\ \A t \in Tab \ {writer} : tabs'[t] = tabs[t]
       ELSE \A t \in Tab : tabs'[t].page \in {"home", "login", "user"}

\* Tasks lose their due dates, or the title of the project changes.
CalendarInScope ==
    IF scope = "dates"
    THEN projectTitle' = projectTitle /\ ~missed' /\ \A t \in DatedTask : due'[t] \in {due[t], None}
    ELSE due' = due

\* In the overview users come and go, or what they work on.
OverviewInScope ==
    /\ changes' <= IF scope = "people" THEN 2 ELSE 1
    /\ \A x \in DOMAIN rows : (scope = "people") # (x \in Person) => rows'[x] = rows[x]

\* The tasks stay as they are while time goes on, or change on one day: they go,
\* or are flagged or assigned otherwise.
MyTasksInScope ==
    IF scope = "days" THEN tasks' = tasks
    ELSE now' = now /\ \A t \in DatedTask : tasks'[t].due = None /\ (tasks'[t].there => tasks[t].there)

\* Forms list nobody and are sent up to two times, or one is sent that lists up
\* to three.
CreationInScope ==
    IF scope = "forms" THEN listed' = <<>> /\ accounts' = accounts /\ (members' # members => requests' # requests)
    ELSE creating /\ creating' => listed' = listed

InScope ==
    CASE part = "settings" -> SettingsInScope
      [] part = "session"  -> TabsInScope
      [] part = "calendar" -> CalendarInScope
      [] part = "mytasks"  -> MyTasksInScope
      [] part = "creation" -> CreationInScope
      [] part = "overview" -> OverviewInScope
      [] OTHER             -> TRUE

MostSent == [profile |-> 4, tables |-> 4, board |-> 5, task |-> 3, settings |-> 4, projects |-> 4,
             inbox |-> 4, calendar |-> 3, creation |-> 3]
Sending == DOMAIN MostSent

SentInScope ==
    IF part \in Sending
    THEN /\ sent' = sent + (IF \E r \in Request : requests[r].pc # "sent" /\ requests'[r].pc = "sent"
                            THEN 1 ELSE 0)
         /\ sent' <= IF scope = "members" /\ part = "creation" THEN 2 ELSE MostSent[part]
    ELSE sent' = sent

\* The backend's data changed without a request.
OthersDid ==
    CASE part = "board"    -> requests = requests' /\ <<columns, tasks>> # <<columns, tasks>>'
      [] part = "task"     -> requests = requests' /\ <<stored, done, deleted, running>> # <<stored, done, deleted, running>>'
      [] part = "settings" -> requests = requests' /\ <<info, columns, held, members>> # <<info, columns, held, members>>'
      [] part = "calendar" -> requests = requests' /\ <<due, projectTitle>> # <<due, projectTitle>>'
      [] part = "mytasks"  -> tasks # tasks'
      [] part = "creation" -> /\ requests = requests' /\ invitations = invitations'
                              /\ <<accounts, members>> # <<accounts, members>>'
      [] OTHER             -> FALSE

MCNext ==
    /\ Next /\ InScope /\ UNCHANGED scope
    /\ SentInScope
    /\ did' = IF OthersDid THEN did + 1 ELSE did
    /\ did' <= 1

MCSpec == MCInit /\ [][MCNext]_<<vars, scope, sent, did>>

Symmetric == Permutations(Request) \cup Permutations(ListItem) \cup Permutations(Tab)
=============================================================================
