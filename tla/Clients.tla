------------------------------- MODULE Clients -------------------------------
(***************************************************************************)
(* The pages of the two web clients side by side, each with the answers of  *)
(* the backend to it.  A behaviour is of one page, or of pages that share a *)
(* slice of the store; it leaves what the others keep at 0.  Variables of   *)
(* several pages are what a page calls by the name.                         *)
(***************************************************************************)
EXTENDS Integers, Sequences, FiniteSets

CONSTANTS
    None,                                        \* nothing, nobody, no page
    Request,                                     \* slots for requests in flight
    BoardColumn, Task, BoardLimit,
    ListItem,
    SettingsColumn, Member, ColumnTitle,
    Project, Version, Trashed, CreatedAt, ProjectLimit,
    Email, Owner,
    Name,
    Notification, InboxLimit,
    DatedTask, Title, CalendarDue, OpenedOn, MonthStarts, FirstDay, MaxEvents,
    MyDue, OpenedAt, LastTime, ListLimit,
    User, Protected, TableLimit,
    Person, WorkTask, ProjectOf, Today, YearLengths, Top,
    Tab, Account

VARIABLES
    part,            \* the page a behaviour is of
    columns, tasks, shown, loading, error, adding, creating, requests, changed, crossed,
    missed, stored, open, astray, members, form, listed, busy, failed, page, late, zone,
    request, rows,
    overlapped, been,
    done, deleted, running, ticked, loaded, toggling, deleting, doneAtRead, differs,
    info, held, removing, unheard, unsaved, renamed, together,
    data, projects, dashboard, strayed,
    accounts, place, invitations, made, gaveUp, dismissed, invited, cut,
    name, profile, saving, timer, current, lost, sentSince, overtaken,
    inbox, isRead, markingAll, marking, store,
    due, projectTitle, early, currentDate, viewMode, calendarTasks, title, latest, stale,
    now, rendered, activeFilter, allTasks, overdueTasks,
    query, drawer, youngest, unseen, shrunk,
    today, stats, changes,
    cookie, tabs, moved, writer

Board == INSTANCE BoardPage WITH Column <- BoardColumn, Limit <- BoardLimit, Nowhere <- None
OneTask == INSTANCE TaskPage WITH Item <- ListItem, Nothing <- None
Settings == INSTANCE SettingsPage WITH Column <- SettingsColumn, Title <- ColumnTitle
Projects == INSTANCE ProjectPages WITH Limit <- ProjectLimit
Creation == INSTANCE ProjectCreation WITH Nothing <- None
Profile == INSTANCE ProfilePages WITH NoProfile <- None
Inbox == INSTANCE NotificationsPage WITH Limit <- InboxLimit, Nothing <- None
Calendar == INSTANCE CalendarPage WITH Task <- DatedTask, Due <- CalendarDue, Opened <- OpenedOn,
                                       StartOf <- MonthStarts, Nothing <- None
MyTasks == INSTANCE MyTasksPage WITH Task <- DatedTask, Due <- MyDue, Opened <- OpenedAt,
                                     Limit <- ListLimit, Nothing <- None
Tables == INSTANCE AdminTables WITH Limit <- TableLimit, Nothing <- None
Overview == INSTANCE AdminOverview WITH User <- Person, Task <- WorkTask, Lengths <- YearLengths,
                                        Nothing <- None
Session == INSTANCE ClientSession WITH User <- Account, Nobody <- None

ASSUME ClientsAssumption ==
    /\ InboxLimit \in Nat /\ IsFiniteSet(Notification) /\ None \notin Notification
    /\ None \notin Request /\ "list" \notin Project /\ None \notin Project \cup {"list"}
    /\ CreatedAt \in [Project -> Int] /\ ProjectLimit \in Nat
    /\ Owner \in Email /\ None \notin Name /\ None \notin ListItem
    /\ IsFiniteSet(BoardColumn) /\ BoardLimit \in Nat
    /\ CalendarDue \subseteq Int /\ None \notin Title /\ FirstDay \in Int /\ MaxEvents \in Nat
    /\ MonthStarts \in Seq(Int) /\ MonthStarts # <<>>
    /\ OpenedOn \subseteq Calendar!Days
    /\ \A n \in Calendar!Days : \E m \in Calendar!Months : n \in MonthStarts[m] .. MonthStarts[m + 1] - 1
    /\ IsFiniteSet(DatedTask) /\ MyDue \subseteq Int /\ OpenedAt \subseteq Int /\ ListLimit \in Nat
    /\ TableLimit \subseteq Nat \ {0} /\ \E l \in TableLimit : \A k \in TableLimit : l <= k
    /\ IsFiniteSet(Person) /\ IsFiniteSet(Project) /\ IsFiniteSet(WorkTask) /\ Top \in Nat
    /\ \A d \in Today : d.month \in Int

Pages == {"board", "task", "settings", "projects", "creation", "profile", "inbox", "calendar",
          "mytasks", "tables", "overview", "session"}

\* What one page keeps, and what several keep.
boardOwn == <<overlapped, been>>
taskOwn == <<done, deleted, running, ticked, loaded, toggling, deleting, doneAtRead,
             differs>>
settingsOwn == <<info, held, removing, unheard, unsaved, renamed, together>>
projectsOwn == <<data, projects, dashboard, strayed>>
creationOwn == <<accounts, place, invitations, made, gaveUp, dismissed, invited, cut>>
profileOwn == <<name, profile, saving, timer, current, lost, sentSince, overtaken>>
inboxOwn == <<inbox, isRead, markingAll, marking, store>>
calendarOwn == <<due, projectTitle, early, currentDate, viewMode, calendarTasks, title,
                 latest, stale>>
mytasksOwn == <<now, rendered, activeFilter, allTasks, overdueTasks>>
tablesOwn == <<query, drawer, youngest, unseen, shrunk>>
overviewOwn == <<today, stats, changes>>
sessionOwn == <<cookie, tabs, moved, writer>>
common == <<columns, tasks, shown, loading, error, adding, creating, requests, changed,
            crossed, missed, stored, open, astray, members, form, listed, busy, failed, page,
            late, zone, request, rows>>
vars == <<part, common, boardOwn, taskOwn, settingsOwn, projectsOwn, creationOwn,
          profileOwn, inboxOwn, calendarOwn, mytasksOwn, tablesOwn, overviewOwn, sessionOwn>>

\* P holds of a page that is none of these.
Outside(pages, P) == IF part \in pages THEN TRUE ELSE P

Init ==
    /\ \/ part = "board" /\ Board!Init
       \/ part = "task" /\ OneTask!Init
       \/ part = "settings" /\ Settings!Init
       \/ part = "projects" /\ Projects!Init
       \/ part = "creation" /\ Creation!Init
       \/ part = "profile" /\ Profile!Init
       \/ part = "inbox" /\ Inbox!Init
       \/ part = "calendar" /\ Calendar!Init
       \/ part = "mytasks" /\ MyTasks!Init
       \/ part = "tables" /\ Tables!Init
       \/ part = "overview" /\ Overview!Init
       \/ part = "session" /\ Session!Init
    /\ Outside({"board"}, overlapped = 0 /\ been = 0)
    /\ Outside({"task"}, done = 0 /\ deleted = 0 /\ running = 0 /\ ticked = 0 /\ loaded = 0
               /\ toggling = 0 /\ deleting = 0 /\ doneAtRead = 0 /\ differs = 0)
    /\ Outside({"settings"}, info = 0 /\ held = 0 /\ removing = 0 /\ unheard = 0
               /\ unsaved = 0 /\ renamed = 0 /\ together = 0)
    /\ Outside({"projects"}, data = 0 /\ projects = 0 /\ dashboard = 0 /\ strayed = 0)
    /\ Outside({"creation"}, accounts = 0 /\ place = 0 /\ invitations = 0 /\ made = 0
               /\ gaveUp = 0 /\ dismissed = 0 /\ invited = 0 /\ cut = 0)
    /\ Outside({"profile"}, name = 0 /\ profile = 0 /\ saving = 0 /\ timer = 0
               /\ current = 0 /\ lost = 0 /\ sentSince = 0 /\ overtaken = 0)
    /\ Outside({"inbox"}, inbox = 0 /\ isRead = 0 /\ markingAll = 0 /\ marking = 0
               /\ store = 0)
    /\ Outside({"calendar"}, due = 0 /\ projectTitle = 0 /\ early = 0 /\ currentDate = 0
               /\ viewMode = 0 /\ calendarTasks = 0 /\ title = 0 /\ latest = 0 /\ stale = 0)
    /\ Outside({"mytasks"}, now = 0 /\ rendered = 0 /\ activeFilter = 0 /\ allTasks = 0
               /\ overdueTasks = 0)
    /\ Outside({"tables"}, query = 0 /\ drawer = 0 /\ youngest = 0 /\ unseen = 0
               /\ shrunk = 0)
    /\ Outside({"overview"}, today = 0 /\ stats = 0 /\ changes = 0)
    /\ Outside({"session"}, cookie = 0 /\ tabs = 0 /\ moved = 0 /\ writer = 0)
    /\ Outside({"board", "settings"}, columns = 0)
    /\ Outside({"board", "mytasks"}, tasks = 0)
    /\ Outside({"board", "task", "settings", "profile", "inbox", "tables"}, shown = 0)
    /\ Outside(Pages \ {"creation", "session"}, loading = 0)
    /\ Outside(Pages \ {"settings", "profile", "session"}, error = 0)
    /\ Outside({"board", "task"}, adding = 0)
    /\ Outside({"board", "creation", "tables"}, creating = 0)
    /\ Outside(Pages \ {"mytasks", "overview"}, requests = 0)
    /\ Outside({"board", "task", "projects", "inbox", "calendar", "mytasks"}, changed = 0)
    /\ Outside({"board", "settings", "inbox"}, crossed = 0)
    /\ Outside({"board", "inbox", "calendar", "mytasks", "overview"}, missed = 0)
    /\ Outside({"task", "profile", "session"}, stored = 0)
    /\ Outside({"task", "settings", "inbox"}, open = 0)
    /\ Outside({"task", "projects", "tables"}, astray = 0)
    /\ Outside({"settings", "creation"}, members = 0 /\ listed = 0)
    /\ Outside({"settings", "profile"}, form = 0)
    /\ Outside({"settings", "tables"}, busy = 0)
    /\ Outside({"settings", "projects"}, failed = 0)
    /\ Outside({"projects", "profile", "tables"}, page = 0)
    /\ Outside({"inbox", "tables"}, late = 0)
    /\ Outside({"calendar", "mytasks"}, zone = 0)
    /\ Outside({"mytasks", "overview"}, request = 0)
    /\ Outside({"tables", "overview"}, rows = 0)

Next ==
    /\ UNCHANGED part
    /\ \/ /\ part = "board" /\ Board!Next
          /\ UNCHANGED <<taskOwn, settingsOwn, projectsOwn, creationOwn, profileOwn, inboxOwn,
                         calendarOwn, mytasksOwn, tablesOwn, overviewOwn, sessionOwn, stored,
                         open, astray, members, form, listed, busy, failed, page, late, zone,
                         request, rows>>
       \/ /\ part = "task" /\ OneTask!Next
          /\ UNCHANGED <<boardOwn, settingsOwn, projectsOwn, creationOwn, profileOwn,
                         inboxOwn, calendarOwn, mytasksOwn, tablesOwn, overviewOwn, sessionOwn,
                         columns, tasks, creating, crossed, missed, members, form, listed, busy,
                         failed, page, late, zone, request, rows>>
       \/ /\ part = "settings" /\ Settings!Next
          /\ UNCHANGED <<boardOwn, taskOwn, projectsOwn, creationOwn, profileOwn, inboxOwn,
                         calendarOwn, mytasksOwn, tablesOwn, overviewOwn, sessionOwn, tasks,
                         error, adding, creating, changed, missed, stored, astray, page, late,
                         zone, request, rows>>
       \/ /\ part = "projects" /\ Projects!Next
          /\ UNCHANGED <<boardOwn, taskOwn, settingsOwn, creationOwn, profileOwn, inboxOwn,
                         calendarOwn, mytasksOwn, tablesOwn, overviewOwn, sessionOwn, columns,
                         tasks, shown, adding, creating, crossed, missed, stored, open, members,
                         form, listed, busy, late, zone, request, rows>>
       \/ /\ part = "creation" /\ Creation!Next
          /\ UNCHANGED <<boardOwn, taskOwn, settingsOwn, projectsOwn, profileOwn, inboxOwn,
                         calendarOwn, mytasksOwn, tablesOwn, overviewOwn, sessionOwn, columns,
                         tasks, shown, loading, adding, changed, crossed, missed, stored, open,
                         astray, form, busy, failed, page, late, zone, request, rows>>
       \/ /\ part = "profile" /\ Profile!Next
          /\ UNCHANGED <<boardOwn, taskOwn, settingsOwn, projectsOwn, creationOwn, inboxOwn,
                         calendarOwn, mytasksOwn, tablesOwn, overviewOwn, sessionOwn, columns,
                         tasks, error, adding, creating, changed, crossed, missed, open, astray,
                         members, listed, busy, failed, late, zone, request, rows>>
       \/ /\ part = "inbox" /\ Inbox!Next
          /\ UNCHANGED <<boardOwn, taskOwn, settingsOwn, projectsOwn, creationOwn, profileOwn,
                         calendarOwn, mytasksOwn, tablesOwn, overviewOwn, sessionOwn, columns,
                         tasks, adding, creating, stored, astray, members, form, listed, busy,
                         failed, page, zone, request, rows>>
       \/ /\ part = "calendar" /\ Calendar!Next
          /\ UNCHANGED <<boardOwn, taskOwn, settingsOwn, projectsOwn, creationOwn, profileOwn,
                         inboxOwn, mytasksOwn, tablesOwn, overviewOwn, sessionOwn, columns,
                         tasks, shown, adding, creating, crossed, stored, open, astray, members,
                         form, listed, busy, failed, page, late, request, rows>>
       \/ /\ part = "mytasks" /\ MyTasks!Next
          /\ UNCHANGED <<boardOwn, taskOwn, settingsOwn, projectsOwn, creationOwn, profileOwn,
                         inboxOwn, calendarOwn, tablesOwn, overviewOwn, sessionOwn, columns,
                         shown, adding, creating, requests, crossed, stored, open, astray,
                         members, form, listed, busy, failed, page, late, rows>>
       \/ /\ part = "tables" /\ Tables!Next
          /\ UNCHANGED <<boardOwn, taskOwn, settingsOwn, projectsOwn, creationOwn, profileOwn,
                         inboxOwn, calendarOwn, mytasksOwn, overviewOwn, sessionOwn, columns,
                         tasks, adding, changed, crossed, missed, stored, open, members, form,
                         listed, failed, zone, request>>
       \/ /\ part = "overview" /\ Overview!Next
          /\ UNCHANGED <<boardOwn, taskOwn, settingsOwn, projectsOwn, creationOwn, profileOwn,
                         inboxOwn, calendarOwn, mytasksOwn, tablesOwn, sessionOwn, columns,
                         tasks, shown, adding, creating, requests, changed, crossed, stored,
                         open, astray, members, form, listed, busy, failed, page, late, zone>>
       \/ /\ part = "session" /\ Session!Next
          /\ UNCHANGED <<boardOwn, taskOwn, settingsOwn, projectsOwn, creationOwn, profileOwn,
                         inboxOwn, calendarOwn, mytasksOwn, tablesOwn, overviewOwn, columns,
                         tasks, shown, loading, error, adding, creating, changed, crossed,
                         missed, open, astray, members, form, listed, busy, failed, page, late,
                         zone, request, rows>>

Spec == Init /\ [][Next]_vars

------------------------------------------------------------------------------

\* The preferences and the profile a user sees are the stored ones: see ProfilePages.
ProfileSettles == part = "profile" => Profile!ProfileSettles

\* The tables and the overview of the admin dashboard show what is stored: see
\* AdminTables and AdminOverview.
AdminSettles == (part = "tables" => Tables!TablesSettle) /\ (part = "overview" => Overview!OverviewSettles)

\* The board shows the stored columns and tasks: see BoardPage.
BoardSettles == part = "board" => Board!BoardSettles

\* The page of a task shows its stored lists, and its ticks: see TaskPage.
TaskSettles == part = "task" => OneTask!TaskSettles

\* The settings of a project show and keep what they should: see SettingsPage.
SettingsSettle == part = "settings" => Settings!SettingsSettle

\* The list of projects shows the newest, the dashboards their own, and a form makes one
\* project with the members it lists: see ProjectPages and ProjectCreation.
ProjectsSettle == (part = "projects" => Projects!ProjectsSettle) /\ (part = "creation" => Creation!CreationSettles)

\* Each tab shows the user whose token the browser holds: see ClientSession.
SessionSettles == part = "session" => Session!SessionSettles

\* The notifications show and count the stored ones: see NotificationsPage.
NotificationsSettle == part = "inbox" => Inbox!NotificationsSettle

\* The calendar and the user's tasks show what is due on each day: see
\* CalendarPage and MyTasksPage.
DatesSettle == (part = "calendar" => Calendar!CalendarSettles) /\ (part = "mytasks" => MyTasks!MyTasksSettle)
=============================================================================
