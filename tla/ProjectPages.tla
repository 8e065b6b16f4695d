----------------------------- MODULE ProjectPages -----------------------------
(* The list of projects and the dashboards of projects in one tab, which      *)
(* share a slice of the store: the rows, one dashboard, one flag that         *)
(* something is loading and one error.  A page that is left does not cancel   *)
(* its fetch, whose answer still goes to the store.                           *)
EXTENDS Integers, FiniteSets

CONSTANTS
    Project,
    Version,     \* what there is to tell of a project at one time
    Trashed,     \* the versions of projects that are deleted
    CreatedAt,   \* when each project is created
    Limit,       \* the projects in an answer, of which the list asks for one
    Request,     \* slots for requests in flight
    None

VARIABLES
    data,        \* the version of each project in the database, None of those the user is not in
    page,        \* "list", a project whose dashboard is shown, or None
    projects,    \* projectSlice.projects, with their versions
    dashboard,   \* projectSlice.dashboard: of which project, and its version
    loading, error,
    requests,
    changed,     \* history: data changed since the page was opened
    failed,      \* history: a fetch has failed since the application was loaded
    astray,      \* history: the last answer was to a fetch of another page
    strayed      \* history: there has been such an answer

view == <<page, projects, dashboard, loading, error>>
history == <<changed, failed, astray, strayed>>
vars == <<data, view, requests, history>>

Pages == Project \cup {"list", None}
NoDashboard == [of |-> None, data |-> None]
Versions == [Project -> Version \cup {None}]
NoProjects == [p \in Project |-> None]
Idle == [pc |-> "idle", page |-> None, mine |-> FALSE, got |-> NoProjects]

TypeOK ==
    /\ data \in Versions /\ projects \in Versions
    /\ page \in Pages
    /\ dashboard \in [of : Project \cup {None}, data : Version \cup {None}]
    /\ \A b \in {loading, error, changed, failed, astray, strayed} : b \in BOOLEAN
    /\ requests \in [Request -> [pc : {"idle", "sent", "served"}, page : Pages,
                                 mine : BOOLEAN, got : Versions]]

Init ==
    /\ data \in Versions
    /\ page = None /\ projects = NoProjects /\ dashboard = NoDashboard
    /\ loading = FALSE /\ error = FALSE
    /\ requests = [r \in Request |-> Idle]
    /\ changed = FALSE /\ failed = FALSE /\ astray = FALSE /\ strayed = FALSE

------------------------------------------------------------------------------

\* fetchProjects, fetchDashboard.
Fetch(r, p, base) ==
    /\ requests[r].pc = "idle"
    /\ requests' = [base EXCEPT ![r] = [Idle EXCEPT !.pc = "sent", !.page = p, !.mine = TRUE]]

Orphaned == [r \in Request |-> [requests[r] EXCEPT !.mine = FALSE]]

\* A dashboard that is left is taken out of the store, and the flag with it.
Cleared == IF page \in Project THEN NoDashboard ELSE dashboard

\* A plausible error in the operator that follows, which no definition uses.
Open_onMount(r, p) ==
    /\ p # page /\ p # None /\ requests[r].pc = "idle"
    /\ page' = p
    /\ IF page \in Project /\ p \in Project
       THEN UNCHANGED <<projects, dashboard, loading, requests, changed, astray>>
       ELSE /\ dashboard' = Cleared /\ loading' = TRUE
            /\ Fetch(r, p, Orphaned)
            /\ changed' = FALSE /\ astray' = FALSE
            /\ UNCHANGED projects
    /\ UNCHANGED <<data, error, failed, strayed>>

Open(r, p) ==
    /\ p # page /\ p # None
    /\ page' = p /\ dashboard' = Cleared
    /\ loading' = TRUE
    /\ Fetch(r, p, Orphaned)
    /\ changed' = FALSE /\ astray' = FALSE
    /\ UNCHANGED <<data, projects, error, failed, strayed>>

\* To a page that uses nothing of the slice.
Leave ==
    /\ page # None /\ page' = None
    /\ dashboard' = Cleared /\ loading' = (loading /\ page \notin Project)
    /\ requests' = Orphaned
    /\ UNCHANGED <<data, projects, error, history>>

\* The button of the error.
TryAgain(r) ==
    /\ page # None /\ error /\ ~loading
    /\ loading' = TRUE
    /\ Fetch(r, page, requests)
    /\ UNCHANGED <<data, page, projects, dashboard, error, history>>

\* What each page shows once nothing is loading and no error is left.
RowsShown == page = "list" /\ ~loading /\ ~error
NumbersShown == page \in Project /\ ~loading /\ ~error /\ dashboard # NoDashboard

Answer(r, got) ==
    /\ requests' = [requests EXCEPT ![r].pc = "served", ![r].got = got]
    /\ UNCHANGED <<data, view, history>>

\* findAll: of the projects the user is a member of and nobody has deleted, the
\* newest, as many as an answer has.
Listed == {p \in Project : data[p] \notin Trashed \cup {None}}

FirstPage(rows) ==
    /\ rows \subseteq Listed /\ Cardinality(rows) <= Limit
    /\ \A p \in Listed \ rows : /\ Cardinality(rows) = Limit
                               /\ \A q \in rows : CreatedAt[q] >= CreatedAt[p]

ServeList(r) ==
    /\ requests[r].pc = "sent" /\ requests[r].page = "list"
    /\ \E rows \in SUBSET Project :
        /\ FirstPage(rows)
        /\ Answer(r, [p \in Project |-> IF p \in rows THEN data[p] ELSE None])

\* getDashboardStats looks at the membership, and not at whether the project is
\* deleted; what changes between its statements counts as changed below.
ServeDashboard(r) ==
    LET p == requests[r].page
    IN /\ requests[r].pc = "sent" /\ p \in Project /\ data[p] # None
       /\ Answer(r, [NoProjects EXCEPT ![p] = data[p]])

\* setProjects, setDashboard: the answer replaces what the store has, and the
\* error stays.
Land(r) ==
    LET q == requests[r]
    IN /\ q.pc = "served"
       /\ IF q.page = "list"
          THEN projects' = q.got /\ UNCHANGED dashboard
          ELSE dashboard' = [of |-> q.page, data |-> q.got[q.page]] /\ UNCHANGED projects
       /\ loading' = FALSE
       /\ requests' = [requests EXCEPT ![r] = Idle]
       /\ astray' = IF (q.page = "list") = (page = "list") THEN ~q.mine ELSE astray
       /\ strayed' = (strayed \/ ~q.mine)
       /\ UNCHANGED <<data, page, error, changed, failed>>

\* setError, also of a dashboard that is refused.
Fail(r) ==
    /\ requests[r].pc # "idle"
    /\ error' = TRUE /\ loading' = FALSE /\ failed' = TRUE
    /\ requests' = [requests EXCEPT ![r] = Idle]
    /\ UNCHANGED <<data, page, projects, dashboard, changed, astray, strayed>>

\* A project is created, edited or deleted, or its user added or removed.
Others ==
    /\ \E p \in Project, v \in Version \cup {None} : v # data[p] /\ data' = [data EXCEPT ![p] = v]
    /\ changed' = TRUE
    /\ UNCHANGED <<view, requests, failed, astray, strayed>>

Next ==
    \/ Leave \/ Others
    \/ \E r \in Request :
        \/ \E p \in Pages : Open(r, p)
        \/ TryAgain(r) \/ ServeList(r) \/ ServeDashboard(r) \/ Land(r) \/ Fail(r)

Spec == Init /\ [][Next]_vars

------------------------------------------------------------------------------

AtRest == \A r \in Request : requests[r].pc = "idle"

Rows == {p \in Project : projects[p] # None}

\* A page at rest shows the newest of the user's projects as they are stored, as
\* many as one answer has and every one if that has room, or the dashboard of
\* its own project as stored, when nothing changed since it was opened, the
\* answer that came last was its own, and no fetch has failed: the error is
\* never taken back.
ShowsItsOwn ==
    AtRest /\ ~failed /\ ~astray =>
        /\ ~error /\ ~loading
        /\ RowsShown /\ ~changed => FirstPage(Rows) /\ \A p \in Rows : projects[p] = data[p]
        /\ page \in Project => dashboard.of = page /\ (changed \/ dashboard.data = data[page])

\* project-dashboard.tsx: whatever is in flight, a dashboard page that shows
\* numbers shows those of its project, until an answer to a page that was left
\* comes late: of a dashboard, which nothing takes out of the store again, or of
\* any page, which ends the loading of this one.
ShowsNoOther ==
    NumbersShown /\ ~strayed => dashboard.of = page

ProjectsSettle == ShowsItsOwn /\ ShowsNoOther
=============================================================================
