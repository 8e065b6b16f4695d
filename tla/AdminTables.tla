------------------------------ MODULE AdminTables ------------------------------
(* The user and project tables of the admin dashboard, in one tab: a search   *)
(* or a filter, a page of rows, a drawer with one row of them, and the        *)
(* buttons that change a row.  Every change is followed by a fetch with the   *)
(* filters of the click.  A request is served by the backend at one moment    *)
(* and its answer arrives at another or never; nothing is cancelled.          *)
EXTENDS Naturals, Sequences, FiniteSetsExt

CONSTANTS
    User, Project,   \* rows of the two tables
    Protected,       \* users with the role admin
    Limit,           \* rows per page that can be chosen
    Request,         \* slots for requests in flight
    Nothing

Row == User \cup Project
Page == {"users", "projects"}

VARIABLES
    rows,        \* the rows of both tables in the database, newest first
    page,        \* the page of the tab
    query,       \* its filter, page number and limit
    shown,       \* the rows in its table and their total number
    loading, error,
    busy,        \* actionLoading: the row whose buttons are disabled
    creating,    \* createLoading
    drawer,      \* the copy of a row in the drawer
    requests,
    youngest,    \* history: the fetch sent last
    astray,      \* history: what is shown is not the answer to that one
    unseen,      \* history: changes this tab was not told of, until its last fetch brings them
    shrunk,      \* history: there are fewer rows than when the page was chosen
    late         \* history: the drawer was opened after the click that deletes its row

view == <<page, query, shown, loading, error, busy, creating, drawer>>
history == <<youngest, astray, unseen, shrunk, late>>
vars == <<rows, view, requests, history>>

\* AdminUser.isActive; a project has no such thing and counts as active.
Item == [id : Row, active : BOOLEAN]
Query == [filter : {"all", "active"}, page : Nat \ {0}, limit : Limit]
NoItem == [id |-> Nothing, active |-> FALSE]
FirstPage == [filter |-> "all", page |-> 1, limit |-> Min(Limit)]
NoAnswer == [rows |-> <<>>, total |-> 0]

Idle == [kind |-> "none", pc |-> "idle", mine |-> FALSE, id |-> Nothing,
         query |-> FirstPage, drawer |-> Nothing, answer |-> NoAnswer, ok |-> FALSE]

Actions == {"delete", "suspend", "activate", "create"}

TypeOK ==
    /\ rows \in [Page -> Seq(Item)]
    /\ page \in Page /\ query \in Query
    /\ shown \in [rows : Seq(Item), total : Nat]
    /\ loading \in BOOLEAN /\ error \in BOOLEAN /\ creating \in BOOLEAN
    /\ busy \in Row \cup {Nothing} /\ drawer \in Item \cup {NoItem}
    /\ requests \in [Request -> [kind : Actions \cup {"none", "fetch"},
                                 pc : {"idle", "sent", "served"}, mine : BOOLEAN,
                                 id : Row \cup {Nothing}, query : Query,
                                 drawer : Row \cup {Nothing},
                                 answer : [rows : Seq(Item), total : Nat], ok : BOOLEAN]]
    /\ youngest \in Request
    /\ astray \in BOOLEAN /\ unseen \in BOOLEAN /\ shrunk \in BOOLEAN /\ late \in BOOLEAN

------------------------------------------------------------------------------
(* The backend. *)

Of(id) == IF id \in User THEN "users" ELSE "projects"
Ids(list) == {list[i].id : i \in DOMAIN list}

\* getProjects, which has no filter here: a page of the rows.
PageOf(list, q) ==
    LET skip == (q.page - 1) * q.limit
    IN SubSeq(list, skip + 1, Min({skip + q.limit, Len(list)}))

\* getUsers: a page of the rows the filter lets through, and their number.
Answer(list, q) ==
    LET passes(item) == q.filter = "all" \/ item.active
    IN [rows |-> PageOf(SelectSeq(list, passes), q),
        total |-> Cardinality({i \in DOMAIN list : passes(list[i])})]

\* What the handlers of the changes refuse.
Accepted(q) ==
    CASE q.kind = "create" -> TRUE
      [] q.kind = "delete" -> q.id \in Ids(rows[Of(q.id)]) /\ q.id \notin Protected
      [] OTHER             -> q.id \in Ids(rows[Of(q.id)])

\* The row of an id, and a list without one of its rows.
WithoutAt(list, k) == SubSeq(list, 1, k - 1) \o SubSeq(list, k + 1, Len(list))
Place(list, id) == CHOOSE k \in DOMAIN list : list[k].id = id

Changed(q) ==
    LET list == rows[Of(q.id)]
        switched == [i \in DOMAIN list |->
                       IF list[i].id = q.id
                       THEN [list[i] EXCEPT !.active = (q.kind = "activate")] ELSE list[i]]
    IN [rows EXCEPT ![Of(q.id)] =
          CASE q.kind = "create" -> <<[id |-> q.id, active |-> TRUE]>> \o list
            [] q.kind = "delete" -> WithoutAt(list, Place(list, q.id))
            [] OTHER             -> switched]

------------------------------------------------------------------------------
(* Fetching. *)

\* fetchUsers, fetchProjects.
Fetch(r, base, q) ==
    /\ loading' = TRUE /\ error' = FALSE
    /\ youngest' = r
    /\ requests' = [base EXCEPT ![r] = [Idle EXCEPT !.kind = "fetch", !.pc = "sent",
                                                   !.mine = TRUE, !.query = q]]

Free(r) == requests' = [requests EXCEPT ![r] = Idle]

Orphaned == [r \in Request |-> [requests[r] EXCEPT !.mine = FALSE]]

Fresh ==
    /\ query' = FirstPage /\ shown' = NoAnswer
    /\ busy' = Nothing /\ creating' = FALSE /\ drawer' = NoItem
    /\ astray' = FALSE /\ unseen' = FALSE /\ shrunk' = FALSE /\ late' = FALSE

\* A page that is left updates nothing any more, and goes on.
Open(r, p) ==
    /\ p # page /\ page' = p /\ requests[r].pc = "idle"
    /\ Fresh
    /\ Fetch(r, Orphaned, FirstPage)
    /\ UNCHANGED rows

\* A plausible error in the operator that follows, which no definition uses.
Refine_keepsPage(r, filter, limit) ==
    /\ requests[r].pc = "idle"
    /\ filter # query.filter
    /\ query' = [query EXCEPT !.filter = filter]
    /\ shrunk' = FALSE
    /\ Fetch(r, requests, query')
    /\ UNCHANGED <<rows, page, shown, busy, creating, drawer, astray, unseen, late>>

\* A search, a filter and a number of rows per page start from the first page.
Refine(r, filter, limit) ==
    /\ requests[r].pc = "idle"
    /\ \/ filter # query.filter /\ limit = query.limit
       \/ ~loading /\ filter = query.filter /\ limit # query.limit
    /\ query' = [filter |-> filter, page |-> 1, limit |-> limit]
    /\ shrunk' = FALSE
    /\ Fetch(r, requests, query')
    /\ UNCHANGED <<rows, page, shown, busy, creating, drawer, astray, unseen, late>>

\* The rows are shown when nothing is loading.
TableVisible == ~loading

TotalPages == (shown.total + query.limit - 1) \div query.limit

\* Previous, the numbers and Next; a table without rows in total has none.
Turn(r, n) ==
    /\ TableVisible /\ requests[r].pc = "idle" /\ shown.total > 0 /\ n # query.page
    /\ n \in 1..TotalPages \/ n = query.page - 1
    /\ n > 0
    /\ query' = [query EXCEPT !.page = n]
    /\ shrunk' = (n > TotalPages \/ Answer(rows[page], query).total < shown.total)
    /\ Fetch(r, requests, query')
    /\ UNCHANGED <<rows, page, shown, busy, creating, drawer, astray, unseen, late>>

Retry(r) ==
    /\ error /\ requests[r].pc = "idle"
    /\ Fetch(r, requests, query)
    /\ UNCHANGED <<rows, page, query, shown, busy, creating, drawer,
                   astray, unseen, shrunk, late>>

LandFetch(r) ==
    LET q == requests[r]
    IN /\ q.kind = "fetch" /\ q.pc = "served" /\ q.mine
       /\ Free(r)
       /\ shown' = q.answer /\ loading' = FALSE
       /\ astray' = (r # youngest \/ q.query # query)
       /\ unseen' = (unseen /\ (r # youngest \/ q.answer # Answer(rows[page], q.query)))
       /\ UNCHANGED <<rows, page, query, error, busy, creating, drawer, youngest,
                      shrunk, late>>

------------------------------------------------------------------------------
(* The drawer and the buttons. *)

OpenDrawer(item) ==
    /\ TableVisible /\ item # drawer
    /\ drawer' = item
    /\ late' = \/ item.id \notin Ids(rows[page])
               \/ \E r \in Request : requests[r].kind = "delete" /\ requests[r].id = item.id
    /\ UNCHANGED <<rows, page, query, shown, loading, error, busy, creating, requests,
                   youngest, astray, unseen, shrunk>>

CloseDrawer ==
    /\ drawer # NoItem /\ drawer' = NoItem
    /\ UNCHANGED <<rows, page, query, shown, loading, error, busy, creating, requests,
                   history>>

\* A button of a row in the table: disabled for the row of the last action.
OnRow(item) ==
    TableVisible /\ item \in {shown.rows[i] : i \in DOMAIN shown.rows} /\ busy # item.id

\* The buttons of the drawer: of a user only "Suspend" and "Activate" are ever
\* disabled, of a project "Delete" is while any action goes on.
InUserDrawer(item, kind) ==
    page = "users" /\ drawer = item /\ (kind = "delete" \/ busy # item.id)

InProjectDrawer(item) == page = "projects" /\ drawer = item /\ busy = Nothing

Offers(item, kind) ==
    \/ kind = "delete"
    \/ page = "users" /\ kind = (IF item.active THEN "suspend" ELSE "activate")

Send(r, kind, id) ==
    /\ requests[r].pc = "idle"
    /\ requests' = [requests EXCEPT ![r] =
          [Idle EXCEPT !.kind = kind, !.pc = "sent", !.mine = TRUE, !.id = id,
                       !.query = query, !.drawer = drawer.id]]

\* handleDeleteUser, handleSuspendUser, handleActivateUser, handleDeleteProject.
Act(r, kind, item) ==
    /\ item # NoItem /\ Offers(item, kind)
    /\ OnRow(item) \/ InUserDrawer(item, kind) \/ InProjectDrawer(item)
    /\ busy' = item.id
    /\ Send(r, kind, item.id)
    /\ UNCHANGED <<rows, page, query, shown, loading, error, creating, drawer, history>>

\* The form to create a user can be opened and closed at any time, and is closed
\* when its user was created.
FormReady == page = "users" /\ ~creating

HandleCreateUser(r, u) ==
    /\ FormReady
    /\ u \notin Ids(rows["users"]) /\ \A s \in Request : requests[s].id # u
    /\ creating' = TRUE
    /\ Send(r, "create", u)
    /\ UNCHANGED <<rows, page, query, shown, loading, error, busy, drawer, history>>

\* The backend serves a request.
Serve(r) ==
    LET q == requests[r]
    IN /\ q.pc = "sent"
       /\ IF q.kind = "fetch"
          THEN /\ requests' = [requests EXCEPT ![r].pc = "served",
                                               ![r].answer = Answer(rows[page], q.query)]
               /\ UNCHANGED <<rows, unseen, shrunk>>
          ELSE /\ requests' = [requests EXCEPT ![r].pc = "served", ![r].ok = Accepted(q)]
               /\ rows' = IF Accepted(q) THEN Changed(q) ELSE rows
               /\ unseen' = (unseen \/ (~q.mine /\ rows' # rows))
               /\ shrunk' = (shrunk \/ Answer(rows'[page], query).total < Answer(rows[page], query).total)
       /\ late' = (late \/ (~q.mine /\ q.id = drawer.id))
       /\ UNCHANGED <<view, youngest, astray>>

\* The answer to a change: the page fetches again with the filters it had when
\* the button was clicked; a delete closes the drawer that was open then.
LandAction(r) ==
    LET q == requests[r]
    IN /\ q.kind \in Actions /\ q.pc = "served" /\ q.mine
       /\ IF q.ok THEN Fetch(r, requests, q.query)
                  ELSE Free(r) /\ UNCHANGED <<loading, error, youngest>>
       /\ drawer' = IF q.ok /\ q.kind = "delete" /\ q.drawer = q.id THEN NoItem ELSE drawer
       /\ IF q.kind = "create"
          THEN creating' = FALSE /\ UNCHANGED busy
          ELSE busy' = Nothing /\ UNCHANGED creating
       /\ UNCHANGED <<rows, page, query, shown, astray, unseen, shrunk, late>>

\* The answer never comes, or comes to a page that is gone.
Lost(r) ==
    LET q == requests[r]
    IN /\ q.pc # "idle"
       /\ Free(r)
       /\ IF q.mine
          THEN /\ loading' = (loading /\ q.kind # "fetch")
               /\ error' = (error \/ q.kind = "fetch")
               /\ busy' = IF q.kind \in {"delete", "suspend", "activate"} THEN Nothing ELSE busy
               /\ creating' = (creating /\ q.kind # "create")
               /\ unseen' = (unseen \/ (q.kind \in Actions /\ q.pc = "served"))
               /\ late' = (late \/ (q.kind = "delete" /\ q.id = drawer.id))
          ELSE UNCHANGED <<loading, error, busy, creating, unseen, late>>
       /\ UNCHANGED <<rows, page, query, shown, drawer, youngest, astray, shrunk>>

------------------------------------------------------------------------------

Init ==
    /\ rows \in [Page -> UNION {[1..n -> Item] : n \in 0..2}]
    /\ \A p \in Page : \A i, j \in DOMAIN rows[p] :
          Of(rows[p][i].id) = p /\ (i # j => rows[p][i].id # rows[p][j].id)
    /\ \A i \in DOMAIN rows["projects"] : rows["projects"][i].active
    /\ page \in Page
    /\ query = FirstPage /\ shown = NoAnswer /\ error = FALSE /\ loading = TRUE
    /\ busy = Nothing /\ creating = FALSE /\ drawer = NoItem
    /\ \E r \in Request :
          /\ requests = [s \in Request |->
                 IF s = r THEN [Idle EXCEPT !.kind = "fetch", !.pc = "sent", !.mine = TRUE]
                          ELSE Idle]
          /\ youngest = r
    /\ astray = FALSE /\ unseen = FALSE /\ shrunk = FALSE /\ late = FALSE

Next ==
    \/ CloseDrawer
    \/ \E i \in DOMAIN shown.rows : OpenDrawer(shown.rows[i])
    \/ \E r \in Request :
        \/ \E p \in Page : Open(r, p)
        \/ \E filter \in {"all", "active"}, limit \in Limit : Refine(r, filter, limit)
        \/ \E n \in 1..(shown.total + query.page) : Turn(r, n)
        \/ \E kind \in Actions, item \in {shown.rows[i] : i \in DOMAIN shown.rows} \cup {drawer} :
              Act(r, kind, item)
        \/ \E u \in User : HandleCreateUser(r, u)
        \/ Retry(r) \/ LandFetch(r) \/ Serve(r) \/ LandAction(r) \/ Lost(r)

Spec == Init /\ [][Next]_vars

------------------------------------------------------------------------------

AtRest == \A r \in Request : requests[r].pc = "idle"

\* fetchUsers, fetchProjects: with nothing in flight a table without an error
\* shows what the database holds for its filter and page, unless answers
\* arrived out of order, a change fetched with the filters of its click, or
\* this tab was not told of a change.
ShowsTheRows ==
    AtRest /\ ~error /\ ~astray /\ ~unseen =>
        shown = Answer(rows[page], query) /\ ~loading /\ busy = Nothing /\ ~creating

\* data-table.tsx: the chosen page is one that exists, unless there are fewer
\* rows than the table said when it was chosen, or when a page it was reached
\* from with Previous was.
PageExists ==
    AtRest /\ ~error /\ ~astray /\ ~unseen /\ ~shrunk => query.page \in 1..Max({1, TotalPages})

\* handleDeleteUser, handleDeleteProject: the drawer does not keep a row this
\* tab has deleted, unless it was opened after the click or the answer was lost.
DrawerExists ==
    AtRest /\ ~late /\ drawer # NoItem => drawer.id \in Ids(rows[page])

TablesSettle == ShowsTheRows /\ PageExists /\ DrawerExists
=============================================================================
