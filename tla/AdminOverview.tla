---------------------------- MODULE AdminOverview ----------------------------
(* The overview of the admin dashboard.  getDashboard answers it with the     *)
(* results of separate statements and no transaction: four counts at a time,  *)
(* three trends over six months at a time, and the projects with most tasks.  *)
(* Users, projects and tasks come and go in between.  Months are numbered     *)
(* through the years; the first is a January.                                 *)
EXTENDS Integers, FiniteSetsExt, Functions

CONSTANTS
    User, Project, Task,
    ProjectOf,        \* the project of each task
    Today,            \* dates the page is opened at
    Lengths,          \* days of the months of a year
    Top,              \* projects in the list of the most active ones
    Nothing

Kind == [users |-> User, projects |-> Project, tasks |-> Task]
Row == User \cup Project \cup Task

VARIABLES
    rows,             \* in the database
    today,
    request,          \* what the answer under way has to find out yet
    stats, loading, error,    \* the page
    changes,          \* history: rows that changed since the page began to fetch
    missed            \* history: statements of the answer shown that failed, without a word

page == <<stats, loading, error>>
history == <<changes, missed>>
vars == <<rows, today, request, page, history>>

------------------------------------------------------------------------------
(* getDashboard.                                                              *)

\* A user who is not suspended, and every project and task, is active.
There(S) == {x \in S : rows[x].state \in {"active", "suspended"}}
Count == [users    |-> Cardinality(There(User)),
          active   |-> Cardinality({u \in User : rows[u].state = "active"}),
          projects |-> Cardinality(There(Project)),
          tasks    |-> Cardinality(There(Task))]

\* sixMonthsAgo: setMonth keeps the day and may run over into the next month,
\* before setDate goes back to its first.
DaysIn(m) == Lengths[((m - 1) % 12) + 1]
FirstMonth == IF today.day > DaysIn(today.month - 5) THEN today.month - 4 ELSE today.month - 5
MonthLabels == FirstMonth .. FirstMonth + 5

\* The statement on users is the one that does not look at deletedAt.
Created(kind) ==
    {x \in Kind[kind] : /\ rows[x].state # "none" /\ rows[x].month >= FirstMonth
                        /\ kind = "users" \/ rows[x].state # "deleted"}

\* fillTrend: a month without a row counts none.
FillTrend(raw) == [m \in MonthLabels |-> Cardinality({x \in raw : rows[x].month = m})]
NoTrends == [kind \in DOMAIN Kind |-> FillTrend({})]

TaskCount(p) == Cardinality({t \in There(Task) : ProjectOf[t] = p})

NoFigures == [users |-> 0, active |-> 0, projects |-> 0, tasks |-> 0]
Idle == [pc |-> "idle", left |-> {}, count |-> NoFigures, trends |-> NoTrends,
         top |-> <<>>, missed |-> {}]
Sent == [Idle EXCEPT !.pc = "counts", !.left = DOMAIN NoFigures]

\* The counts of the six months of a trend, together.
Sum(trend) ==
    LET m == FirstMonth
    IN trend[m] + trend[m + 1] + trend[m + 2] + trend[m + 3] + trend[m + 4] + trend[m + 5]

\* Rows of the list: projects with the number of their tasks.
TopRow == [project : Project, tasks : 0 .. Cardinality(Task)]

TypeOK ==
    /\ rows \in [Row -> [state : {"none", "active", "suspended", "deleted"}, month : Nat]]
    /\ today \in Today
    /\ request.pc \in {"idle", "counts", "trends", "top", "answer"}
    /\ request.left \subseteq DOMAIN NoFigures \cup DOMAIN Kind
    /\ stats = Nothing \/ /\ \A f \in DOMAIN stats.count : stats.count[f] \in 0 .. Cardinality(Row)
                          /\ \A i \in DOMAIN stats.top : stats.top[i] \in TopRow
    /\ loading \in BOOLEAN /\ error \in BOOLEAN
    /\ changes \in Nat /\ missed \subseteq {"trends", "top"}

Proceeds(q, then) == request' = IF q.left = {} THEN [q EXCEPT !.pc = then[1], !.left = then[2]] ELSE q

\* count, of one of the four: in any order.
CountRows(f) ==
    /\ request.pc = "counts" /\ f \in request.left
    /\ Proceeds([request EXCEPT !.left = @ \ {f}, !.count[f] = Count[f]], <<"trends", DOMAIN Kind>>)
    /\ UNCHANGED <<rows, today, page, history>>

Trend(kind) ==
    /\ request.pc = "trends" /\ kind \in request.left
    /\ Proceeds([request EXCEPT !.left = @ \ {kind}, !.trends[kind] = FillTrend(Created(kind))],
                <<"top", {}>>)
    /\ UNCHANGED <<rows, today, page, history>>

\* One that fails takes the two others with it.
MissTrends ==
    /\ request.pc = "trends"
    /\ request' = [request EXCEPT !.pc = "top", !.left = {}, !.trends = NoTrends,
                                  !.missed = @ \cup {"trends"}]
    /\ UNCHANGED <<rows, today, page, history>>

\* Ordered by the number of tasks, and cut off.
TopProjects(list) ==
    /\ request.pc = "top"
    /\ IsInjective(list) /\ Range(list) \subseteq There(Project)
    /\ DOMAIN list = 1 .. Min({Top, Cardinality(There(Project))})
    /\ \A i \in DOMAIN list, p \in There(Project) :
          (\A j \in 1 .. i : p # list[j]) => TaskCount(p) <= TaskCount(list[i])
    /\ request' = [request EXCEPT !.pc = "answer",
           !.top = [i \in DOMAIN list |-> [project |-> list[i], tasks |-> TaskCount(list[i])]]]
    /\ UNCHANGED <<rows, today, page, history>>

MissTop ==
    /\ request.pc = "top"
    /\ request' = [request EXCEPT !.pc = "answer", !.missed = @ \cup {"top"}]
    /\ UNCHANGED <<rows, today, page, history>>

------------------------------------------------------------------------------
(* The page.                                                                  *)

Init ==
    /\ today \in Today
    /\ rows \in [Row -> [state : {"none", "active"}, month : {FirstMonth - 1, FirstMonth, today.month}]]
    /\ request = Sent
    /\ stats = Nothing /\ loading = TRUE /\ error = FALSE
    /\ changes = 0 /\ missed = {}

\* The page is opened anew: an answer to what it asked for before goes nowhere.
Open ==
    /\ request' = Sent
    /\ stats' = Nothing /\ loading' = TRUE /\ error' = FALSE
    /\ changes' = 0 /\ missed' = {}
    /\ UNCHANGED <<rows, today>>

Retry ==
    /\ error
    /\ request' = Sent
    /\ loading' = TRUE /\ error' = FALSE
    /\ changes' = 0
    /\ UNCHANGED <<rows, today, stats, missed>>

Land ==
    /\ request.pc = "answer"
    /\ stats' = [count |-> request.count, suspended |-> request.count.users - request.count.active,
                 trends |-> request.trends, top |-> request.top]
    /\ missed' = request.missed
    /\ loading' = FALSE /\ request' = Idle
    /\ UNCHANGED <<rows, today, error, changes>>

\* A count or the way fails: what was shown stays under the error.
Fail ==
    /\ request.pc # "idle"
    /\ error' = TRUE /\ loading' = FALSE /\ request' = Idle
    /\ UNCHANGED <<rows, today, stats, history>>

------------------------------------------------------------------------------
(* Elsewhere.                                                                 *)

Create(x) ==
    /\ rows[x].state = "none"
    /\ x \in Task => rows[ProjectOf[x]].state = "active"
    /\ rows' = [rows EXCEPT ![x] = [state |-> "active", month |-> today.month]]

SetState(x, from, to) == rows[x].state \in from /\ rows' = [rows EXCEPT ![x].state = to]

Change ==
    /\ \/ \E x \in Row : Create(x) \/ SetState(x, {"active", "suspended"}, "deleted")
       \/ \E u \in User : SetState(u, {"active"}, "suspended") \/ SetState(u, {"suspended"}, "active")
    /\ changes' = changes + 1
    /\ UNCHANGED <<today, request, page, missed>>

Next ==
    \/ \E f \in DOMAIN NoFigures : CountRows(f)
    \/ \E kind \in DOMAIN Kind : Trend(kind)
    \/ \E n \in 0 .. Top : \E list \in [1 .. n -> Project] : TopProjects(list)
    \/ MissTrends \/ MissTop
    \/ Open \/ Retry \/ Land \/ Fail \/ Change

Spec == Init /\ [][Next]_vars

------------------------------------------------------------------------------
(* What is shown.                                                             *)

\* The cards, the charts and the list, or their empty places.
CardsShown == IF loading \/ stats = Nothing THEN Nothing ELSE stats.count
TrendsShown == IF loading \/ stats = Nothing THEN Nothing ELSE stats.trends
TopShown == IF loading \/ stats = Nothing THEN <<>> ELSE stats.top

AtRest == ~loading /\ ~error /\ stats # Nothing
Near(a, b) == a - b \in -changes .. changes

\* getDashboard: the counts are those of different moments, yet each, and the
\* number of suspended users that is their difference, is off by no more than
\* the number of changes since the page asked.
CountsAreNear ==
    AtRest =>
        /\ \A f \in DOMAIN Count : Near(CardsShown[f], Count[f])
        /\ Near(stats.suspended, Cardinality({u \in User : rows[u].state = "suspended"}))

\* Of each kind the six months count what was created since the first of them,
\* and this month is among them whatever its day, unless a statement failed.
TrendsAreNear ==
    AtRest /\ "trends" \notin missed =>
        \A kind \in DOMAIN Kind :
            /\ Near(Sum(TrendsShown[kind]), Cardinality(Created(kind)))
            /\ today.month \in DOMAIN TrendsShown[kind]
            /\ Near(TrendsShown[kind][today.month],
                    Cardinality({x \in Created(kind) : rows[x].month = today.month}))

\* A project that is not listed has no more tasks than those that are, unless
\* something changed or the statement failed.
TopIsTop ==
    AtRest /\ changes = 0 /\ "top" \notin missed =>
        \A p \in There(Project) \ {TopShown[i].project : i \in DOMAIN TopShown} :
            /\ Cardinality(DOMAIN TopShown) = Top
            /\ \A i \in DOMAIN TopShown : TaskCount(p) <= TopShown[i].tasks

OverviewSettles == CountsAreNear /\ TrendsAreNear /\ TopIsTop
=============================================================================
