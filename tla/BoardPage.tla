------------------------------ MODULE BoardPage ------------------------------
(* The board of a project in one tab.  The page first fetches the columns and *)
(* then the tasks of every column, each with a request of its own; it can add *)
(* tasks meanwhile.  Other users change the board, of which the page hears    *)
(* only when it fetches again.  A request is served by the backend at one     *)
(* moment and its answer arrives at another or never.                         *)
EXTENDS Naturals, Sequences, FiniteSetsExt

CONSTANTS
    Column, Task,
    Limit,       \* tasks in an answer of GET /tasks
    Request,     \* slots for requests in flight
    Nowhere

VARIABLES
    columns,     \* the columns of the project in the database, in order
    tasks,       \* the tasks of each, in order
    shown,       \* the columns on the page
    loading, error,
    adding,      \* addingTaskColumnId
    creating,    \* creatingTask
    requests,
    changed,     \* history: others changed the board since the page began to fetch
    crossed,     \* history: a task was added while the tasks were fetched
    overlapped,  \* history: a fetch began before another one had ended
    missed,      \* history: the tasks of a column did not arrive
    been         \* history: the columns each task has been in

server == <<columns, tasks>>
view == <<shown, loading, error, adding, creating>>
history == <<changed, crossed, overlapped, missed, been>>
vars == <<server, view, requests, history>>

\* ColumnWithTasks
Shown == [id : Column, tasks : Seq(Task), loading : BOOLEAN]

\* "load" fetches the columns, "tasks" the tasks of those in "ids", of which the
\* indices in "left" are still to be answered.
Idle == [kind |-> "none", pc |-> "idle", ids |-> <<>>, got |-> <<>>, left |-> {},
         column |-> Nowhere, task |-> Nowhere]

TypeOK ==
    /\ columns \in Seq(Column) /\ tasks \in [Column -> Seq(Task)]
    /\ shown \in Seq(Shown)
    /\ loading \in BOOLEAN /\ error \in BOOLEAN /\ creating \in BOOLEAN
    /\ adding \in Column \cup {Nowhere}
    /\ requests \in [Request -> [kind : {"none", "load", "tasks", "create"},
                                 pc : {"idle", "sent", "served"},
                                 ids : Seq(Column), got : Seq(Seq(Task)), left : SUBSET Nat,
                                 column : Column \cup {Nowhere}, task : Task \cup {Nowhere}]]
    /\ \A b \in {changed, crossed, overlapped, missed} : b \in BOOLEAN
    /\ been \in [Column -> SUBSET Task]

Fetching == \E r \in Request : requests[r].kind \in {"load", "tasks"}

Free(r) == requests' = [requests EXCEPT ![r] = Idle]

------------------------------------------------------------------------------
(* fetchBoard. *)

Fetch(r) ==
    /\ requests[r].pc = "idle"
    /\ requests' = [requests EXCEPT ![r] = [Idle EXCEPT !.kind = "load", !.pc = "sent"]]
    /\ loading' = TRUE /\ error' = FALSE
    /\ overlapped' = Fetching
    /\ changed' = FALSE /\ crossed' = FALSE /\ missed' = FALSE
    /\ UNCHANGED been

Init ==
    /\ columns \in Injection(1 .. Cardinality(Column), Column)
    /\ tasks \in [Column -> {<<>>} \cup {<<t>> : t \in Task}]
    /\ \A c, d \in Column : c # d => tasks[c] = <<>> \/ tasks[c] # tasks[d]
    /\ shown = <<>> /\ loading = TRUE /\ error = FALSE
    /\ adding = Nowhere /\ creating = FALSE
    /\ \E r \in Request : requests = [s \in Request |->
           IF s = r THEN [Idle EXCEPT !.kind = "load", !.pc = "sent"] ELSE Idle]
    /\ changed = FALSE /\ crossed = FALSE /\ overlapped = FALSE /\ missed = FALSE
    /\ been = [c \in Column |-> Range(tasks[c])]

\* The page that replaces the board after an error.
Retry(r) ==
    /\ error /\ ~loading
    /\ Fetch(r)
    /\ UNCHANGED <<server, shown, adding, creating>>

ServeColumns(r) ==
    /\ requests[r].kind = "load" /\ requests[r].pc = "sent"
    /\ requests' = [requests EXCEPT ![r].pc = "served", ![r].ids = columns]
    /\ UNCHANGED <<server, view, history>>

\* The columns arrive and are shown without their tasks, which are then fetched.
LandColumns(r) ==
    LET ids == requests[r].ids
    IN /\ requests[r].kind = "load" /\ requests[r].pc = "served"
       /\ shown' = [i \in DOMAIN ids |-> [id |-> ids[i], tasks |-> <<>>, loading |-> TRUE]]
       /\ loading' = FALSE
       /\ requests' = [requests EXCEPT ![r] =
             [Idle EXCEPT !.kind = "tasks", !.pc = "sent", !.ids = ids,
                          !.got = [i \in DOMAIN ids |-> <<>>], !.left = DOMAIN ids]]
       /\ UNCHANGED <<server, error, adding, creating, history>>

FirstPage(list) == SubSeq(list, 1, Min({Limit, Len(list)}))

\* findAll: the first tasks of one column.  One that does not arrive counts as
\* a column without tasks.
ServeTasks(r, i) ==
    /\ i \in requests[r].left
    /\ requests' = [requests EXCEPT ![r].left = @ \ {i},
          ![r].got[i] = FirstPage(tasks[requests[r].ids[i]])]
    /\ UNCHANGED <<server, view, history>>

MissTasks(r, i) ==
    /\ i \in requests[r].left
    /\ requests' = [requests EXCEPT ![r].left = @ \ {i}]
    /\ missed' = TRUE
    /\ UNCHANGED <<server, view, changed, crossed, overlapped, been>>

\* The answers go to the columns by their place on the page.
Filled(got) ==
    [i \in DOMAIN shown |-> [shown[i] EXCEPT !.loading = FALSE,
        !.tasks = IF i \in DOMAIN got THEN got[i] ELSE <<>>]]

LandTasks(r) ==
    /\ requests[r].kind = "tasks" /\ requests[r].left = {}
    /\ shown' = Filled(requests[r].got)
    /\ Free(r)
    /\ UNCHANGED <<server, loading, error, adding, creating, history>>

------------------------------------------------------------------------------
(* Adding a task. *)

Board == ~loading /\ ~error

\* The cards of a column, once its tasks were fetched.
ShownTasks(i) == IF shown[i].loading THEN <<>> ELSE shown[i].tasks

\* The form is open, and its button is not disabled.
Addable == Board /\ adding # Nowhere /\ ~creating

\* The button of a column opens the form; Escape and Cancel close it.
OpenForm(c) ==
    /\ Board /\ c # adding
    /\ c # Nowhere => \E i \in DOMAIN shown : shown[i].id = c
    /\ adding' = c
    /\ UNCHANGED <<server, shown, loading, error, creating, requests, history>>

\* Enter, or the button Add.
HandleAddTask(r) ==
    /\ Addable
    /\ requests[r].pc = "idle"
    /\ requests' = [requests EXCEPT ![r] =
          [Idle EXCEPT !.kind = "create", !.pc = "sent", !.column = adding]]
    /\ creating' = TRUE
    /\ crossed' = (crossed \/ Fetching)
    /\ UNCHANGED <<server, shown, loading, error, adding, changed, overlapped, missed, been>>

New(t) == \A c \in Column : \A i \in DOMAIN tasks[c] : tasks[c][i] # t

\* create of tasks.service puts the task after the others.
ServeCreate(r, t) ==
    /\ requests[r].kind = "create" /\ requests[r].pc = "sent" /\ New(t)
    /\ tasks' = [tasks EXCEPT ![requests[r].column] = Append(@, t)]
    /\ requests' = [requests EXCEPT ![r].pc = "served", ![r].task = t]
    /\ been' = [been EXCEPT ![requests[r].column] = @ \cup {t}]
    /\ UNCHANGED <<columns, view, changed, crossed, overlapped, missed>>

\* A plausible error in the operator that follows, which no definition uses.
Added_first(c, t) ==
    [i \in DOMAIN shown |->
        IF shown[i].id = c THEN [shown[i] EXCEPT !.tasks = <<t>> \o @] ELSE shown[i]]

Added(c, t) ==
    [i \in DOMAIN shown |->
        IF shown[i].id = c THEN [shown[i] EXCEPT !.tasks = Append(@, t)] ELSE shown[i]]

LandCreate(r) ==
    LET q == requests[r]
    IN /\ q.kind = "create" /\ q.pc = "served"
       /\ shown' = Added(q.column, q.task)
       /\ adding' = Nowhere /\ creating' = FALSE
       /\ Free(r)
       /\ UNCHANGED <<server, loading, error, history>>

\* The columns, or the answer to a new task that may well be stored, do not arrive.
Fail(r) ==
    /\ requests[r].kind \in {"load", "create"}
    /\ error' = TRUE
    /\ loading' = (loading /\ requests[r].kind # "load")
    /\ creating' = (creating /\ requests[r].kind # "create")
    /\ Free(r)
    /\ UNCHANGED <<server, shown, adding, history>>

------------------------------------------------------------------------------
(* Other users.                                                               *)

\* The list without its element at a position.
WithoutAt(list, i) == SubSeq(list, 1, i - 1) \o SubSeq(list, i + 1, Len(list))

MoveTask(from, i, to) ==
    /\ from # to
    /\ tasks' = [tasks EXCEPT ![from] = WithoutAt(@, i), ![to] = Append(@, tasks[from][i])]
    /\ UNCHANGED columns

DeleteTask(c, i) == tasks' = [tasks EXCEPT ![c] = WithoutAt(@, i)] /\ UNCHANGED columns

CreateTask(c, t) == New(t) /\ tasks' = [tasks EXCEPT ![c] = Append(@, t)] /\ UNCHANGED columns

ReorderColumns ==
    columns # <<>> /\ columns' = Append(Tail(columns), Head(columns)) /\ UNCHANGED tasks

Others ==
    /\ \/ ReorderColumns
       \/ \E c \in Column :
             \/ \E t \in Task : CreateTask(c, t)
             \/ \E i \in DOMAIN tasks[c] : DeleteTask(c, i) \/ \E d \in Column : MoveTask(c, i, d)
    /\ changed' = TRUE
    /\ been' = [c \in Column |-> been[c] \cup Range(tasks'[c])]
    /\ UNCHANGED <<view, requests, crossed, overlapped, missed>>

------------------------------------------------------------------------------

Next ==
    \/ Others
    \/ \E c \in Column \cup {Nowhere} : OpenForm(c)
    \/ \E r \in Request :
        \/ Retry(r) \/ ServeColumns(r) \/ LandColumns(r) \/ LandTasks(r)
        \/ \E i \in requests[r].left : ServeTasks(r, i) \/ MissTasks(r, i)
        \/ HandleAddTask(r) \/ LandCreate(r) \/ Fail(r)
        \/ \E t \in Task : ServeCreate(r, t)

Spec == Init /\ [][Next]_vars

------------------------------------------------------------------------------

AtRest == Board /\ \A r \in Request : requests[r].pc = "idle"

\* fetchBoard, handleAddTask: a board at rest shows the stored columns in order
\* and each of their tasks once and in order, those added here included, when
\* nobody else changed the board since it began to fetch, no task was added
\* while the tasks were fetched, no fetch overtook another, every column arrived
\* and none is longer than an answer.
ShowsTheBoard ==
    AtRest /\ ~changed /\ ~crossed /\ ~overlapped /\ ~missed
           /\ (\A c \in Column : Len(tasks[c]) <= Limit) =>
        shown = [i \in DOMAIN columns |->
                    [id |-> columns[i], tasks |-> tasks[columns[i]], loading |-> FALSE]]

\* Filled: the answers are matched to the columns by place, so a task the page
\* shows in a column has been in that column, unless a fetch overtook another.
UnderItsColumn ==
    AtRest /\ ~overlapped =>
        \A i \in DOMAIN shown : Range(ShownTasks(i)) \subseteq been[shown[i].id]

BoardSettles == ShowsTheBoard /\ UnderItsColumn
=============================================================================
