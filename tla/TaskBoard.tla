------------------------------ MODULE TaskBoard ------------------------------
(***************************************************************************)
(* The tasks of a board and what hangs on them: tasks.service.ts with       *)
(* updateCompletionPercentage of projects.service.ts, the edits of columns  *)
(* and projects that meet them, and the trash purge of task-cron.service.ts.*)
(*                                                                          *)
(* Every HTTP request is a sequence of awaited statements; between two of   *)
(* them the statements of other requests run.  A request in flight is a     *)
(* record: pc names the statement it runs next and the other fields are     *)
(* what it has read so far, which may be stale when it is used.  The client *)
(* chooses the inputs where they are first used.                            *)
(*                                                                          *)
(* The lookups a handler makes before its first decision are one step.  A   *)
(* user who is not a member, or not the owner, is refused without effect    *)
(* (Reject).  Positions of tasks and columns, titles of tasks and websocket *)
(* broadcasts are left out.                                                 *)
(*                                                                          *)
(* A definition named X_fault, before X, is a plausible error in the code X *)
(* models; no definition uses it.                                           *)
(***************************************************************************)
EXTENDS Integers, FiniteSets, TypeOrm

CONSTANTS
    Task, Column, Project, User,   \* ids: task rows, column rows, projects, assignees
    Request,                       \* slots for requests in flight
    ProjectOf,                     \* columns.project_id, which no service changes
    InitialColumns, DoneColumns,   \* the columns a project starts with, those titled Done
    Kinds,                         \* the requests clients send
    CanAbort,                      \* may a request die between two statements
    NoTask, NoColumn, NoProject, Nobody

AllKinds == {"create", "update", "softDelete", "move", "assign", "unassign",
             "restore", "permanentDelete", "columnCreate", "columnUpdate",
             "columnDelete", "columnReorder", "projectUpdate", "projectDelete"}

ASSUME ConstantsAssumption ==
    /\ ProjectOf \in [Column -> Project]
    /\ InitialColumns \subseteq Column /\ DoneColumns \subseteq InitialColumns
    /\ Kinds \subseteq AllKinds /\ CanAbort \in BOOLEAN
    /\ IsFiniteSet(Task) /\ Column # {}
    /\ NoTask \notin Task /\ NoColumn \notin Column
    /\ NoProject \notin Project /\ Nobody \notin User

VARIABLES
    tasks,       \* the table tasks
    columns,     \* the table columns
    projects,    \* the table projects
    referenced,  \* tasks that a row of activity_logs or notifications references
    requests,    \* what each request in flight is about to do and has read
    \* History, read by no action:
    told,        \* the last thing a client was told about a task
    changedBy,   \* the kind of request whose change of a board is not yet counted
    fresh        \* recounts whose reads no change of their board has overtaken

database == <<tasks, columns, projects, referenced>>
history == <<told, changedBy, fresh>>
vars == <<tasks, columns, projects, referenced, requests, told, changedBy, fresh>>

------------------------------------------------------------------------------
(* Tables *)

Title == {"done", "other"}

TaskRow == [row: RowState, deletedAt: DeletedAt,
            column: Column, assignee: User \cup {Nobody}]
ColumnRow == [row: RowState, title: Title]
ProjectRow == [row: RowState, deletedAt: DeletedAt, completion: Nat]

\* The column of a row that is not there has no meaning.
SomeColumn == CHOOSE c \in Column : TRUE

NoTaskRow == [row |-> "none", deletedAt |-> "null",
              column |-> SomeColumn, assignee |-> Nobody]

Live(t) == Visible(tasks[t])
Trashed(t) == Exists(tasks[t]) /\ tasks[t].deletedAt # "null"

Cols(p) == {c \in Column : ProjectOf[c] = p /\ Exists(columns[c])}
DoneCols(p) == {c \in Cols(p) : columns[c].title = "done"}
LiveIn(C) == {t \in Task : Live(t) /\ tasks[t].column \in C}

\* What the completion of a project is computed from.
Board(p) == <<Cols(p), DoneCols(p), [c \in Cols(p) |-> LiveIn({c})]>>

\* Math.round((completedTasks / totalTasks) * 100)
Percent(completed, total) ==
    IF total = 0 THEN 0 ELSE (200 * completed + total) \div (2 * total)

\* columns.find returns the first done column of an unordered result.
DoneChoices(C, D) == IF D = {} THEN {NoColumn} ELSE D

ExactCompletions(p) ==
    {Percent(Cardinality(LiveIn({d})), Cardinality(LiveIn(Cols(p)))) :
        d \in DoneChoices(Cols(p), DoneCols(p))}

------------------------------------------------------------------------------
(* Requests in flight *)

PC == {"idle", "notFound", "column", "select", "write", "insert", "log", "remove",
       "columns", "total", "done", "percentage",
       "columnInsert", "columnSelect", "columnWrite", "columnCount", "columnRemove",
       "siblings", "siblingsSelect", "siblingsWrite", "projectSelect", "projectWrite"}
Field == {"row", "deletedAt", "column", "assignee", "title", "completion"}

RequestState ==
    [kind: AllKinds \cup {"none"}, pc: PC, task: Task \cup {NoTask},
     entity: TaskRow, column: Column, title: Title,
     project: Project \cup {NoProject}, projectEntity: ProjectRow,
     siblings: [Column -> ColumnRow], siblingPlans: [Column -> SUBSET Field],
     plan: SUBSET Field, counted: SUBSET Column, doneColumn: Column \cup {NoColumn},
     total: Nat, completed: Nat]

NoSiblings == [c \in Column |-> [row |-> "none", title |-> "other"]]
NoPlans == [c \in Column |-> {}]

NoProjectRow == [row |-> "none", deletedAt |-> "null", completion |-> 0]

Idle == [kind |-> "none", pc |-> "idle", task |-> NoTask, entity |-> NoTaskRow,
         column |-> SomeColumn, title |-> "other", project |-> NoProject,
         projectEntity |-> NoProjectRow, siblings |-> NoSiblings,
         siblingPlans |-> NoPlans, plan |-> {}, counted |-> {},
         doneColumn |-> NoColumn, total |-> 0, completed |-> 0]

Becomes(r, q) == requests' = [requests EXCEPT ![r] = q]
Ends(r) == Becomes(r, Idle)

TypeOK ==
    /\ tasks \in [Task -> TaskRow]
    /\ columns \in [Column -> ColumnRow]
    /\ projects \in [Project -> ProjectRow]
    /\ referenced \in SUBSET Task
    /\ requests \in [Request -> RequestState]
    /\ told \in [Task -> {"nothing", "present", "trashed"}]
    /\ changedBy \in [Project -> AllKinds \cup {"none", "movedAway", "overtaken"}]
    /\ fresh \in SUBSET Request

Init ==
    /\ tasks = [t \in Task |-> NoTaskRow]
    /\ columns = [c \in Column |->
                    [row |-> IF c \in InitialColumns THEN "there" ELSE "none",
                     title |-> IF c \in DoneColumns THEN "done" ELSE "other"]]
    /\ projects = [p \in Project |->
                    [row |-> "there", deletedAt |-> "null", completion |-> 0]]
    /\ referenced = {}
    /\ requests = [r \in Request |-> Idle]
    /\ told = [t \in Task |-> "nothing"]
    /\ changedBy = [p \in Project |-> "none"]
    /\ fresh = {}

\* History of a step of r that may change boards: which projects are no longer
\* counted and which recounts were overtaken.  A move counts its target only.
BoardsMayChange(r) ==
    LET q == requests[r]
        changed == {p \in Project : Board(p)' # Board(p)}
        by(p) == IF q.kind = "move" /\ p # q.project THEN "movedAway" ELSE q.kind
    IN /\ changedBy' = [p \in Project |-> IF p \in changed THEN by(p) ELSE changedBy[p]]
       /\ fresh' = {s \in fresh : requests[s].project \notin changed}

------------------------------------------------------------------------------
(* Tasks: every handler loads the row, finds its column and project, checks   *)
(* membership, changes the loaded entity and saves the whole of it.           *)

SaveKinds == {"update", "softDelete", "move", "assign", "unassign", "restore"}

\* The lookup a handler starts with: restore asks for deletedAt NOT NULL.
Lookup(kind, r) == Visible(r) /\ (kind = "restore" => r.deletedAt # "null")

LoadTask(r, kind, t) ==
    /\ requests[r].pc = "idle" /\ kind \in Kinds
    /\ tasks[t].row # "none"
    /\ Becomes(r, IF Lookup(kind, tasks[t])
                  THEN [Idle EXCEPT !.kind = kind, !.pc = "column", !.task = t,
                                    !.entity = tasks[t]]
                  ELSE [Idle EXCEPT !.kind = kind, !.pc = "notFound", !.task = t])
    /\ UNCHANGED <<database, history>>

\* The 404 of a lookup that found nothing reaches the client.
AnswerNotFound(r) ==
    /\ requests[r].pc = "notFound"
    /\ Ends(r)
    /\ UNCHANGED <<database, history>>

\* What the handler assigns to the loaded entity.  Only assign and move have
\* an input that matters here: an assignee and a target column.
Edited_onlyDeletedBy(kind, entity, assignee, target) ==
    CASE kind = "move"     -> [entity EXCEPT !.column = target]
      [] kind = "assign"   -> [entity EXCEPT !.assignee = assignee]
      [] kind = "unassign" -> [entity EXCEPT !.assignee = Nobody]
      [] OTHER             -> entity
Edited_moveUnassigns(kind, entity, assignee, target) ==
    CASE kind = "softDelete" -> [entity EXCEPT !.deletedAt = "recent"]
      [] kind = "move"       -> [entity EXCEPT !.column = target, !.assignee = Nobody]
      [] kind = "assign"     -> [entity EXCEPT !.assignee = assignee]
      [] kind = "unassign"   -> [entity EXCEPT !.assignee = Nobody]
      [] OTHER               -> entity
Edited(kind, entity, assignee, target) ==
    CASE kind = "softDelete" -> [entity EXCEPT !.deletedAt = "recent"]
      [] kind = "restore"    -> [entity EXCEPT !.deletedAt = "null"]
      [] kind = "move"       -> [entity EXCEPT !.column = target]
      [] kind = "assign"     -> [entity EXCEPT !.assignee = assignee]
      [] kind = "unassign"   -> [entity EXCEPT !.assignee = Nobody]
      [] OTHER               -> entity

\* columnRepo.findOne of the task's column; a column that is gone gives no
\* project, and then membership is not checked either.
FindColumn(r, assignee) ==
    LET q == requests[r]
        c == q.entity.column
    IN /\ q.pc = "column" /\ q.kind # "move"
       /\ Becomes(r, [q EXCEPT
            !.project = IF Exists(columns[c]) THEN ProjectOf[c] ELSE NoProject,
            !.entity = Edited(q.kind, @, assignee, c),
            !.pc = IF q.kind = "permanentDelete" THEN "remove" ELSE "select"])
       /\ UNCHANGED <<database, history>>

\* move looks up the target column and works for the target's project.
FindTarget(r, target) ==
    LET q == requests[r]
    IN /\ q.pc = "column" /\ q.kind = "move" /\ Exists(columns[target])
       /\ Becomes(r, [q EXCEPT !.project = ProjectOf[target],
                               !.entity = Edited(q.kind, @, Nobody, target),
                               !.pc = "select"])
       /\ UNCHANGED <<database, history>>

\* A target column that is not found, a user who is not a member of the
\* project, an assignee who is not one.
Reject(r) ==
    /\ requests[r].pc \in {"column", "insert"}
    /\ Ends(r)
    /\ UNCHANGED <<database, history>>

\* save: the SELECT that decides which columns are written ...
SelectTask(r) ==
    LET q == requests[r]
    IN /\ q.pc = "select"
       /\ Becomes(r, [q EXCEPT !.plan = SavePlan(q.entity, tasks[q.task]), !.pc = "write"])
       /\ UNCHANGED <<database, history>>

SavedTask(plan, entity, r) ==
    [row       |-> Written("row", plan, entity, r),
     deletedAt |-> Written("deletedAt", plan, entity, r),
     column    |-> Written("column", plan, entity, r),
     assignee  |-> Written("assignee", plan, entity, r)]

\* ... and the statement that writes them.  unassign logs nothing and ends.
WriteTask(r) ==
    LET q == requests[r]
        fails == SaveFails(q.plan, tasks[q.task])
    IN /\ q.pc = "write"
       /\ tasks' = IF SaveHits(q.plan, tasks[q.task]) /\ ~fails
                   THEN [tasks EXCEPT ![q.task] = SavedTask(q.plan, q.entity, @)]
                   ELSE tasks
       /\ IF fails \/ q.kind = "unassign" THEN Ends(r)
          ELSE Becomes(r, [q EXCEPT !.plan = {}, !.entity = NoTaskRow, !.pc = "log"])
       /\ UNCHANGED <<columns, projects, referenced, told>>
       /\ BoardsMayChange(r)

\* create: the column lookup ...
FindColumnToCreate(r, c) ==
    /\ requests[r].pc = "idle" /\ "create" \in Kinds
    /\ Exists(columns[c])
    /\ Becomes(r, [Idle EXCEPT !.kind = "create", !.pc = "insert",
                               !.column = c, !.project = ProjectOf[c]])
    /\ UNCHANGED <<database, history>>

\* ... and the INSERT.  Nothing in the database ties column_id to columns.
InsertTask(r, t, assignee) ==
    LET q == requests[r]
    IN /\ q.pc = "insert" /\ tasks[t].row = "none"
       /\ tasks' = [tasks EXCEPT ![t] = [row |-> "there", deletedAt |-> "null",
                                         column |-> q.column, assignee |-> assignee]]
       /\ Becomes(r, [q EXCEPT !.task = t, !.column = SomeColumn, !.pc = "log"])
       /\ UNCHANGED <<columns, projects, referenced, told>>
       /\ BoardsMayChange(r)

\* Which handlers recount the project they found.
Recounts_notOnDelete(kind) == kind \in {"create", "move", "restore"}
Recounts(kind) == kind \in {"create", "softDelete", "move", "restore"}

\* What the answer of a request says about its task.
Answers(q) ==
    told' = CASE q.kind \in {"create", "restore"} -> [told EXCEPT ![q.task] = "present"]
              [] q.kind = "softDelete"            -> [told EXCEPT ![q.task] = "trashed"]
              [] OTHER                            -> told

\* The inserts of the activity log and of the notification, both of which
\* reference the task: without it they fail, and so does the request.
LogActivity(r) ==
    LET q == requests[r]
        stored == Exists(tasks[q.task])
        recounts == Recounts(q.kind) /\ q.project # NoProject
    IN /\ q.pc = "log"
       /\ referenced' = IF stored THEN referenced \cup {q.task} ELSE referenced
       /\ IF stored /\ recounts THEN Becomes(r, [q EXCEPT !.pc = "columns"]) ELSE Ends(r)
       /\ IF stored /\ ~recounts THEN Answers(q) ELSE UNCHANGED told
       /\ UNCHANGED <<tasks, columns, projects, changedBy, fresh>>

\* Every foreign key to tasks is ON DELETE NO ACTION: one DELETE statement
\* removes all of T or, if another row references one of them, nothing.
CanDelete_cascade(T) == TRUE
CanDelete(T) == T \cap referenced = {}

\* permanentDelete: the DELETE fails while another row references the task.
RemoveTask(r) ==
    LET q == requests[r]
    IN /\ q.pc = "remove"
       /\ tasks' = IF Exists(tasks[q.task]) /\ CanDelete({q.task})
                   THEN [tasks EXCEPT ![q.task] = [NoTaskRow EXCEPT !.row = "removed"]]
                   ELSE tasks
       /\ Ends(r)
       /\ UNCHANGED <<columns, projects, referenced, told>>
       /\ BoardsMayChange(r)

------------------------------------------------------------------------------
(* updateCompletionPercentage: four awaited statements. *)

\* taskRepo.count of the tasks in some columns.
Tally_withTrash(C) == Cardinality({t \in Task : Exists(tasks[t]) /\ tasks[t].column \in C})
Tally(C) == Cardinality(LiveIn(C))

ReadColumns(r) ==
    LET q == requests[r]
    IN /\ q.pc = "columns"
       /\ IF Cols(q.project) = {}
          THEN Ends(r) /\ Answers(q) /\ UNCHANGED fresh
          ELSE /\ \E d \in DoneChoices(Cols(q.project), DoneCols(q.project)) :
                    Becomes(r, [q EXCEPT !.counted = Cols(q.project), !.doneColumn = d,
                                         !.pc = "total"])
               /\ fresh' = fresh \cup {r}
               /\ UNCHANGED told
       /\ UNCHANGED <<database, changedBy>>

CountTotal(r) ==
    LET q == requests[r]
    IN /\ q.pc = "total"
       /\ Becomes(r, [q EXCEPT !.total = Tally(q.counted), !.counted = {},
                               !.pc = IF q.doneColumn = NoColumn THEN "percentage" ELSE "done"])
       /\ UNCHANGED <<database, history>>

CountCompleted(r) ==
    LET q == requests[r]
    IN /\ q.pc = "done"
       /\ Becomes(r, [q EXCEPT !.completed = Tally({q.doneColumn}),
                               !.doneColumn = NoColumn, !.pc = "percentage"])
       /\ UNCHANGED <<database, history>>

\* repository.update writes this one column, whatever happened since the reads.
WriteCompletion(r) ==
    LET q == requests[r]
        p == q.project
    IN /\ q.pc = "percentage"
       /\ projects' = [projects EXCEPT ![p].completion = Percent(q.completed, q.total)]
       /\ changedBy' = [changedBy EXCEPT ![p] =
                          IF r \in fresh THEN "none"
                          ELSE IF @ = "none" THEN "overtaken" ELSE @]
       /\ fresh' = fresh \ {r}
       /\ Ends(r) /\ Answers(q)
       /\ UNCHANGED <<tasks, columns, referenced>>

------------------------------------------------------------------------------
(* Columns.  Only their positions are left out; what create, delete and        *)
(* reorder read to compute them is not.                                       *)

Owned(p) == projects[p].deletedAt = "null"

CheckOwnerToCreate(r, c, title) ==
    /\ requests[r].pc = "idle" /\ "columnCreate" \in Kinds
    /\ columns[c].row = "none" /\ Owned(ProjectOf[c])
    /\ Becomes(r, [Idle EXCEPT !.kind = "columnCreate", !.column = c, !.title = title,
                               !.pc = "columnInsert"])
    /\ UNCHANGED <<database, history>>

\* An INSERT of a new uuid.
InsertColumn(r) ==
    LET q == requests[r]
    IN /\ q.pc = "columnInsert" /\ columns[q.column].row = "none"
       /\ columns' = [columns EXCEPT ![q.column] = [row |-> "there", title |-> q.title]]
       /\ Ends(r)
       /\ UNCHANGED <<tasks, projects, referenced, told>>
       /\ BoardsMayChange(r)

\* update, delete and reorder find the column and check the owner.
FirstColumnPC ==
    [columnUpdate |-> "columnSelect", columnDelete |-> "columnCount", columnReorder |-> "siblings"]

LoadColumn(r, kind, c, title) ==
    /\ requests[r].pc = "idle" /\ kind \in Kinds \cap DOMAIN FirstColumnPC
    /\ Exists(columns[c]) /\ Owned(ProjectOf[c])
    /\ kind # "columnUpdate" => title = Idle.title
    /\ Becomes(r, [Idle EXCEPT !.kind = kind, !.column = c, !.title = title,
                               !.pc = FirstColumnPC[kind]])
    /\ UNCHANGED <<database, history>>

SavedColumn(plan, entity, r) ==
    [row |-> Written("row", plan, entity, r), title |-> Written("title", plan, entity, r)]

ColumnEntity(q) == [row |-> "there", title |-> q.title]

SelectColumn(r) ==
    LET q == requests[r]
    IN /\ q.pc = "columnSelect"
       /\ Becomes(r, [q EXCEPT !.plan = SavePlan(ColumnEntity(q), columns[q.column]),
                               !.pc = "columnWrite"])
       /\ UNCHANGED <<database, history>>

WriteColumn(r) ==
    LET q == requests[r]
        old == columns[q.column]
    IN /\ q.pc = "columnWrite"
       /\ columns' = IF SaveHits(q.plan, old) /\ ~SaveFails(q.plan, old)
                     THEN [columns EXCEPT ![q.column] =
                             SavedColumn(q.plan, ColumnEntity(q), old)]
                     ELSE columns
       /\ Ends(r)
       /\ UNCHANGED <<tasks, projects, referenced, told>>
       /\ BoardsMayChange(r)

\* delete: taskRepo.count of the column's tasks; any is a 400 ...
HoldsTasks_offByOne(c) == Cardinality(LiveIn({c})) > 1
HoldsTasks(c) == Cardinality(LiveIn({c})) > 0

CountColumnTasks(r) ==
    LET q == requests[r]
    IN /\ q.pc = "columnCount"
       /\ IF HoldsTasks(q.column) THEN Ends(r)
          ELSE Becomes(r, [q EXCEPT !.pc = "columnRemove"])
       /\ UNCHANGED <<database, history>>

\* ... and a column without tasks, as counted, is removed.
RemoveColumn(r) ==
    LET q == requests[r]
    IN /\ q.pc = "columnRemove"
       /\ columns' = [columns EXCEPT ![q.column].row = "removed"]
       /\ Becomes(r, [q EXCEPT !.pc = "siblings"])
       /\ UNCHANGED <<tasks, projects, referenced, told>>
       /\ BoardsMayChange(r)

\* delete and reorder load all columns of the project, renumber them ...
FindSiblings(r) ==
    LET q == requests[r]
        C == Cols(ProjectOf[q.column])
    IN /\ q.pc = "siblings"
       /\ Becomes(r, [q EXCEPT !.pc = "siblingsSelect", !.siblings =
                        [c \in Column |-> IF c \in C THEN columns[c] ELSE NoSiblings[c]]])
       /\ UNCHANGED <<database, history>>

\* ... and save them, unless reorder finds the column where it should be.
SelectSiblings(r) ==
    LET q == requests[r]
        plan(c) == IF Exists(q.siblings[c]) THEN SavePlan(q.siblings[c], columns[c]) ELSE {}
    IN /\ q.pc = "siblingsSelect"
       /\ \/ Becomes(r, [q EXCEPT !.pc = "siblingsWrite",
                                  !.siblingPlans = [c \in Column |-> plan(c)]])
          \/ q.kind = "columnReorder" /\ Ends(r)
       /\ UNCHANGED <<database, history>>

\* One transaction: an INSERT that fails rolls all of it back.
WriteSiblings(r) ==
    LET q == requests[r]
        plan == q.siblingPlans
        fails == \E c \in Column : SaveFails(plan[c], columns[c])
        saved(c) == IF SaveHits(plan[c], columns[c])
                    THEN SavedColumn(plan[c], q.siblings[c], columns[c]) ELSE columns[c]
    IN /\ q.pc = "siblingsWrite"
       /\ columns' = IF fails THEN columns ELSE [c \in Column |-> saved(c)]
       /\ Ends(r)
       /\ UNCHANGED <<tasks, projects, referenced, told>>
       /\ BoardsMayChange(r)

------------------------------------------------------------------------------
(* Projects: update, archive and restore save the whole loaded row and differ *)
(* in columns that are left out; delete also sets deletedAt.                  *)

LoadProject(r, kind, p) ==
    /\ requests[r].pc = "idle" /\ kind \in Kinds \cap {"projectUpdate", "projectDelete"}
    /\ Visible(projects[p])
    /\ Becomes(r, [Idle EXCEPT !.kind = kind, !.project = p, !.pc = "projectSelect",
                 !.projectEntity = [projects[p] EXCEPT !.deletedAt =
                                      IF kind = "projectDelete" THEN "recent" ELSE @]])
    /\ UNCHANGED <<database, history>>

SelectProject(r) ==
    LET q == requests[r]
    IN /\ q.pc = "projectSelect"
       /\ Becomes(r, [q EXCEPT !.plan = SavePlan(q.projectEntity, projects[q.project]),
                               !.pc = "projectWrite"])
       /\ UNCHANGED <<database, history>>

\* The activity log that follows references the project, which no request removes.
WriteProject(r) ==
    LET q == requests[r]
        p == q.project
        saved == [row |-> "there",
                  deletedAt |-> Written("deletedAt", q.plan, q.projectEntity, projects[p]),
                  completion |-> Written("completion", q.plan, q.projectEntity, projects[p])]
    IN /\ q.pc = "projectWrite"
       /\ projects' = [projects EXCEPT ![p] = saved]
       /\ changedBy' = [changedBy EXCEPT ![p] =
                          IF saved.completion = projects[p].completion THEN @ ELSE "overtaken"]
       /\ Ends(r)
       /\ UNCHANGED <<tasks, columns, referenced, told, fresh>>

------------------------------------------------------------------------------
(* The daily purge, the passage of thirty days, and failures. *)

Expired == {t \in Task : Exists(tasks[t]) /\ tasks[t].deletedAt = "expired"}

\* One DELETE statement: a single referenced row fails it as a whole, and the
\* job logs the error and returns.
CleanupOldTrash ==
    /\ CanDelete(Expired)
    /\ tasks' = [t \in Task |-> IF t \in Expired
                                THEN [NoTaskRow EXCEPT !.row = "removed"] ELSE tasks[t]]
    /\ UNCHANGED <<columns, projects, referenced, requests, history>>

\* A trashed row gets thirty days old.  No request lives that long.
Expire(t) ==
    /\ tasks[t].deletedAt = "recent" /\ Exists(tasks[t])
    /\ \A r \in Request : requests[r].task # t
    /\ tasks' = [tasks EXCEPT ![t].deletedAt = "expired"]
    /\ UNCHANGED <<columns, projects, referenced, requests, history>>

\* The process dies, or a statement fails, and the rest of the request with it.
Abort(r) ==
    /\ CanAbort /\ requests[r].pc # "idle"
    /\ Ends(r)
    /\ fresh' = fresh \ {r}
    /\ changedBy' = [p \in Project |-> IF changedBy[p] = "none" THEN "none" ELSE "overtaken"]
    /\ UNCHANGED <<database, told>>

------------------------------------------------------------------------------

TaskStep(r) ==
    \/ \E kind \in SaveKinds \cup {"permanentDelete"}, t \in Task : LoadTask(r, kind, t)
    \/ AnswerNotFound(r)
    \/ \E u \in User : FindColumn(r, u)
    \/ \E c \in Column : FindTarget(r, c)
    \/ Reject(r)
    \/ SelectTask(r)
    \/ WriteTask(r)
    \/ \E c \in Column : FindColumnToCreate(r, c)
    \/ \E t \in Task, u \in User \cup {Nobody} : InsertTask(r, t, u)
    \/ LogActivity(r)
    \/ RemoveTask(r)

RecountStep(r) ==
    ReadColumns(r) \/ CountTotal(r) \/ CountCompleted(r) \/ WriteCompletion(r)

ColumnStep(r) ==
    \/ \E c \in Column, title \in Title : CheckOwnerToCreate(r, c, title)
    \/ InsertColumn(r)
    \/ \E kind \in AllKinds, c \in Column, title \in Title : LoadColumn(r, kind, c, title)
    \/ SelectColumn(r)
    \/ WriteColumn(r)
    \/ CountColumnTasks(r)
    \/ RemoveColumn(r)
    \/ FindSiblings(r)
    \/ SelectSiblings(r)
    \/ WriteSiblings(r)

ProjectStep(r) ==
    \/ \E kind \in AllKinds, p \in Project : LoadProject(r, kind, p)
    \/ SelectProject(r)
    \/ WriteProject(r)

Next ==
    \/ \E r \in Request :
          TaskStep(r) \/ RecountStep(r) \/ ColumnStep(r) \/ ProjectStep(r) \/ Abort(r)
    \/ CleanupOldTrash
    \/ \E t \in Task : Expire(t)

Spec == Init /\ [][Next]_vars

\* The purge runs every midnight, and the server answers what it has begun.
Fairness ==
    /\ WF_vars(CleanupOldTrash)
    /\ \A r \in Request : WF_vars(requests[r].pc # "idle" /\ (TaskStep(r) \/ RecountStep(r)))

FairSpec == Spec /\ Fairness

------------------------------------------------------------------------------
(* Properties that hold however requests interleave and wherever they die.    *)

\* updateCompletionPercentage: unless a change of the board has not been
\* counted yet, or a recount or a save of the project was overtaken by one, the
\* stored completion is the percentage of the board.
CountedIsExact ==
    \A p \in Project : changedBy[p] = "none" => projects[p].completion \in ExactCompletions(p)

\* tasks.service create, softDelete: the row of a task a client has been told of
\* is in the table for good, in the trash or not, because permanentDelete and
\* the purge cannot remove a row its activity log references.
AnsweredTasksPersist ==
    \A t \in Task : told[t] # "nothing" => Exists(tasks[t])

------------------------------------------------------------------------------
(* Properties of requests that do not overlap.                                *)

Quiescent == \A r \in Request : requests[r].pc = "idle"

\* create, softDelete, move: when no request is in flight, all that a project's
\* completion does not count is a task moved to another project, an edit of
\* columns, and a change whose request died before its recount or the permanent
\* delete of the task it created.
RecountsSettle ==
    Quiescent => \A p \in Project :
        changedBy[p] \in {"none", "movedAway", "overtaken", "permanentDelete",
                          "columnCreate", "columnUpdate", "columnDelete"}

\* softDelete: a task whose deletion was answered is not on the board.
DeletedStaysDeleted == \A t \in Task : told[t] = "trashed" => ~Live(t)

\* columns.service delete: a task on the board is in a column that exists.
NoTaskWithoutColumn == \A t \in Task : Live(t) => Exists(columns[tasks[t].column])

ChangedByItsRequest(t) ==
    LET by(kinds) == \E r \in Request : requests[r].task = t /\ requests[r].kind \in kinds
    IN Exists(tasks[t]) /\ Exists(tasks[t])' =>
         /\ tasks[t].assignee' # tasks[t].assignee => by({"assign", "unassign"})
         /\ tasks[t].column' # tasks[t].column => by({"move"})
         /\ Live(t) /\ ~Live(t)' => by({"softDelete"})
         /\ ~Live(t) /\ Live(t)' => by({"restore"})

\* tasks.service save: only assign and unassign change an assignee, only move a
\* column, only softDelete and restore take a task from and to the board.
EditsItsOwnColumns == [][\A t \in Task : ChangedByItsRequest(t)]_vars

------------------------------------------------------------------------------
(* What the documents and messages of the repository say and the code does not. *)

\* PROJECT_API, POST /tasks/:id/restore: a task in the trash can be restored;
\* it is not answered with "Task not found in trash".
RestoreFindsTrash ==
    \A r \in Request : requests[r].pc = "notFound" /\ requests[r].kind = "restore"
        => ~Trashed(requests[r].task)

\* PROJECT_KNOWLEDGE: the auto-cleanup job permanently deletes expired tasks.
TrashIsEmptied ==
    \A t \in Task : (Exists(tasks[t]) /\ tasks[t].deletedAt = "expired")
                        ~> ~Exists(tasks[t])
=============================================================================
