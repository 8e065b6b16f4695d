--------------------------- MODULE TaskBoard_proofs ---------------------------
(***************************************************************************)
(* Theorems about TaskBoard, for any tasks, columns, projects and number of  *)
(* requests in flight.                                                       *)
(***************************************************************************)
EXTENDS TaskBoard, TLAPS, FiniteSetTheorems

\* A request that works on a task or on a project has one.
Addressed ==
    \A r \in Request :
        /\ requests[r].pc \in {"notFound", "column", "select", "write", "log", "remove",
                               "columns", "total", "done", "percentage"}
             => requests[r].task \in Task
        /\ requests[r].pc \in {"columns", "total", "done", "percentage",
                               "projectSelect", "projectWrite"}
             => requests[r].project \in Project

Typed == TypeOK /\ Addressed

LEMMA IdleType == Idle \in RequestState
  <1>1. SomeColumn \in Column
    BY ConstantsAssumption DEF SomeColumn
  <1>2. NoTaskRow \in TaskRow
    BY <1>1 DEF NoTaskRow, TaskRow, RowState, DeletedAt
  <1>3. NoProjectRow \in ProjectRow
    BY DEF NoProjectRow, ProjectRow, RowState, DeletedAt
  <1>4. NoSiblings \in [Column -> ColumnRow] /\ NoPlans \in [Column -> SUBSET Field]
    BY DEF NoSiblings, NoPlans, ColumnRow, RowState, Title
  <1> QED
    BY <1>1, <1>2, <1>3, <1>4 DEF Idle, RequestState, PC, Title

\* The count of some tasks is a number.
LEMMA TallyType == ASSUME NEW C PROVE Tally(C) \in Nat
  <1>1. LiveIn(C) \subseteq Task
    BY DEF LiveIn
  <1>2. IsFiniteSet(LiveIn(C))
    BY <1>1, FS_Subset, ConstantsAssumption
  <1> QED
    BY <1>2, FS_CardinalityType DEF Tally

LEMMA DivType == ASSUME NEW a \in Nat, NEW b \in Nat \ {0} PROVE a \div b \in Nat
  OBVIOUS

LEMMA PercentType == ASSUME NEW c \in Nat, NEW t \in Nat PROVE Percent(c, t) \in Nat
  <1>1. CASE t = 0
    BY <1>1 DEF Percent
  <1>2. CASE t # 0
    <2>1. 200 * c + t \in Nat /\ 2 * t \in Nat \ {0}
      BY <1>2
    <2> QED
      BY <1>2, <2>1, DivType DEF Percent
  <1> QED
    BY <1>1, <1>2

LEMMA InitTyped == Init => Typed
  <1> SUFFICES ASSUME Init PROVE Typed
    OBVIOUS
  <1>1. tasks \in [Task -> TaskRow]
    BY ConstantsAssumption DEF Init, NoTaskRow, TaskRow, RowState, DeletedAt, SomeColumn
  <1>2. requests \in [Request -> RequestState]
    BY IdleType DEF Init
  <1>3. TypeOK
    BY <1>1, <1>2 DEF Init, TypeOK, ColumnRow, ProjectRow, RowState, DeletedAt, Title
  <1>4. Addressed
    BY DEF Init, Addressed, Idle
  <1> QED
    BY <1>3, <1>4 DEF Typed

------------------------------------------------------------------------------
(* What the helpers of the actions return. *)

LEMMA SomeRows == SomeColumn \in Column /\ NoTaskRow \in TaskRow
  <1>1. SomeColumn \in Column
    BY ConstantsAssumption DEF SomeColumn
  <1> QED
    BY <1>1 DEF NoTaskRow, TaskRow, RowState, DeletedAt

LEMMA EditedType ==
  ASSUME NEW kind, NEW e \in TaskRow, NEW u \in User \cup {Nobody}, NEW c \in Column
  PROVE  Edited(kind, e, u, c) \in TaskRow
  BY DEF Edited, TaskRow, DeletedAt

LEMMA PlanType ==
  ASSUME NEW e, NEW r, e \in TaskRow \/ e \in ColumnRow \/ e \in ProjectRow
  PROVE  SavePlan(e, r) \in SUBSET Field
  <1>1. DOMAIN e \subseteq Field
    BY DEF TaskRow, ColumnRow, ProjectRow, Field
  <1> QED
    BY <1>1 DEF SavePlan

LEMMA SavedTaskType ==
  ASSUME NEW plan, NEW e \in TaskRow, NEW r \in TaskRow
  PROVE  SavedTask(plan, e, r) \in TaskRow
  BY DEF SavedTask, Written, TaskRow

LEMMA DoneChoicesType ==
  ASSUME NEW p, NEW d \in DoneChoices(Cols(p), DoneCols(p))
  PROVE  Cols(p) \in SUBSET Column /\ d \in Column \cup {NoColumn}
  BY DEF DoneChoices, Cols, DoneCols

\* The histories keep their types whatever a step does to the boards.
LEMMA HistoryTyped ==
  ASSUME Typed, NEW r \in Request, BoardsMayChange(r)
  PROVE  /\ changedBy' \in [Project -> AllKinds \cup {"none", "movedAway", "overtaken"}]
         /\ fresh' \in SUBSET Request
  <1>1. requests[r].kind \in AllKinds \cup {"none"}
    BY DEF Typed, TypeOK, RequestState
  <1> QED
    BY <1>1 DEF Typed, TypeOK, BoardsMayChange

\* A slot that takes a typed and addressed record leaves all slots so.
LEMMA BecomesTyped ==
  ASSUME Typed, NEW r \in Request, NEW q \in RequestState, Becomes(r, q),
         q.pc \in {"notFound", "column", "select", "write", "log", "remove",
                   "columns", "total", "done", "percentage"} => q.task \in Task,
         q.pc \in {"columns", "total", "done", "percentage",
                   "projectSelect", "projectWrite"} => q.project \in Project
  PROVE  requests' \in [Request -> RequestState] /\ Addressed'
  <1>1. requests' = [requests EXCEPT ![r] = q] /\ requests \in [Request -> RequestState]
    BY DEF Becomes, Typed, TypeOK
  <1>2. requests' \in [Request -> RequestState]
    BY <1>1
  <1>3. ASSUME NEW s \in Request
        PROVE  requests'[s] = IF s = r THEN q ELSE requests[s]
    BY <1>1
  <1>4. Addressed'
    BY <1>3 DEF Typed, Addressed
  <1> QED
    BY <1>2, <1>4

LEMMA EndsTyped ==
  ASSUME Typed, NEW r \in Request, Ends(r)
  PROVE  requests' \in [Request -> RequestState] /\ Addressed'
  BY IdleType, BecomesTyped DEF Ends, Idle

------------------------------------------------------------------------------
(* Each step keeps the types. *)

LEMMA TaskStepTyped ==
  ASSUME Typed, NEW r \in Request, TaskStep(r)
  PROVE  Typed'
  <1> DEFINE q == requests[r]
  <1>1. /\ q \in RequestState
        /\ tasks \in [Task -> TaskRow]
        /\ q.pc \in {"notFound", "column", "select", "write", "log", "remove",
                     "columns", "total", "done", "percentage"} => q.task \in Task
    BY DEF Typed, TypeOK, Addressed
  <1>2. ASSUME UNCHANGED <<database, history>>,
               requests' \in [Request -> RequestState] /\ Addressed'
        PROVE  Typed'
    BY <1>2 DEF Typed, TypeOK, database, history
  <1>3. ASSUME NEW kind \in SaveKinds \cup {"permanentDelete"}, NEW t \in Task,
               LoadTask(r, kind, t)
        PROVE  Typed'
    <2> DEFINE found == [Idle EXCEPT !.kind = kind, !.pc = "column", !.task = t,
                                     !.entity = tasks[t]]
               missed == [Idle EXCEPT !.kind = kind, !.pc = "notFound", !.task = t]
    <2>1. kind \in AllKinds
      BY DEF SaveKinds, AllKinds
    <2>2. tasks[t] \in TaskRow
      BY <1>1
    <2>3. found \in RequestState /\ found.pc = "column" /\ found.task = t
      BY <2>1, <2>2, IdleType DEF RequestState, PC, Idle
    <2>4. missed \in RequestState /\ missed.pc = "notFound" /\ missed.task = t
      BY <2>1, IdleType DEF RequestState, PC, Idle
    <2>5. Becomes(r, found) \/ Becomes(r, missed)
      BY <1>3 DEF LoadTask
    <2> HIDE DEF found, missed
    <2>6. requests' \in [Request -> RequestState] /\ Addressed'
      BY <2>3, <2>4, <2>5, BecomesTyped
    <2> QED
      BY <1>2, <1>3, <2>6 DEF LoadTask
  <1>4. CASE AnswerNotFound(r)
    BY <1>2, <1>4, EndsTyped DEF AnswerNotFound
  <1>5. ASSUME NEW u \in User, FindColumn(r, u)
        PROVE  Typed'
    <2> DEFINE c == q.entity.column
               p == IF Exists(columns[c]) THEN ProjectOf[c] ELSE NoProject
               e == Edited(q.kind, q.entity, u, c)
               pc == IF q.kind = "permanentDelete" THEN "remove" ELSE "select"
               n == [q EXCEPT !.project = p, !.entity = e, !.pc = pc]
    <2>1. q.entity \in TaskRow /\ c \in Column
      BY <1>1 DEF RequestState, TaskRow
    <2>2. e \in TaskRow
      BY <2>1, EditedType
    <2>3. p \in Project \cup {NoProject} /\ pc \in {"remove", "select"}
      BY <2>1, ConstantsAssumption
    <2>4. q.task \in Task /\ Becomes(r, n)
      BY <1>1, <1>5 DEF FindColumn
    <2> HIDE DEF p, e, pc
    <2>5. n \in RequestState /\ n.pc \in {"remove", "select"} /\ n.task = q.task
      BY <1>1, <2>2, <2>3 DEF RequestState, PC
    <2> HIDE DEF n
    <2>6. requests' \in [Request -> RequestState] /\ Addressed'
      BY <2>4, <2>5, BecomesTyped
    <2> QED
      BY <1>2, <1>5, <2>6 DEF FindColumn
  <1>6. ASSUME NEW c \in Column, FindTarget(r, c)
        PROVE  Typed'
    <2> DEFINE n == [q EXCEPT !.project = ProjectOf[c],
                              !.entity = Edited(q.kind, @, Nobody, c),
                              !.pc = "select"]
    <2>1. Edited(q.kind, q.entity, Nobody, c) \in TaskRow
      BY <1>1, EditedType DEF RequestState
    <2>2. ProjectOf[c] \in Project
      BY ConstantsAssumption
    <2>3. n \in RequestState /\ n.pc = "select" /\ n.task = q.task
      BY <1>1, <2>1, <2>2 DEF RequestState, PC
    <2>4. q.task \in Task /\ Becomes(r, n)
      BY <1>1, <1>6 DEF FindTarget
    <2> HIDE DEF n
    <2>5. requests' \in [Request -> RequestState] /\ Addressed'
      BY <2>3, <2>4, BecomesTyped
    <2> QED
      BY <1>2, <1>6, <2>5 DEF FindTarget
  <1>7. CASE Reject(r)
    BY <1>2, <1>7, EndsTyped DEF Reject
  <1>8. CASE SelectTask(r)
    <2> DEFINE n == [q EXCEPT !.plan = SavePlan(q.entity, tasks[q.task]), !.pc = "write"]
    <2>1. SavePlan(q.entity, tasks[q.task]) \in SUBSET Field
      BY <1>1, PlanType DEF RequestState
    <2>2. n \in RequestState /\ n.pc = "write" /\ n.task = q.task
      BY <1>1, <2>1 DEF RequestState, PC
    <2>3. q.task \in Task /\ Becomes(r, n)
      BY <1>1, <1>8 DEF SelectTask
    <2> HIDE DEF n
    <2>4. requests' \in [Request -> RequestState] /\ Addressed'
      BY <2>2, <2>3, BecomesTyped
    <2> QED
      BY <1>2, <1>8, <2>4 DEF SelectTask
  <1>9. CASE WriteTask(r)
    <2> DEFINE n == [q EXCEPT !.plan = {}, !.entity = NoTaskRow, !.pc = "log"]
    <2>1. q.task \in Task /\ q.entity \in TaskRow /\ tasks[q.task] \in TaskRow
      BY <1>1, <1>9 DEF WriteTask, RequestState
    <2>2. tasks' \in [Task -> TaskRow]
      BY <1>1, <1>9, <2>1, SavedTaskType DEF WriteTask
    <2>3. n \in RequestState /\ n.pc = "log" /\ n.task = q.task
      BY <1>1, SomeRows DEF RequestState, PC
    <2>4. Ends(r) \/ Becomes(r, n)
      BY <1>9 DEF WriteTask
    <2> HIDE DEF n
    <2>5. requests' \in [Request -> RequestState] /\ Addressed'
      BY <2>1, <2>3, <2>4, BecomesTyped, EndsTyped
    <2>6. BoardsMayChange(r) /\ UNCHANGED <<columns, projects, referenced, told>>
      BY <1>9 DEF WriteTask
    <2> QED
      BY <2>2, <2>5, <2>6, HistoryTyped DEF Typed, TypeOK
  <1>10. ASSUME NEW c \in Column, FindColumnToCreate(r, c)
         PROVE  Typed'
    <2> DEFINE n == [Idle EXCEPT !.kind = "create", !.pc = "insert",
                                 !.column = c, !.project = ProjectOf[c]]
    <2>1. n \in RequestState /\ n.pc = "insert"
      BY IdleType, ConstantsAssumption DEF RequestState, PC, AllKinds, Idle
    <2>2. Becomes(r, n)
      BY <1>10 DEF FindColumnToCreate
    <2> HIDE DEF n
    <2>3. requests' \in [Request -> RequestState] /\ Addressed'
      BY <2>1, <2>2, BecomesTyped
    <2> QED
      BY <1>2, <1>10, <2>3 DEF FindColumnToCreate
  <1>11. ASSUME NEW t \in Task, NEW u \in User \cup {Nobody}, InsertTask(r, t, u)
         PROVE  Typed'
    <2> DEFINE n == [q EXCEPT !.task = t, !.column = SomeColumn, !.pc = "log"]
    <2>1. [row |-> "there", deletedAt |-> "null", column |-> q.column, assignee |-> u]
            \in TaskRow
      BY <1>1 DEF RequestState, TaskRow, RowState, DeletedAt
    <2>2. tasks' \in [Task -> TaskRow]
      BY <1>1, <1>11, <2>1 DEF InsertTask
    <2>3. n \in RequestState /\ n.pc = "log" /\ n.task = t
      BY <1>1, SomeRows DEF RequestState, PC
    <2>4. Becomes(r, n)
      BY <1>11 DEF InsertTask
    <2> HIDE DEF n
    <2>5. requests' \in [Request -> RequestState] /\ Addressed'
      BY <2>3, <2>4, BecomesTyped
    <2>6. BoardsMayChange(r) /\ UNCHANGED <<columns, projects, referenced, told>>
      BY <1>11 DEF InsertTask
    <2> QED
      BY <2>2, <2>5, <2>6, HistoryTyped DEF Typed, TypeOK
  <1>12. CASE LogActivity(r)
    <2> DEFINE n == [q EXCEPT !.pc = "columns"]
    <2>1. q.task \in Task
      BY <1>1, <1>12 DEF LogActivity
    <2>2. ASSUME Becomes(r, n), q.project # NoProject
          PROVE  requests' \in [Request -> RequestState] /\ Addressed'
      <3>1. n \in RequestState /\ n.task = q.task /\ n.project = q.project
        BY <1>1 DEF RequestState, PC
      <3>2. q.project \in Project
        BY <1>1, <2>2 DEF RequestState
      <3> HIDE DEF n
      <3> QED
        BY <2>1, <2>2, <3>1, <3>2, BecomesTyped
    <2>3. ASSUME Ends(r)
          PROVE  requests' \in [Request -> RequestState] /\ Addressed'
      BY <2>3, EndsTyped
    <2>4. requests' \in [Request -> RequestState] /\ Addressed'
      BY <1>12, <2>2, <2>3 DEF LogActivity
    <2>5. told' \in [Task -> {"nothing", "present", "trashed"}]
      BY <1>12 DEF LogActivity, Answers, Typed, TypeOK
    <2>6. referenced' \in SUBSET Task
      BY <1>12, <2>1 DEF LogActivity, Typed, TypeOK
    <2> QED
      BY <1>12, <2>4, <2>5, <2>6 DEF LogActivity, Typed, TypeOK
  <1>13. CASE RemoveTask(r)
    <2>1. [NoTaskRow EXCEPT !.row = "removed"] \in TaskRow
      BY SomeRows DEF NoTaskRow, TaskRow, RowState
    <2>2. tasks' \in [Task -> TaskRow]
      BY <1>1, <1>13, <2>1 DEF RemoveTask
    <2>3. requests' \in [Request -> RequestState] /\ Addressed'
      BY <1>13, EndsTyped DEF RemoveTask
    <2>4. BoardsMayChange(r) /\ UNCHANGED <<columns, projects, referenced, told>>
      BY <1>13 DEF RemoveTask
    <2> QED
      BY <2>2, <2>3, <2>4, HistoryTyped DEF Typed, TypeOK
  <1> QED
    BY <1>3, <1>4, <1>5, <1>6, <1>7, <1>8, <1>9, <1>10, <1>11, <1>12, <1>13 DEF TaskStep

LEMMA RecountStepTyped ==
  ASSUME Typed, NEW r \in Request, RecountStep(r)
  PROVE  Typed'
  <1> DEFINE q == requests[r]
  <1>1. /\ q \in RequestState
        /\ q.pc \in {"columns", "total", "done", "percentage"}
             => q.task \in Task /\ q.project \in Project
    BY DEF Typed, TypeOK, Addressed
  <1>2. Answers(q) => told' \in [Task -> {"nothing", "present", "trashed"}]
    BY DEF Answers, Typed, TypeOK
  <1>3. CASE ReadColumns(r)
    <2>1. q.task \in Task /\ q.project \in Project
      BY <1>1, <1>3 DEF ReadColumns
    <2>2. CASE Cols(q.project) = {}
      BY <1>2, <1>3, <2>2, EndsTyped DEF ReadColumns, database, Typed, TypeOK
    <2>3. CASE Cols(q.project) # {}
      <3> DEFINE n(d) == [q EXCEPT !.counted = Cols(q.project), !.doneColumn = d,
                                   !.pc = "total"]
      <3>1. PICK d \in DoneChoices(Cols(q.project), DoneCols(q.project)) : Becomes(r, n(d))
        BY <1>3, <2>3 DEF ReadColumns
      <3>2. n(d) \in RequestState /\ n(d).task = q.task /\ n(d).project = q.project
        BY <1>1, DoneChoicesType DEF RequestState, PC
      <3> HIDE DEF n
      <3>3. requests' \in [Request -> RequestState] /\ Addressed'
        BY <2>1, <3>1, <3>2, BecomesTyped
      <3> QED
        BY <1>3, <2>3, <3>3 DEF ReadColumns, database, Typed, TypeOK
    <2> QED
      BY <2>2, <2>3
  <1>4. CASE CountTotal(r)
    <2> DEFINE n == [q EXCEPT !.total = Tally(q.counted), !.counted = {},
                              !.pc = IF q.doneColumn = NoColumn THEN "percentage" ELSE "done"]
    <2>1. n \in RequestState /\ n.task = q.task /\ n.project = q.project
      BY <1>1, TallyType DEF RequestState, PC
    <2>2. q.task \in Task /\ q.project \in Project /\ Becomes(r, n)
      BY <1>1, <1>4 DEF CountTotal
    <2> HIDE DEF n
    <2>3. requests' \in [Request -> RequestState] /\ Addressed'
      BY <2>1, <2>2, BecomesTyped
    <2> QED
      BY <1>4, <2>3 DEF CountTotal, database, history, Typed, TypeOK
  <1>5. CASE CountCompleted(r)
    <2> DEFINE n == [q EXCEPT !.completed = Tally({q.doneColumn}),
                              !.doneColumn = NoColumn, !.pc = "percentage"]
    <2>1. n \in RequestState /\ n.task = q.task /\ n.project = q.project
      BY <1>1, TallyType DEF RequestState, PC
    <2>2. q.task \in Task /\ q.project \in Project /\ Becomes(r, n)
      BY <1>1, <1>5 DEF CountCompleted
    <2> HIDE DEF n
    <2>3. requests' \in [Request -> RequestState] /\ Addressed'
      BY <2>1, <2>2, BecomesTyped
    <2> QED
      BY <1>5, <2>3 DEF CountCompleted, database, history, Typed, TypeOK
  <1>6. CASE WriteCompletion(r)
    <2>1. q.project \in Project /\ Percent(q.completed, q.total) \in Nat
      BY <1>1, <1>6, PercentType DEF WriteCompletion, RequestState
    <2>2. projects' \in [Project -> ProjectRow]
      BY <1>6, <2>1 DEF WriteCompletion, Typed, TypeOK, ProjectRow
    <2>3. changedBy' \in [Project -> AllKinds \cup {"none", "movedAway", "overtaken"}]
      BY <1>6 DEF WriteCompletion, Typed, TypeOK
    <2>4. requests' \in [Request -> RequestState] /\ Addressed'
      BY <1>6, EndsTyped DEF WriteCompletion
    <2> QED
      BY <1>2, <1>6, <2>2, <2>3, <2>4 DEF WriteCompletion, Typed, TypeOK
  <1> QED
    BY <1>3, <1>4, <1>5, <1>6 DEF RecountStep

LEMMA ColumnStepTyped ==
  ASSUME Typed, NEW r \in Request, ColumnStep(r)
  PROVE  Typed'
  <1> DEFINE q == requests[r]
  <1>1. q \in RequestState /\ columns \in [Column -> ColumnRow]
    BY DEF Typed, TypeOK
  <1>2. ASSUME NEW c \in Column, NEW title \in Title, CheckOwnerToCreate(r, c, title)
        PROVE  Typed'
    <2> DEFINE n == [Idle EXCEPT !.kind = "columnCreate", !.column = c, !.title = title,
                                 !.pc = "columnInsert"]
    <2>1. n \in RequestState /\ n.pc = "columnInsert"
      BY IdleType DEF RequestState, PC, AllKinds, Idle
    <2>2. Becomes(r, n)
      BY <1>2 DEF CheckOwnerToCreate
    <2> HIDE DEF n
    <2>3. requests' \in [Request -> RequestState] /\ Addressed'
      BY <2>1, <2>2, BecomesTyped
    <2> QED
      BY <1>2, <2>3 DEF CheckOwnerToCreate, database, history, Typed, TypeOK
  <1>3. ASSUME NEW kind \in AllKinds, NEW c \in Column, NEW title \in Title,
               LoadColumn(r, kind, c, title)
        PROVE  Typed'
    <2> DEFINE n == [Idle EXCEPT !.kind = kind, !.column = c, !.title = title,
                                 !.pc = FirstColumnPC[kind]]
    <2>1. FirstColumnPC[kind] \in {"columnSelect", "columnCount", "siblings"}
      BY <1>3 DEF LoadColumn, FirstColumnPC
    <2>2. n \in RequestState /\ n.pc \in {"columnSelect", "columnCount", "siblings"}
      BY <2>1, IdleType DEF RequestState, PC, Idle
    <2>3. Becomes(r, n)
      BY <1>3 DEF LoadColumn
    <2> HIDE DEF n
    <2>4. requests' \in [Request -> RequestState] /\ Addressed'
      BY <2>2, <2>3, BecomesTyped
    <2> QED
      BY <1>3, <2>4 DEF LoadColumn, database, history, Typed, TypeOK
  <1>4. CASE SelectColumn(r)
    <2> DEFINE n == [q EXCEPT !.plan = SavePlan(ColumnEntity(q), columns[q.column]),
                              !.pc = "columnWrite"]
    <2>1. ColumnEntity(q) \in ColumnRow
      BY <1>1 DEF ColumnEntity, ColumnRow, RowState, RequestState
    <2>2. SavePlan(ColumnEntity(q), columns[q.column]) \in SUBSET Field
      BY <2>1, PlanType
    <2>3. n \in RequestState /\ n.pc = "columnWrite"
      BY <1>1, <2>2 DEF RequestState, PC
    <2>4. Becomes(r, n)
      BY <1>4 DEF SelectColumn
    <2> HIDE DEF n
    <2>5. requests' \in [Request -> RequestState] /\ Addressed'
      BY <2>3, <2>4, BecomesTyped
    <2> QED
      BY <1>4, <2>5 DEF SelectColumn, database, history, Typed, TypeOK
  <1>5. CASE WriteColumn(r)
    <2>1. ColumnEntity(q) \in ColumnRow /\ columns[q.column] \in ColumnRow
      BY <1>1 DEF ColumnEntity, ColumnRow, RowState, RequestState
    <2>2. columns' \in [Column -> ColumnRow]
      BY <1>1, <1>5, <2>1 DEF WriteColumn, SavedColumn, Written, ColumnRow
    <2>3. requests' \in [Request -> RequestState] /\ Addressed'
      BY <1>5, EndsTyped DEF WriteColumn
    <2>4. BoardsMayChange(r) /\ UNCHANGED <<tasks, projects, referenced, told>>
      BY <1>5 DEF WriteColumn
    <2> QED
      BY <2>2, <2>3, <2>4, HistoryTyped DEF Typed, TypeOK
  <1>6. CASE InsertColumn(r)
    <2>1. columns' \in [Column -> ColumnRow]
      BY <1>1, <1>6 DEF InsertColumn, ColumnRow, RowState, RequestState
    <2>2. requests' \in [Request -> RequestState] /\ Addressed'
      BY <1>6, EndsTyped DEF InsertColumn
    <2>3. BoardsMayChange(r) /\ UNCHANGED <<tasks, projects, referenced, told>>
      BY <1>6 DEF InsertColumn
    <2> QED
      BY <2>1, <2>2, <2>3, HistoryTyped DEF Typed, TypeOK
  <1>7. CASE CountColumnTasks(r)
    <2> DEFINE n == [q EXCEPT !.pc = "columnRemove"]
    <2>1. n \in RequestState /\ n.pc = "columnRemove"
      BY <1>1 DEF RequestState, PC
    <2>2. Ends(r) \/ Becomes(r, n)
      BY <1>7 DEF CountColumnTasks
    <2> HIDE DEF n
    <2>3. requests' \in [Request -> RequestState] /\ Addressed'
      BY <2>1, <2>2, BecomesTyped, EndsTyped
    <2> QED
      BY <1>7, <2>3 DEF CountColumnTasks, database, history, Typed, TypeOK
  <1>8. CASE RemoveColumn(r)
    <2> DEFINE n == [q EXCEPT !.pc = "siblings"]
    <2>1. columns' \in [Column -> ColumnRow]
      BY <1>1, <1>8 DEF RemoveColumn, ColumnRow, RowState
    <2>2. n \in RequestState /\ n.pc = "siblings"
      BY <1>1 DEF RequestState, PC
    <2>3. Becomes(r, n)
      BY <1>8 DEF RemoveColumn
    <2> HIDE DEF n
    <2>4. requests' \in [Request -> RequestState] /\ Addressed'
      BY <2>2, <2>3, BecomesTyped
    <2>5. BoardsMayChange(r) /\ UNCHANGED <<tasks, projects, referenced, told>>
      BY <1>8 DEF RemoveColumn
    <2> QED
      BY <2>1, <2>4, <2>5, HistoryTyped DEF Typed, TypeOK
  <1>9. CASE FindSiblings(r)
    <2> DEFINE found == [c \in Column |-> IF c \in Cols(ProjectOf[q.column])
                                          THEN columns[c] ELSE NoSiblings[c]]
               n == [q EXCEPT !.pc = "siblingsSelect", !.siblings = found]
    <2>1. NoSiblings \in [Column -> ColumnRow]
      BY IdleType DEF Idle, RequestState
    <2>2. found \in [Column -> ColumnRow]
      BY <1>1, <2>1
    <2> HIDE DEF found
    <2>3. n \in RequestState /\ n.pc = "siblingsSelect"
      BY <1>1, <2>2 DEF RequestState, PC
    <2>4. Becomes(r, n)
      BY <1>9 DEF FindSiblings, found
    <2> HIDE DEF n
    <2>5. requests' \in [Request -> RequestState] /\ Addressed'
      BY <2>3, <2>4, BecomesTyped
    <2> QED
      BY <1>9, <2>5 DEF FindSiblings, database, history, Typed, TypeOK
  <1>10. CASE SelectSiblings(r)
    <2> DEFINE plan(c) == IF Exists(q.siblings[c])
                          THEN SavePlan(q.siblings[c], columns[c]) ELSE {}
               plans == [c \in Column |-> plan(c)]
               n == [q EXCEPT !.pc = "siblingsWrite", !.siblingPlans = plans]
    <2>1. ASSUME NEW c \in Column PROVE plan(c) \in SUBSET Field
      <3>1. q.siblings[c] \in ColumnRow
        BY <1>1 DEF RequestState
      <3> QED
        BY <3>1, PlanType
    <2> HIDE DEF plan
    <2>2. plans \in [Column -> SUBSET Field]
      BY <2>1
    <2> HIDE DEF plans
    <2>3. n \in RequestState /\ n.pc = "siblingsWrite"
      BY <1>1, <2>2 DEF RequestState, PC
    <2>4. Ends(r) \/ Becomes(r, n)
      BY <1>10 DEF SelectSiblings, plans, plan
    <2> HIDE DEF n
    <2>5. requests' \in [Request -> RequestState] /\ Addressed'
      BY <2>3, <2>4, BecomesTyped, EndsTyped
    <2> QED
      BY <1>10, <2>5 DEF SelectSiblings, database, history, Typed, TypeOK
  <1>11. CASE WriteSiblings(r)
    <2>1. ASSUME NEW c \in Column, NEW plan
          PROVE  SavedColumn(plan, q.siblings[c], columns[c]) \in ColumnRow
      BY <1>1 DEF SavedColumn, Written, ColumnRow, RequestState
    <2>2. columns' \in [Column -> ColumnRow]
      BY <1>1, <1>11, <2>1 DEF WriteSiblings
    <2>3. requests' \in [Request -> RequestState] /\ Addressed'
      BY <1>11, EndsTyped DEF WriteSiblings
    <2>4. BoardsMayChange(r) /\ UNCHANGED <<tasks, projects, referenced, told>>
      BY <1>11 DEF WriteSiblings
    <2> QED
      BY <2>2, <2>3, <2>4, HistoryTyped DEF Typed, TypeOK
  <1> QED
    BY <1>2, <1>3, <1>4, <1>5, <1>6, <1>7, <1>8, <1>9, <1>10, <1>11 DEF ColumnStep

LEMMA ProjectStepTyped ==
  ASSUME Typed, NEW r \in Request, ProjectStep(r)
  PROVE  Typed'
  <1> DEFINE q == requests[r]
  <1>1. /\ q \in RequestState /\ projects \in [Project -> ProjectRow]
        /\ q.pc \in {"projectSelect", "projectWrite"} => q.project \in Project
    BY DEF Typed, TypeOK, Addressed
  <1>2. ASSUME NEW kind \in AllKinds, NEW p \in Project, LoadProject(r, kind, p)
        PROVE  Typed'
    <2> DEFINE e == [projects[p] EXCEPT !.deletedAt =
                       IF kind = "projectDelete" THEN "recent" ELSE @]
               n == [Idle EXCEPT !.kind = kind, !.project = p, !.pc = "projectSelect",
                                 !.projectEntity = e]
    <2>1. e \in ProjectRow
      BY <1>1 DEF ProjectRow, DeletedAt
    <2> HIDE DEF e
    <2>2. n \in RequestState /\ n.pc = "projectSelect" /\ n.project = p
      BY <2>1, IdleType DEF RequestState, PC, Idle
    <2>3. Becomes(r, n)
      BY <1>2 DEF LoadProject, e
    <2> HIDE DEF n
    <2>4. requests' \in [Request -> RequestState] /\ Addressed'
      BY <2>2, <2>3, BecomesTyped
    <2> QED
      BY <1>2, <2>4 DEF LoadProject, database, history, Typed, TypeOK
  <1>3. CASE SelectProject(r)
    <2> DEFINE n == [q EXCEPT !.plan = SavePlan(q.projectEntity, projects[q.project]),
                              !.pc = "projectWrite"]
    <2>1. SavePlan(q.projectEntity, projects[q.project]) \in SUBSET Field
      BY <1>1, PlanType DEF RequestState
    <2>2. n \in RequestState /\ n.pc = "projectWrite" /\ n.project = q.project
      BY <1>1, <2>1 DEF RequestState, PC
    <2>3. q.project \in Project /\ Becomes(r, n)
      BY <1>1, <1>3 DEF SelectProject
    <2> HIDE DEF n
    <2>4. requests' \in [Request -> RequestState] /\ Addressed'
      BY <2>2, <2>3, BecomesTyped
    <2> QED
      BY <1>3, <2>4 DEF SelectProject, database, history, Typed, TypeOK
  <1>4. CASE WriteProject(r)
    <2>1. q.project \in Project /\ q.projectEntity \in ProjectRow
      BY <1>1, <1>4 DEF WriteProject, RequestState
    <2>2. projects' \in [Project -> ProjectRow]
      BY <1>1, <1>4, <2>1 DEF WriteProject, Written, ProjectRow, RowState
    <2>3. changedBy' \in [Project -> AllKinds \cup {"none", "movedAway", "overtaken"}]
      BY <1>4 DEF WriteProject, Typed, TypeOK
    <2>4. requests' \in [Request -> RequestState] /\ Addressed'
      BY <1>4, EndsTyped DEF WriteProject
    <2> QED
      BY <1>4, <2>2, <2>3, <2>4 DEF WriteProject, Typed, TypeOK
  <1> QED
    BY <1>2, <1>3, <1>4 DEF ProjectStep

LEMMA NextTyped == Typed /\ [Next]_vars => Typed'
  <1> SUFFICES ASSUME Typed, [Next]_vars PROVE Typed'
    OBVIOUS
  <1>1. ASSUME NEW r \in Request, Abort(r) PROVE Typed'
    <2>1. requests' \in [Request -> RequestState] /\ Addressed'
      BY <1>1, EndsTyped DEF Abort
    <2> QED
      BY <1>1, <2>1 DEF Abort, database, Typed, TypeOK
  <1>2. CASE CleanupOldTrash
    <2>1. [NoTaskRow EXCEPT !.row = "removed"] \in TaskRow
      BY SomeRows DEF NoTaskRow, TaskRow, RowState
    <2> QED
      BY <1>2, <2>1 DEF CleanupOldTrash, history, Typed, TypeOK, Addressed
  <1>3. ASSUME NEW t \in Task, Expire(t) PROVE Typed'
    <2>1. tasks' \in [Task -> TaskRow]
      BY <1>3 DEF Expire, Typed, TypeOK, TaskRow, DeletedAt
    <2> QED
      BY <1>3, <2>1 DEF Expire, history, Typed, TypeOK, Addressed
  <1>4. CASE UNCHANGED vars
    BY <1>4 DEF vars, Typed, TypeOK, Addressed
  <1> QED
    BY <1>1, <1>2, <1>3, <1>4,
       TaskStepTyped, RecountStepTyped, ColumnStepTyped, ProjectStepTyped DEF Next

\* Whatever requests interleave and wherever they die, every table and every
\* request in flight keeps its type: no save writes a column that is not of the
\* entity, and no recount stores anything but a number.
THEOREM TypeCorrect == Spec => []TypeOK
  <1>1. Typed => TypeOK
    BY DEF Typed
  <1> QED
    BY InitTyped, NextTyped, <1>1, PTL DEF Spec

------------------------------------------------------------------------------
(* Rows that other rows reference stay.  AnsweredTasksPersist alone is not     *)
(* inductive: that the purge keeps a task a client was told of follows from    *)
(* the activity log that was written before the answer.                        *)

ReferencedExist == \A t \in referenced : Exists(tasks[t])
AnsweredIsReferenced == \A t \in Task : told[t] # "nothing" => t \in referenced
RecountedIsReferenced ==
    \A r \in Request : requests[r].pc \in {"columns", "total", "done", "percentage"}
                          => requests[r].task \in referenced

Persistence == ReferencedExist /\ AnsweredIsReferenced /\ RecountedIsReferenced

RecountPC == {"columns", "total", "done", "percentage"}

\* A step that removes no referenced row and answers no client.
LEMMA QuietStep ==
  ASSUME Typed, Persistence, NEW r \in Request, NEW q, Becomes(r, q),
         q.pc \in RecountPC => q.task \in referenced,
         UNCHANGED <<referenced, told>>,
         \A t \in referenced : Exists(tasks'[t])
  PROVE  Persistence'
  <1>1. requests' = [requests EXCEPT ![r] = q] /\ requests \in [Request -> RequestState]
    BY DEF Becomes, Typed, TypeOK
  <1>2. ReferencedExist' /\ AnsweredIsReferenced'
    BY DEF Persistence, ReferencedExist, AnsweredIsReferenced
  <1>3. RecountedIsReferenced'
    BY <1>1 DEF Persistence, RecountedIsReferenced, RecountPC
  <1> QED
    BY <1>2, <1>3 DEF Persistence

LEMMA QuietEnd ==
  ASSUME Typed, Persistence, NEW r \in Request, Ends(r),
         UNCHANGED <<referenced, told>>,
         \A t \in referenced : Exists(tasks'[t])
  PROVE  Persistence'
  <1>1. Idle.pc \notin RecountPC
    BY DEF Idle, RecountPC
  <1> QED
    BY <1>1, QuietStep DEF Ends

\* The DELETEs of permanentDelete and of the purge.
LEMMA RemovalKeepsReferenced ==
  ASSUME Typed, Persistence, NEW T \in SUBSET Task, CanDelete(T),
         tasks' = [t \in Task |-> IF t \in T THEN [NoTaskRow EXCEPT !.row = "removed"]
                                             ELSE tasks[t]]
  PROVE  \A t \in referenced : Exists(tasks'[t])
  <1>1. referenced \subseteq Task
    BY DEF Typed, TypeOK
  <1> QED
    BY <1>1 DEF CanDelete, Persistence, ReferencedExist

\* save never removes a row: what it writes to a row that is there has the row,
\* and a plan made while the row was missing fails.
LEMMA SaveKeepsRows ==
  ASSUME Typed, NEW r \in Request, WriteTask(r), NEW t \in Task, Exists(tasks[t])
  PROVE  Exists(tasks'[t])
  <1> DEFINE q == requests[r]
  <1>1. CASE t # q.task \/ tasks' = tasks
    BY <1>1 DEF WriteTask, Typed, TypeOK
  <1>2. CASE t = q.task /\ tasks' # tasks
    <2>1. ~IsInsert(q.plan) /\ tasks'[t] = SavedTask(q.plan, q.entity, tasks[t])
      BY <1>2 DEF WriteTask, SaveFails, Typed, TypeOK
    <2>2. tasks'[t].row = tasks[t].row
      BY <2>1 DEF SavedTask, Written, IsInsert
    <2> QED
      BY <2>2 DEF Exists
  <1> QED
    BY <1>1, <1>2

LEMMA TaskStepPersists ==
  ASSUME Typed, Persistence, NEW r \in Request, TaskStep(r)
  PROVE  Persistence'
  <1> DEFINE q == requests[r]
  <1>1. /\ q \in RequestState
        /\ q.pc \in {"write", "log", "remove"} => q.task \in Task
        /\ referenced \subseteq Task
        /\ tasks \in [Task -> TaskRow]
    BY DEF Typed, TypeOK, Addressed
  <1>2. UNCHANGED database => \A t \in referenced : Exists(tasks'[t])
    BY DEF database, Persistence, ReferencedExist
  <1>3. ASSUME NEW kind \in SaveKinds \cup {"permanentDelete"}, NEW t \in Task,
               LoadTask(r, kind, t)
        PROVE  Persistence'
    <2>1. PICK pc \in {"column", "notFound"}, e \in {tasks[t], Idle.entity} :
             Becomes(r, [Idle EXCEPT !.kind = kind, !.pc = pc, !.task = t, !.entity = e])
      BY <1>3 DEF LoadTask, Idle
    <2>2. [Idle EXCEPT !.kind = kind, !.pc = pc, !.task = t, !.entity = e].pc \notin RecountPC
      BY DEF Idle, RecountPC
    <2> QED
      BY <1>2, <1>3, <2>1, <2>2, QuietStep DEF LoadTask, database, history
  <1>4. CASE AnswerNotFound(r)
    BY <1>2, <1>4, QuietEnd DEF AnswerNotFound, database, history
  <1>5. ASSUME NEW u \in User, FindColumn(r, u) PROVE Persistence'
    <2> DEFINE c == q.entity.column
               n == [q EXCEPT
                       !.project = IF Exists(columns[c]) THEN ProjectOf[c] ELSE NoProject,
                       !.entity = Edited(q.kind, @, u, c),
                       !.pc = IF q.kind = "permanentDelete" THEN "remove" ELSE "select"]
    <2>1. n.pc \notin RecountPC
      BY <1>1 DEF RecountPC, RequestState
    <2>2. Becomes(r, n)
      BY <1>5 DEF FindColumn
    <2> HIDE DEF n
    <2> QED
      BY <1>2, <1>5, <2>1, <2>2, QuietStep DEF FindColumn, database, history
  <1>6. ASSUME NEW c \in Column, FindTarget(r, c) PROVE Persistence'
    <2> DEFINE n == [q EXCEPT !.project = ProjectOf[c],
                              !.entity = Edited(q.kind, @, Nobody, c),
                              !.pc = "select"]
    <2>1. n.pc \notin RecountPC
      BY <1>1 DEF RecountPC, RequestState
    <2>2. Becomes(r, n)
      BY <1>6 DEF FindTarget
    <2> HIDE DEF n
    <2> QED
      BY <1>2, <1>6, <2>1, <2>2, QuietStep DEF FindTarget, database, history
  <1>7. CASE Reject(r)
    BY <1>2, <1>7, QuietEnd DEF Reject, database, history
  <1>8. CASE SelectTask(r)
    <2> DEFINE n == [q EXCEPT !.plan = SavePlan(q.entity, tasks[q.task]), !.pc = "write"]
    <2>1. n.pc \notin RecountPC
      BY <1>1 DEF RecountPC, RequestState
    <2>2. Becomes(r, n)
      BY <1>8 DEF SelectTask
    <2> HIDE DEF n
    <2> QED
      BY <1>2, <1>8, <2>1, <2>2, QuietStep DEF SelectTask, database, history
  <1>9. CASE WriteTask(r)
    <2> DEFINE n == [q EXCEPT !.plan = {}, !.entity = NoTaskRow, !.pc = "log"]
    <2>1. \A t \in referenced : Exists(tasks'[t])
      BY <1>1, <1>9, SaveKeepsRows DEF Persistence, ReferencedExist
    <2>2. UNCHANGED <<referenced, told>> /\ (Ends(r) \/ Becomes(r, n))
      BY <1>9 DEF WriteTask
    <2>3. n.pc \notin RecountPC
      BY <1>1 DEF RecountPC, RequestState
    <2> HIDE DEF n
    <2> QED
      BY <2>1, <2>2, <2>3, QuietStep, QuietEnd
  <1>10. ASSUME NEW c \in Column, FindColumnToCreate(r, c) PROVE Persistence'
    <2> DEFINE n == [Idle EXCEPT !.kind = "create", !.pc = "insert",
                                 !.column = c, !.project = ProjectOf[c]]
    <2>1. n.pc \notin RecountPC
      BY DEF RecountPC, Idle
    <2>2. Becomes(r, n)
      BY <1>10 DEF FindColumnToCreate
    <2> HIDE DEF n
    <2> QED
      BY <1>2, <1>10, <2>1, <2>2, QuietStep DEF FindColumnToCreate, database, history
  <1>11. ASSUME NEW t \in Task, NEW u \in User \cup {Nobody}, InsertTask(r, t, u)
         PROVE  Persistence'
    <2> DEFINE n == [q EXCEPT !.task = t, !.column = SomeColumn, !.pc = "log"]
    <2>1. \A s \in referenced : Exists(tasks'[s])
      BY <1>1, <1>11 DEF InsertTask, Exists, Persistence, ReferencedExist
    <2>2. n.pc \notin RecountPC
      BY <1>1 DEF RecountPC, RequestState
    <2>3. Becomes(r, n) /\ UNCHANGED <<referenced, told>>
      BY <1>11 DEF InsertTask
    <2> HIDE DEF n
    <2> QED
      BY <2>1, <2>2, <2>3, QuietStep
  <1>12. CASE LogActivity(r)
    <2>1. q.task \in Task /\ UNCHANGED tasks
      BY <1>1, <1>12 DEF LogActivity
    <2>2. CASE ~Exists(tasks[q.task])
      <3>1. Ends(r) /\ UNCHANGED <<referenced, told>>
        BY <1>12, <2>2 DEF LogActivity
      <3>2. \A t \in referenced : Exists(tasks'[t])
        BY <2>1 DEF Persistence, ReferencedExist
      <3> QED
        BY <3>1, <3>2, QuietEnd
    <2>3. CASE Exists(tasks[q.task])
      <3>1. referenced' = referenced \cup {q.task}
        BY <1>12, <2>3 DEF LogActivity
      <3>2. ReferencedExist'
        BY <2>1, <2>3, <3>1 DEF Persistence, ReferencedExist
      <3>3. ASSUME NEW t \in Task, t # q.task PROVE told'[t] = told[t]
        BY <1>12, <3>3 DEF LogActivity, Answers, Typed, TypeOK
      <3>4. AnsweredIsReferenced'
        BY <3>1, <3>3 DEF Persistence, AnsweredIsReferenced
      <3>5. PICK n \in {[q EXCEPT !.pc = "columns"], Idle} : Becomes(r, n)
        BY <1>12 DEF LogActivity, Ends
      <3>6. n.pc \in RecountPC => n.task = q.task
        BY <1>1, <3>5 DEF RecountPC, RequestState, Idle
      <3>7. RecountedIsReferenced'
        BY <3>1, <3>5, <3>6 DEF Becomes, RecountPC, Persistence, RecountedIsReferenced,
                                Typed, TypeOK
      <3> QED
        BY <3>2, <3>4, <3>7 DEF Persistence
    <2> QED
      BY <2>2, <2>3
  <1>13. CASE RemoveTask(r)
    <2>1. q.task \in Task /\ Ends(r) /\ UNCHANGED <<referenced, told>>
      BY <1>1, <1>13 DEF RemoveTask
    <2>2. CASE UNCHANGED tasks
      BY <2>1, <2>2, QuietEnd DEF Persistence, ReferencedExist
    <2>3. CASE tasks' # tasks
      <3>1. CanDelete({q.task})
        BY <1>13, <2>3 DEF RemoveTask
      <3>2. tasks' = [t \in Task |-> IF t \in {q.task}
                                     THEN [NoTaskRow EXCEPT !.row = "removed"] ELSE tasks[t]]
        BY <1>1, <1>13, <2>1, <2>3 DEF RemoveTask
      <3>3. \A t \in referenced : Exists(tasks'[t])
        BY <2>1, <3>1, <3>2, RemovalKeepsReferenced
      <3> QED
        BY <2>1, <3>3, QuietEnd
    <2> QED
      BY <2>2, <2>3
  <1> QED
    BY <1>3, <1>4, <1>5, <1>6, <1>7, <1>8, <1>9, <1>10, <1>11, <1>12, <1>13 DEF TaskStep

LEMMA RecountStepPersists ==
  ASSUME Typed, Persistence, NEW r \in Request, RecountStep(r)
  PROVE  Persistence'
  <1> DEFINE q == requests[r]
  <1>1. q \in RequestState /\ q.task \in referenced /\ UNCHANGED <<tasks, referenced>>
    BY DEF RecountStep, ReadColumns, CountTotal, CountCompleted, WriteCompletion, database,
           Persistence, RecountedIsReferenced, Typed, TypeOK
  <1>2. ReferencedExist'
    BY <1>1 DEF Persistence, ReferencedExist
  <1>3. Answers(q) \/ UNCHANGED told
    BY DEF RecountStep, ReadColumns, CountTotal, CountCompleted, WriteCompletion, history
  <1>4. ASSUME NEW t \in Task, t # q.task PROVE told'[t] = told[t]
    BY <1>3, <1>4 DEF Answers, Typed, TypeOK
  <1>5. AnsweredIsReferenced'
    BY <1>1, <1>4 DEF Persistence, AnsweredIsReferenced
  <1>6. \A s \in Request : s # r => requests'[s] = requests[s]
    BY DEF RecountStep, ReadColumns, CountTotal, CountCompleted, WriteCompletion,
           Ends, Becomes, Typed, TypeOK
  <1>7. requests'[r].pc \in RecountPC => requests'[r].task = q.task
    <2>1. ASSUME Ends(r) PROVE requests'[r].pc \notin RecountPC
      BY <2>1 DEF Ends, Becomes, Idle, RecountPC, Typed, TypeOK
    <2>2. ASSUME ReadColumns(r), ~Ends(r) PROVE requests'[r].task = q.task
      <3>1. PICK d : Becomes(r, [q EXCEPT !.counted = Cols(q.project), !.doneColumn = d,
                                          !.pc = "total"])
        BY <2>2 DEF ReadColumns
      <3> QED
        BY <1>1, <3>1 DEF Becomes, RequestState, Typed, TypeOK
    <2>3. ASSUME CountTotal(r) PROVE requests'[r].task = q.task
      BY <1>1, <2>3 DEF CountTotal, Becomes, RequestState, Typed, TypeOK
    <2>4. ASSUME CountCompleted(r) PROVE requests'[r].task = q.task
      BY <1>1, <2>4 DEF CountCompleted, Becomes, RequestState, Typed, TypeOK
    <2> QED
      BY <2>1, <2>2, <2>3, <2>4 DEF RecountStep, WriteCompletion
  <1>8. RecountedIsReferenced'
    BY <1>1, <1>6, <1>7 DEF RecountPC, Persistence, RecountedIsReferenced
  <1> QED
    BY <1>2, <1>5, <1>8 DEF Persistence

LEMMA OtherStepPersists ==
  ASSUME Typed, Persistence, NEW r \in Request, ColumnStep(r) \/ ProjectStep(r) \/ Abort(r)
  PROVE  Persistence'
  <1> DEFINE q == requests[r]
  <1>1. UNCHANGED <<tasks, referenced, told>>
    BY DEF ColumnStep, CheckOwnerToCreate, InsertColumn, LoadColumn, SelectColumn, WriteColumn,
           CountColumnTasks, RemoveColumn, FindSiblings, SelectSiblings, WriteSiblings,
           ProjectStep, LoadProject, SelectProject, WriteProject, Abort, database, history
  <1>2. ReferencedExist' /\ AnsweredIsReferenced'
    BY <1>1 DEF Persistence, ReferencedExist, AnsweredIsReferenced
  <1>3. \A s \in Request : s # r => requests'[s] = requests[s]
    BY DEF ColumnStep, CheckOwnerToCreate, InsertColumn, LoadColumn, SelectColumn, WriteColumn,
           CountColumnTasks, RemoveColumn, FindSiblings, SelectSiblings, WriteSiblings,
           ProjectStep, LoadProject, SelectProject, WriteProject, Abort, Ends, Becomes,
           Typed, TypeOK
  <1>4. UNCHANGED requests \/ requests'[r].pc \notin RecountPC
    <2>1. requests \in [Request -> RequestState]
      BY DEF Typed, TypeOK
    <2>2. ASSUME Ends(r) PROVE requests'[r].pc \notin RecountPC
      BY <2>1, <2>2 DEF Ends, Becomes, Idle, RecountPC
    <2>3. ASSUME NEW c, NEW title, CheckOwnerToCreate(r, c, title)
          PROVE  requests'[r].pc \notin RecountPC
      BY <2>1, <2>3 DEF CheckOwnerToCreate, Becomes, Idle, RecountPC
    <2>4. ASSUME NEW kind, NEW c, NEW title, LoadColumn(r, kind, c, title)
          PROVE  requests'[r].pc \notin RecountPC
      <3>1. FirstColumnPC[kind] \in {"columnSelect", "columnCount", "siblings"}
        BY <2>4 DEF LoadColumn, FirstColumnPC
      <3> QED
        BY <2>1, <2>4, <3>1 DEF LoadColumn, Becomes, Idle, RecountPC
    <2>5. ASSUME SelectColumn(r) \/ CountColumnTasks(r) \/ RemoveColumn(r), ~Ends(r)
          PROVE  requests'[r].pc \notin RecountPC
      BY <2>1, <2>5 DEF SelectColumn, CountColumnTasks, RemoveColumn,
                        Becomes, RequestState, RecountPC
    <2>6. ASSUME FindSiblings(r) \/ SelectSiblings(r), ~Ends(r)
          PROVE  requests'[r].pc \notin RecountPC
      BY <2>1, <2>6 DEF FindSiblings, SelectSiblings, Becomes, RequestState, RecountPC
    <2>7. ASSUME NEW kind, NEW p, LoadProject(r, kind, p)
          PROVE  requests'[r].pc \notin RecountPC
      BY <2>1, <2>7 DEF LoadProject, Becomes, Idle, RecountPC
    <2>8. ASSUME SelectProject(r) PROVE requests'[r].pc \notin RecountPC
      BY <2>1, <2>8 DEF SelectProject, Becomes, RequestState, RecountPC
    <2> QED
      BY <2>2, <2>3, <2>4, <2>5, <2>6, <2>7, <2>8
      DEF ColumnStep, InsertColumn, WriteColumn, WriteSiblings, ProjectStep, WriteProject, Abort
  <1>5. RecountedIsReferenced'
    BY <1>1, <1>3, <1>4 DEF RecountPC, Persistence, RecountedIsReferenced
  <1> QED
    BY <1>2, <1>5 DEF Persistence

LEMMA NextPersists == Typed /\ Persistence /\ [Next]_vars => Persistence'
  <1> SUFFICES ASSUME Typed, Persistence, [Next]_vars PROVE Persistence'
    OBVIOUS
  <1>1. CASE CleanupOldTrash
    <2>1. Expired \in SUBSET Task
      BY DEF Expired
    <2>2. \A t \in referenced : Exists(tasks'[t])
      BY <1>1, <2>1, RemovalKeepsReferenced DEF CleanupOldTrash
    <2> QED
      BY <1>1, <2>2 DEF CleanupOldTrash, history, Persistence, ReferencedExist,
                        AnsweredIsReferenced, RecountedIsReferenced
  <1>2. ASSUME NEW t \in Task, Expire(t) PROVE Persistence'
    <2>1. \A s \in referenced : Exists(tasks'[s])
      BY <1>2 DEF Expire, Exists, Persistence, ReferencedExist, Typed, TypeOK, TaskRow
    <2> QED
      BY <1>2, <2>1 DEF Expire, history, Persistence, ReferencedExist,
                        AnsweredIsReferenced, RecountedIsReferenced
  <1>3. CASE UNCHANGED vars
    BY <1>3 DEF vars, Persistence, ReferencedExist, AnsweredIsReferenced, RecountedIsReferenced
  <1> QED
    BY <1>1, <1>2, <1>3, TaskStepPersists, RecountStepPersists, OtherStepPersists DEF Next

\* Once a client has been told that its task was created or trashed, the row
\* stays in the table: no stale save, permanent deletion or purge removes it,
\* however many requests overlap and wherever they die.
THEOREM AnsweredTasksStay == Spec => []AnsweredTasksPersist
  <1>1. Init => Persistence
    BY DEF Init, Idle, Persistence, ReferencedExist, AnsweredIsReferenced, RecountedIsReferenced
  <1>2. Persistence => AnsweredTasksPersist
    BY DEF Persistence, ReferencedExist, AnsweredIsReferenced, AnsweredTasksPersist
  <1> QED
    BY InitTyped, NextTyped, NextPersists, <1>1, <1>2, PTL DEF Spec
------------------------------------------------------------------------------
(* Counts.  CountedIsExact alone is not inductive: that a recount stores the    *)
(* percentage of the board follows from what it has read while no change of     *)
(* its board overtook it.                                                       *)

\* Reads of a recount that are those of the board as it now is.
ReadsAgree(q) ==
    LET C == Cols(q.project)
        D == DoneCols(q.project)
    IN /\ q.pc \in {"total", "done", "percentage"} /\ q.project \in Project
       /\ q.pc = "total" => q.counted = C
       /\ q.pc \in {"total", "done"} => q.doneColumn \in DoneChoices(C, D)
       /\ q.pc \in {"done", "percentage"} => q.total = Cardinality(LiveIn(C))
       /\ q.pc = "percentage" => \E d \in DoneChoices(C, D) : q.completed = Cardinality(LiveIn({d}))

\* A request in flight has a kind, and has not counted what it will count.
Busy(q) ==
    /\ q.pc # "idle" => q.kind # "none"
    /\ q.pc # "percentage" => q.completed = 0

Counting ==
    /\ CountedIsExact
    /\ \A r \in fresh : ReadsAgree(requests[r])
    /\ \A r \in Request : Busy(requests[r])

LEMMA LiveInColumns ==
  ASSUME NEW C
  PROVE  LiveIn(C) = {t \in Task : \E c \in C : t \in LiveIn({c})}
  BY DEF LiveIn

LEMMA NothingInNoColumn == Typed => LiveIn({NoColumn}) = {}
  BY ConstantsAssumption DEF Typed, TypeOK, TaskRow, LiveIn

\* What a completion is computed from stays with the board.
LEMMA SameBoard ==
  ASSUME Typed, Typed', NEW p \in Project, Board(p)' = Board(p)
  PROVE  /\ Cols(p)' = Cols(p) /\ DoneCols(p)' = DoneCols(p)
         /\ LiveIn(Cols(p))' = LiveIn(Cols(p))
         /\ \A d \in DoneChoices(Cols(p), DoneCols(p)) : LiveIn({d})' = LiveIn({d})
         /\ ExactCompletions(p)' = ExactCompletions(p)
  <1> DEFINE F == [c \in Cols(p) |-> LiveIn({c})]
  <1>1. Cols(p)' = Cols(p) /\ DoneCols(p)' = DoneCols(p) /\ F' = F
    BY DEF Board
  <1>2. \A c \in Cols(p) : LiveIn({c})' = LiveIn({c})
    <2>1. ASSUME NEW c \in Cols(p) PROVE LiveIn({c})' = LiveIn({c})
      <3>1. F[c] = LiveIn({c})
        OBVIOUS
      <3>2. F'[c] = LiveIn({c})'
        BY <1>1
      <3> QED
        BY <1>1, <3>1, <3>2
    <2> QED
      BY <2>1
  <1>3. LiveIn(Cols(p))' = LiveIn(Cols(p))
    BY <1>1, <1>2, LiveInColumns DEF LiveIn
  <1>4. \A d \in DoneChoices(Cols(p), DoneCols(p)) : LiveIn({d})' = LiveIn({d})
    <2>1. LiveIn({NoColumn}) = {} /\ LiveIn({NoColumn})' = {}
      BY NothingInNoColumn, ConstantsAssumption DEF Typed, TypeOK, TaskRow, LiveIn
    <2>2. DoneCols(p) \subseteq Cols(p)
      BY DEF DoneCols
    <2> QED
      BY <1>2, <2>1, <2>2 DEF DoneChoices
  <1>5. ExactCompletions(p)' = ExactCompletions(p)
    <2>1. ExactCompletions(p)' =
            {Percent(Cardinality(LiveIn({d})'), Cardinality(LiveIn(Cols(p))')) :
                d \in DoneChoices(Cols(p)', DoneCols(p)')}
      BY DEF ExactCompletions, DoneChoices, Percent
    <2> QED
      BY <1>1, <1>3, <1>4, <2>1 DEF ExactCompletions
  <1> QED
    BY <1>1, <1>3, <1>4, <1>5

\* ... and with it what a recount has read.
LEMMA ReadsStay ==
  ASSUME Typed, Typed', NEW q, ReadsAgree(q), Board(q.project)' = Board(q.project)
  PROVE  ReadsAgree(q)'
  <1>1. q.project \in Project
    BY DEF ReadsAgree
  <1> QED
    BY <1>1, SameBoard DEF ReadsAgree, DoneChoices

\* A step of a request that is not recounting, and may change boards.
LEMMA ChangeCounts ==
  ASSUME Typed, Typed', Counting, NEW r \in Request,
         requests[r].pc \notin {"idle", "total", "done", "percentage"},
         BoardsMayChange(r), UNCHANGED projects,
         \A s \in Request : s # r => requests'[s] = requests[s], Busy(requests'[r])
  PROVE  Counting'
  <1>1. r \notin fresh /\ fresh \subseteq Request /\ requests[r].kind # "none"
    BY DEF Counting, ReadsAgree, Busy, Typed, TypeOK
  <1>2. ASSUME NEW p \in Project, changedBy'[p] = "none"
        PROVE  changedBy[p] = "none" /\ Board(p)' = Board(p)
    BY <1>1, <1>2 DEF BoardsMayChange
  <1>3. CountedIsExact'
    BY <1>2, SameBoard DEF CountedIsExact, Counting
  <1>4. ASSUME NEW s \in fresh' PROVE ReadsAgree(requests[s])'
    <2>1. s \in fresh /\ s # r /\ requests'[s] = requests[s]
      BY <1>1, <1>4 DEF BoardsMayChange
    <2>2. ReadsAgree(requests[s])
      BY <2>1 DEF Counting
    <2>3. PICK q : q = requests[s] /\ requests'[s] = q
      BY <2>1
    <2>4. ReadsAgree(q) /\ Board(q.project)' = Board(q.project)
      <3>1. ReadsAgree(q)
        BY <2>2, <2>3 DEF ReadsAgree
      <3>2. q.project \in Project
        BY <3>1 DEF ReadsAgree
      <3> QED
        BY <1>4, <2>1, <2>3, <3>1, <3>2 DEF BoardsMayChange
    <2>5. ReadsAgree(q)'
      BY <2>4, ReadsStay
    <2> QED
      BY <2>3, <2>5 DEF ReadsAgree
  <1>5. \A s \in Request : Busy(requests[s])'
    BY DEF Counting, Busy
  <1> QED
    BY <1>3, <1>4, <1>5 DEF Counting
LEMMA BoardUnchanged ==
  ASSUME UNCHANGED <<tasks, columns>>, NEW p
  PROVE  Board(p)' = Board(p) /\ ExactCompletions(p)' = ExactCompletions(p)
  BY DEF Board, Cols, DoneCols, LiveIn, Live, ExactCompletions, DoneChoices

\* A step of a request that is not recounting, and leaves boards alone.
LEMMA QuietCounts ==
  ASSUME Typed, Typed', Counting, NEW r \in Request,
         requests[r].pc \notin {"total", "done", "percentage"},
         UNCHANGED <<tasks, columns, projects, changedBy, fresh>>,
         \A s \in Request : s # r => requests'[s] = requests[s], Busy(requests'[r])
  PROVE  Counting'
  <1>1. r \notin fresh /\ fresh \subseteq Request
    BY DEF Counting, ReadsAgree, Typed, TypeOK
  <1>2. CountedIsExact'
    BY BoardUnchanged DEF CountedIsExact, Counting
  <1>3. ASSUME NEW s \in fresh PROVE ReadsAgree(requests[s])'
    <2>1. PICK q : q = requests[s] /\ requests'[s] = q
      BY <1>1
    <2>2. ReadsAgree(q) /\ Board(q.project)' = Board(q.project)
      BY <2>1, BoardUnchanged DEF Counting, ReadsAgree
    <2>3. ReadsAgree(q)'
      BY <2>2, ReadsStay
    <2> QED
      BY <2>1, <2>3 DEF ReadsAgree
  <1>4. \A s \in Request : Busy(requests[s])'
    BY DEF Counting, Busy
  <1> QED
    BY <1>2, <1>3, <1>4 DEF Counting

\* A slot that takes q.
LEMMA Becoming ==
  ASSUME Typed, NEW r \in Request, NEW q, Becomes(r, q)
  PROVE  requests'[r] = q /\ \A s \in Request : s # r => requests'[s] = requests[s]
  BY DEF Typed, TypeOK, Becomes

LEMMA IdleBusy == Busy(Idle) /\ Idle.pc = "idle" /\ Idle.completed = 0 /\ Idle.kind = "none"
  BY DEF Busy, Idle

LEMMA TaskStepCounts ==
  ASSUME Typed, Typed', Counting, NEW r \in Request, TaskStep(r)
  PROVE  Counting'
  <1> DEFINE q == requests[r]
  <1>1. q \in RequestState /\ Busy(q)
    BY DEF Typed, TypeOK, Counting
  <1>2. ASSUME q.pc \notin {"total", "done", "percentage"},
               UNCHANGED <<tasks, columns, projects, changedBy, fresh>>,
               NEW n, Becomes(r, n), Busy(n)
        PROVE  Counting'
    BY <1>2, Becoming, QuietCounts DEF Busy
  <1>3. ASSUME q.pc \notin {"idle", "total", "done", "percentage"},
               BoardsMayChange(r), UNCHANGED projects, NEW n, Becomes(r, n), Busy(n)
        PROVE  Counting'
    BY <1>3, Becoming, ChangeCounts DEF Busy
  <1>4. ASSUME NEW kind \in SaveKinds \cup {"permanentDelete"}, NEW t \in Task, LoadTask(r, kind, t)
        PROVE  Counting'
    <2>1. PICK pc \in {"column", "notFound"}, e \in {tasks[t], Idle.entity} :
             Becomes(r, [Idle EXCEPT !.kind = kind, !.pc = pc, !.task = t, !.entity = e])
      BY <1>4 DEF LoadTask, Idle
    <2> DEFINE n == [Idle EXCEPT !.kind = kind, !.pc = pc, !.task = t, !.entity = e]
    <2>2. Busy(n)
      BY DEF Idle, Busy, SaveKinds
    <2>3. Becomes(r, n)
      BY <2>1
    <2> HIDE DEF n
    <2> QED
      BY <1>2, <1>4, <2>2, <2>3 DEF LoadTask, database, history
  <1>5. CASE AnswerNotFound(r) \/ Reject(r)
    BY <1>2, <1>5, IdleBusy DEF AnswerNotFound, Reject, Ends, database, history
  <1>6. ASSUME NEW project, NEW e, NEW pc \in {"remove", "select"}, q.pc = "column",
               Becomes(r, [q EXCEPT !.project = project, !.entity = e, !.pc = pc]),
               UNCHANGED <<database, history>>
        PROVE  Counting'
    <2> DEFINE n == [q EXCEPT !.project = project, !.entity = e, !.pc = pc]
    <2>1. Busy(n)
      BY <1>1, <1>6 DEF Busy, RequestState
    <2>2. Becomes(r, n)
      BY <1>6
    <2> HIDE DEF n
    <2> QED
      BY <1>2, <1>6, <2>1, <2>2 DEF database, history
  <1>7. ASSUME NEW u \in User, FindColumn(r, u) PROVE Counting'
    BY <1>6, <1>7 DEF FindColumn
  <1>8. ASSUME NEW c \in Column, FindTarget(r, c) PROVE Counting'
    BY <1>6, <1>8 DEF FindTarget
  <1>9. CASE SelectTask(r)
    <2> DEFINE n == [q EXCEPT !.plan = SavePlan(q.entity, tasks[q.task]), !.pc = "write"]
    <2>1. Busy(n)
      BY <1>1, <1>9 DEF SelectTask, Busy, RequestState
    <2>2. Becomes(r, n)
      BY <1>9 DEF SelectTask
    <2> HIDE DEF n
    <2> QED
      BY <1>2, <1>9, <2>1, <2>2 DEF SelectTask, database, history
  <1>10. CASE WriteTask(r)
    <2> DEFINE n == [q EXCEPT !.plan = {}, !.entity = NoTaskRow, !.pc = "log"]
    <2>1. Busy(n)
      BY <1>1, <1>10 DEF WriteTask, Busy, RequestState
    <2>2. Becomes(r, Idle) \/ Becomes(r, n)
      BY <1>10 DEF WriteTask, Ends
    <2> HIDE DEF n
    <2> QED
      BY <1>3, <1>10, <2>1, <2>2, IdleBusy DEF WriteTask
  <1>11. ASSUME NEW c \in Column, FindColumnToCreate(r, c) PROVE Counting'
    <2> DEFINE n == [Idle EXCEPT !.kind = "create", !.pc = "insert",
                                 !.column = c, !.project = ProjectOf[c]]
    <2>1. Busy(n)
      BY DEF Idle, Busy
    <2>2. Becomes(r, n)
      BY <1>11 DEF FindColumnToCreate
    <2> HIDE DEF n
    <2> QED
      BY <1>2, <1>11, <2>1, <2>2 DEF FindColumnToCreate, database, history
  <1>12. ASSUME NEW t \in Task, NEW u \in User \cup {Nobody}, InsertTask(r, t, u) PROVE Counting'
    <2> DEFINE n == [q EXCEPT !.task = t, !.column = SomeColumn, !.pc = "log"]
    <2>1. Busy(n)
      BY <1>1, <1>12 DEF InsertTask, Busy, RequestState
    <2>2. Becomes(r, n)
      BY <1>12 DEF InsertTask
    <2> HIDE DEF n
    <2> QED
      BY <1>3, <1>12, <2>1, <2>2 DEF InsertTask
  <1>13. CASE LogActivity(r)
    <2> DEFINE n == [q EXCEPT !.pc = "columns"]
    <2>1. Busy(n)
      BY <1>1, <1>13 DEF LogActivity, Busy, RequestState
    <2>2. Becomes(r, Idle) \/ Becomes(r, n)
      BY <1>13 DEF LogActivity, Ends
    <2> HIDE DEF n
    <2> QED
      BY <1>2, <1>13, <2>1, <2>2, IdleBusy DEF LogActivity
  <1>14. CASE RemoveTask(r)
    BY <1>3, <1>14, IdleBusy DEF RemoveTask, Ends
  <1> QED
    BY <1>4, <1>5, <1>7, <1>8, <1>9, <1>10, <1>11, <1>12, <1>13, <1>14 DEF TaskStep

LEMMA ColumnStepCounts ==
  ASSUME Typed, Typed', Counting, NEW r \in Request, ColumnStep(r)
  PROVE  Counting'
  <1> DEFINE q == requests[r]
  <1>1. q \in RequestState /\ Busy(q)
    BY DEF Typed, TypeOK, Counting
  <1>2. ASSUME q.pc \notin {"total", "done", "percentage"},
               UNCHANGED <<tasks, columns, projects, changedBy, fresh>>,
               NEW n, Becomes(r, n), Busy(n)
        PROVE  Counting'
    BY <1>2, Becoming, QuietCounts DEF Busy
  <1>3. ASSUME q.pc \notin {"idle", "total", "done", "percentage"},
               BoardsMayChange(r), UNCHANGED projects, NEW n, Becomes(r, n), Busy(n)
        PROVE  Counting'
    BY <1>3, Becoming, ChangeCounts DEF Busy
  <1>4. ASSUME NEW kind \in AllKinds, NEW c \in Column, NEW title \in Title, NEW pc,
               requests[r].pc = "idle", UNCHANGED <<database, history>>,
               pc \notin {"idle", "percentage"},
               Becomes(r, [Idle EXCEPT !.kind = kind, !.column = c, !.title = title, !.pc = pc])
        PROVE  Counting'
    <2> DEFINE n == [Idle EXCEPT !.kind = kind, !.column = c, !.title = title, !.pc = pc]
    <2>1. Busy(n)
      BY <1>4 DEF Idle, Busy, AllKinds
    <2>2. Becomes(r, n)
      BY <1>4
    <2> HIDE DEF n
    <2> QED
      BY <1>2, <1>4, <2>1, <2>2 DEF database, history
  <1>5. ASSUME NEW c \in Column, NEW title \in Title, CheckOwnerToCreate(r, c, title) PROVE Counting'
    <2> DEFINE n == [Idle EXCEPT !.kind = "columnCreate", !.column = c, !.title = title,
                                 !.pc = "columnInsert"]
    <2>1. Busy(n)
      BY DEF Idle, Busy
    <2>2. Becomes(r, n)
      BY <1>5 DEF CheckOwnerToCreate
    <2> HIDE DEF n
    <2> QED
      BY <1>2, <1>5, <2>1, <2>2 DEF CheckOwnerToCreate, database, history
  <1>6. ASSUME NEW kind \in AllKinds, NEW c \in Column, NEW title \in Title, LoadColumn(r, kind, c, title)
        PROVE  Counting'
    <2>1. FirstColumnPC[kind] \in {"columnSelect", "columnCount", "siblings"}
      BY <1>6 DEF LoadColumn, FirstColumnPC
    <2> QED
      BY <1>4, <1>6, <2>1 DEF LoadColumn
  <1>7. CASE InsertColumn(r) \/ WriteColumn(r) \/ WriteSiblings(r)
    BY <1>3, <1>7, IdleBusy DEF InsertColumn, WriteColumn, WriteSiblings, Ends
  <1>8. CASE SelectColumn(r)
    <2> DEFINE n == [q EXCEPT !.plan = SavePlan(ColumnEntity(q), columns[q.column]),
                              !.pc = "columnWrite"]
    <2>1. Busy(n)
      BY <1>1, <1>8 DEF SelectColumn, Busy, RequestState
    <2>2. Becomes(r, n)
      BY <1>8 DEF SelectColumn
    <2> HIDE DEF n
    <2> QED
      BY <1>2, <1>8, <2>1, <2>2 DEF SelectColumn, database, history
  <1>9. CASE CountColumnTasks(r)
    <2> DEFINE n == [q EXCEPT !.pc = "columnRemove"]
    <2>1. Busy(n)
      BY <1>1, <1>9 DEF CountColumnTasks, Busy, RequestState
    <2>2. Becomes(r, Idle) \/ Becomes(r, n)
      BY <1>9 DEF CountColumnTasks, Ends
    <2> HIDE DEF n
    <2> QED
      BY <1>2, <1>9, <2>1, <2>2, IdleBusy DEF CountColumnTasks, database, history
  <1>10. CASE RemoveColumn(r)
    <2> DEFINE n == [q EXCEPT !.pc = "siblings"]
    <2>1. Busy(n)
      BY <1>1, <1>10 DEF RemoveColumn, Busy, RequestState
    <2>2. Becomes(r, n)
      BY <1>10 DEF RemoveColumn
    <2> HIDE DEF n
    <2> QED
      BY <1>3, <1>10, <2>1, <2>2 DEF RemoveColumn
  <1>11. CASE FindSiblings(r)
    <2>1. PICK found : Becomes(r, [q EXCEPT !.pc = "siblingsSelect", !.siblings = found])
      BY <1>11 DEF FindSiblings
    <2> DEFINE n == [q EXCEPT !.pc = "siblingsSelect", !.siblings = found]
    <2>2. Busy(n)
      BY <1>1, <1>11 DEF FindSiblings, Busy, RequestState
    <2>3. Becomes(r, n)
      BY <2>1
    <2> HIDE DEF n
    <2> QED
      BY <1>2, <1>11, <2>2, <2>3 DEF FindSiblings, database, history
  <1>12. CASE SelectSiblings(r)
    <2>1. PICK plans : Becomes(r, [q EXCEPT !.pc = "siblingsWrite", !.siblingPlans = plans]) \/ Becomes(r, Idle)
      BY <1>12 DEF SelectSiblings, Ends
    <2> DEFINE n == [q EXCEPT !.pc = "siblingsWrite", !.siblingPlans = plans]
    <2>2. Busy(n)
      BY <1>1, <1>12 DEF SelectSiblings, Busy, RequestState
    <2>3. Becomes(r, n) \/ Becomes(r, Idle)
      BY <2>1
    <2> HIDE DEF n
    <2> QED
      BY <1>2, <1>12, <2>2, <2>3, IdleBusy DEF SelectSiblings, database, history
  <1> QED
    BY <1>5, <1>6, <1>7, <1>8, <1>9, <1>10, <1>11, <1>12 DEF ColumnStep
\* The statements of a recount, whose reads stay true while it is fresh.
LEMMA RecountStepCounts ==
  ASSUME Typed, Typed', Counting, NEW r \in Request, RecountStep(r)
  PROVE  Counting'
  <1> DEFINE q == requests[r]
             p == q.project
  <1>1. /\ q \in RequestState /\ Busy(q) /\ p \in Project /\ fresh \subseteq Request
        /\ q.pc \in {"columns", "total", "done", "percentage"}
        /\ UNCHANGED <<tasks, columns>>
    BY DEF Typed, TypeOK, Addressed, Counting, RecountStep, ReadColumns, CountTotal, CountCompleted,
           WriteCompletion, database
  <1>2. \A x \in Project : Board(x)' = Board(x) /\ ExactCompletions(x)' = ExactCompletions(x)
    BY <1>1, BoardUnchanged
  <1>3. ASSUME NEW s \in Request, s # r, requests'[s] = requests[s], s \in fresh
        PROVE  ReadsAgree(requests[s])'
    <2>1. PICK n : n = requests[s] /\ requests'[s] = n
      BY <1>3
    <2>2. ReadsAgree(n)
      BY <1>3, <2>1 DEF Counting
    <2>3. ReadsAgree(n)'
      BY <1>2, <2>2, ReadsStay DEF ReadsAgree
    <2> QED
      BY <2>1, <2>3 DEF ReadsAgree
  <1>4. ASSUME NEW n, Becomes(r, n), Busy(n), UNCHANGED <<projects, changedBy>>,
               fresh' \subseteq fresh \cup {r}, r \in fresh' => ReadsAgree(n)'
        PROVE  Counting'
    <2>1. requests'[r] = n /\ \A s \in Request : s # r => requests'[s] = requests[s]
      BY <1>4, Becoming
    <2>2. CountedIsExact'
      BY <1>2, <1>4 DEF CountedIsExact, Counting
    <2>3. \A s \in fresh' : ReadsAgree(requests[s])'
      BY <1>1, <1>3, <1>4, <2>1 DEF ReadsAgree
    <2>4. \A s \in Request : Busy(requests[s])'
      BY <1>4, <2>1 DEF Counting, Busy
    <2> QED
      BY <2>2, <2>3, <2>4 DEF Counting
  <1>5. CASE ReadColumns(r)
    <2>1. CASE Cols(p) = {}
      <3>1. r \notin fresh
        BY <1>5 DEF ReadColumns, Counting, ReadsAgree
      <3> QED
        BY <1>4, <1>5, <2>1, <3>1, IdleBusy DEF ReadColumns, Ends, database
    <2>2. CASE Cols(p) # {}
      <3> DEFINE n(d) == [q EXCEPT !.counted = Cols(p), !.doneColumn = d, !.pc = "total"]
      <3>1. PICK d \in DoneChoices(Cols(p), DoneCols(p)) : Becomes(r, n(d))
        BY <1>5, <2>2 DEF ReadColumns
      <3>2. /\ n(d).pc = "total" /\ n(d).project = p /\ n(d).counted = Cols(p) /\ n(d).doneColumn = d
            /\ n(d).kind = q.kind /\ n(d).completed = q.completed
        BY <1>1 DEF RequestState
      <3>3. PICK m : m = n(d)
        OBVIOUS
      <3> HIDE DEF n
      <3>4. Busy(m) /\ Becomes(r, m)
        BY <1>1, <1>5, <3>1, <3>2, <3>3 DEF Busy, ReadColumns
      <3>5. ReadsAgree(m)
        BY <1>1, <3>2, <3>3 DEF ReadsAgree
      <3>6. Board(m.project)' = Board(m.project)
        BY <1>1, <1>2, <3>2, <3>3
      <3>7. ReadsAgree(m)'
        BY <3>5, <3>6, ReadsStay
      <3> QED
        BY <1>4, <1>5, <2>2, <3>4, <3>7 DEF ReadColumns, database
    <2> QED
      BY <2>1, <2>2
  <1>6. CASE CountTotal(r)
    <2> DEFINE n == [q EXCEPT !.total = Tally(q.counted), !.counted = {},
                              !.pc = IF q.doneColumn = NoColumn THEN "percentage" ELSE "done"]
    <2>1. /\ n.pc = IF q.doneColumn = NoColumn THEN "percentage" ELSE "done"
          /\ n.total = Cardinality(LiveIn(q.counted)) /\ n.project = p /\ n.doneColumn = q.doneColumn
          /\ n.kind = q.kind /\ n.completed = 0
      BY <1>1, <1>6 DEF CountTotal, Tally, Busy, RequestState
    <2>2. PICK m : m = n
      OBVIOUS
    <2>3. Becomes(r, m)
      BY <1>6, <2>2 DEF CountTotal
    <2> HIDE DEF n
    <2>4. Busy(m)
      BY <1>1, <1>6, <2>1, <2>2 DEF Busy, CountTotal
    <2>5. ASSUME r \in fresh PROVE ReadsAgree(m)'
      <3>1. ReadsAgree(q) /\ q.pc = "total"
        BY <1>6, <2>5 DEF Counting, CountTotal
      <3>2. LiveIn({NoColumn}) = {} /\ Cardinality({}) = 0
        BY NothingInNoColumn, FS_EmptySet
      <3>3. ReadsAgree(m)
        BY <2>1, <2>2, <3>1, <3>2 DEF ReadsAgree
      <3>4. Board(m.project)' = Board(m.project)
        BY <1>1, <1>2, <2>1, <2>2
      <3> QED
        BY <3>3, <3>4, ReadsStay
    <2> QED
      BY <1>4, <1>6, <2>3, <2>4, <2>5 DEF CountTotal, database, history
  <1>7. CASE CountCompleted(r)
    <2> DEFINE n == [q EXCEPT !.completed = Tally({q.doneColumn}),
                              !.doneColumn = NoColumn, !.pc = "percentage"]
    <2>1. /\ n.pc = "percentage" /\ n.completed = Cardinality(LiveIn({q.doneColumn}))
          /\ n.project = p /\ n.total = q.total /\ n.kind = q.kind
      BY <1>1 DEF Tally, RequestState
    <2>2. PICK m : m = n
      OBVIOUS
    <2>3. Becomes(r, m)
      BY <1>7, <2>2 DEF CountCompleted
    <2> HIDE DEF n
    <2>4. Busy(m)
      BY <1>1, <1>7, <2>1, <2>2 DEF Busy, CountCompleted
    <2>5. ASSUME r \in fresh PROVE ReadsAgree(m)'
      <3>1. ReadsAgree(q) /\ q.pc = "done"
        BY <1>7, <2>5 DEF Counting, CountCompleted
      <3>2. ReadsAgree(m)
        BY <2>1, <2>2, <3>1 DEF ReadsAgree
      <3>3. Board(m.project)' = Board(m.project)
        BY <1>1, <1>2, <2>1, <2>2
      <3> QED
        BY <3>2, <3>3, ReadsStay
    <2> QED
      BY <1>4, <1>7, <2>3, <2>4, <2>5 DEF CountCompleted, database, history
  <1>8. CASE WriteCompletion(r)
    <2>1. /\ q.pc = "percentage" /\ Becomes(r, Idle) /\ fresh' = fresh \ {r}
          /\ projects' = [projects EXCEPT ![p].completion = Percent(q.completed, q.total)]
          /\ changedBy' = [changedBy EXCEPT ![p] =
                              IF r \in fresh THEN "none"
                              ELSE IF @ = "none" THEN "overtaken" ELSE @]
      BY <1>8 DEF WriteCompletion, Ends
    <2>2. requests'[r] = Idle /\ \A s \in Request : s # r => requests'[s] = requests[s]
      BY <2>1, Becoming
    <2>3. projects \in [Project -> ProjectRow] /\ changedBy \in [Project -> AllKinds \cup {"none", "movedAway", "overtaken"}]
      BY DEF Typed, TypeOK
    <2>4. CountedIsExact'
      <3> SUFFICES ASSUME NEW x \in Project, changedBy'[x] = "none"
                   PROVE  projects'[x].completion \in ExactCompletions(x)'
        BY DEF CountedIsExact
      <3>1. CASE x # p
        BY <1>2, <2>1, <2>3, <3>1 DEF Counting, CountedIsExact
      <3>2. CASE x = p
        <4>1. r \in fresh
          BY <1>1, <2>1, <2>3, <3>2
        <4>2. ReadsAgree(q)
          BY <4>1 DEF Counting
        <4>3. Percent(q.completed, q.total) \in ExactCompletions(p)
          BY <2>1, <4>2 DEF ReadsAgree, ExactCompletions
        <4>4. projects'[p].completion = Percent(q.completed, q.total)
          BY <1>1, <2>1, <2>3 DEF ProjectRow
        <4> QED
          BY <1>1, <1>2, <3>2, <4>3, <4>4
      <3> QED
        BY <3>1, <3>2
    <2>5. \A s \in fresh' : ReadsAgree(requests[s])'
      BY <1>1, <1>3, <2>1, <2>2
    <2>6. \A s \in Request : Busy(requests[s])'
      BY <2>2, IdleBusy DEF Counting, Busy
    <2> QED
      BY <2>4, <2>5, <2>6 DEF Counting
  <1> QED
    BY <1>5, <1>6, <1>7, <1>8 DEF RecountStep

\* Saves of projects and requests that die, which may spoil a stored completion
\* and say so.
LEMMA SpoilingCounts ==
  ASSUME Typed, Typed', Counting, NEW r \in Request, NEW n, Becomes(r, n), Busy(n), r \notin fresh',
         UNCHANGED <<tasks, columns>>, fresh' \subseteq fresh,
         \A p \in Project : changedBy'[p] = "none" =>
             changedBy[p] = "none" /\ projects'[p].completion = projects[p].completion
  PROVE  Counting'
  <1>1. requests'[r] = n /\ \A s \in Request : s # r => requests'[s] = requests[s]
    BY Becoming
  <1>2. CountedIsExact'
    BY BoardUnchanged DEF CountedIsExact, Counting
  <1>3. ASSUME NEW s \in fresh' PROVE ReadsAgree(requests[s])'
    <2>1. PICK m : m = requests[s] /\ requests'[s] = m
      BY <1>1, <1>3 DEF Typed, TypeOK
    <2>2. ReadsAgree(m) /\ Board(m.project)' = Board(m.project)
      BY <1>3, <2>1, BoardUnchanged DEF Counting, ReadsAgree
    <2>3. ReadsAgree(m)'
      BY <2>2, ReadsStay
    <2> QED
      BY <2>1, <2>3 DEF ReadsAgree
  <1>4. \A s \in Request : Busy(requests[s])'
    BY <1>1 DEF Counting, Busy
  <1> QED
    BY <1>2, <1>3, <1>4 DEF Counting

LEMMA ProjectStepCounts ==
  ASSUME Typed, Typed', Counting, NEW r \in Request, ProjectStep(r) \/ Abort(r)
  PROVE  Counting'
  <1> DEFINE q == requests[r]
  <1>1. q \in RequestState /\ Busy(q) /\ (r \in fresh => q.pc \in {"total", "done", "percentage"})
    BY DEF Typed, TypeOK, Counting, ReadsAgree
  <1>2. ASSUME NEW kind \in AllKinds, NEW p \in Project, LoadProject(r, kind, p) PROVE Counting'
    <2>1. PICK e : Becomes(r, [Idle EXCEPT !.kind = kind, !.project = p, !.pc = "projectSelect",
                                           !.projectEntity = e])
      BY <1>2 DEF LoadProject
    <2> DEFINE n == [Idle EXCEPT !.kind = kind, !.project = p, !.pc = "projectSelect",
                                 !.projectEntity = e]
    <2>2. Busy(n)
      BY DEF Idle, Busy, AllKinds
    <2>3. Becomes(r, n)
      BY <2>1
    <2> HIDE DEF n
    <2> QED
      BY <1>1, <1>2, <2>2, <2>3, SpoilingCounts DEF LoadProject, database, history
  <1>3. CASE SelectProject(r)
    <2> DEFINE n == [q EXCEPT !.plan = SavePlan(q.projectEntity, projects[q.project]),
                              !.pc = "projectWrite"]
    <2>1. Busy(n)
      BY <1>1, <1>3 DEF SelectProject, Busy, RequestState
    <2>2. Becomes(r, n)
      BY <1>3 DEF SelectProject
    <2> HIDE DEF n
    <2> QED
      BY <1>1, <1>3, <2>1, <2>2, SpoilingCounts DEF SelectProject, database, history
  <1>4. CASE WriteProject(r)
    <2> DEFINE p == q.project
               saved == [row |-> "there",
                         deletedAt |-> Written("deletedAt", q.plan, q.projectEntity, projects[p]),
                         completion |-> Written("completion", q.plan, q.projectEntity, projects[p])]
    <2>1. /\ p \in Project /\ q.pc = "projectWrite" /\ Becomes(r, Idle)
          /\ projects' = [projects EXCEPT ![p] = saved]
          /\ changedBy' = [changedBy EXCEPT ![p] =
                             IF saved.completion = projects[p].completion THEN @ ELSE "overtaken"]
          /\ UNCHANGED <<tasks, columns, fresh>>
      BY <1>4 DEF WriteProject, Ends, Typed, Addressed
    <2> HIDE DEF saved
    <2>2. \A x \in Project : changedBy'[x] = "none" =>
             changedBy[x] = "none" /\ projects'[x].completion = projects[x].completion
      BY <2>1 DEF Typed, TypeOK
    <2> QED
      BY <1>1, <2>1, <2>2, IdleBusy, SpoilingCounts
  <1>5. CASE Abort(r)
    BY <1>5, IdleBusy, SpoilingCounts DEF Abort, Ends, database, Typed, TypeOK
  <1> QED
    BY <1>2, <1>3, <1>4, <1>5 DEF ProjectStep

LEMMA NextCounts == Typed /\ Typed' /\ Counting /\ [Next]_vars => Counting'
  <1> SUFFICES ASSUME Typed, Typed', Counting, [Next]_vars PROVE Counting'
    OBVIOUS
  \* The trash is not part of a board.
  <1>1. ASSUME UNCHANGED <<columns, projects, requests, changedBy, fresh>>,
               \A t \in Task : Live(t)' = Live(t) /\ (Live(t) => tasks'[t].column = tasks[t].column)
        PROVE  Counting'
    <2>1. \A C : LiveIn(C)' = LiveIn(C)
      BY <1>1 DEF LiveIn
    <2>2. ASSUME NEW p PROVE Board(p)' = Board(p)
      BY <1>1, <2>1 DEF Board, Cols, DoneCols
    <2>3. CountedIsExact'
      BY <1>1, <2>2, SameBoard DEF CountedIsExact, Counting
    <2>4. ASSUME NEW s \in fresh PROVE ReadsAgree(requests[s])'
      <3>1. PICK m : m = requests[s] /\ requests'[s] = m
        BY <1>1
      <3>2. ReadsAgree(m) /\ Board(m.project)' = Board(m.project)
        BY <2>2, <3>1 DEF Counting
      <3>3. ReadsAgree(m)'
        BY <3>2, ReadsStay
      <3> QED
        BY <3>1, <3>3 DEF ReadsAgree
    <2> QED
      BY <1>1, <2>3, <2>4 DEF Counting, Busy
  <1>2. CASE CleanupOldTrash
    <2>1. \A t \in Task : Live(t)' = Live(t) /\ (Live(t) => tasks'[t].column = tasks[t].column)
      BY <1>2 DEF CleanupOldTrash, Expired, Live, Visible, Exists, NoTaskRow
    <2> QED
      BY <1>1, <1>2, <2>1 DEF CleanupOldTrash, history
  <1>3. ASSUME NEW t \in Task, Expire(t) PROVE Counting'
    <2>1. \A x \in Task : Live(x)' = Live(x) /\ (Live(x) => tasks'[x].column = tasks[x].column)
      BY <1>3 DEF Expire, Live, Visible, Exists, Typed, TypeOK, TaskRow
    <2> QED
      BY <1>1, <1>3, <2>1 DEF Expire, history
  <1>4. CASE UNCHANGED vars
    BY <1>1, <1>4 DEF vars, Live
  <1> QED
    BY <1>2, <1>3, <1>4, TaskStepCounts, RecountStepCounts, ColumnStepCounts, ProjectStepCounts DEF Next

\* updateCompletionPercentage: however recounts, changes of boards and saves of
\* projects interleave and wherever they die, a completion that no change has
\* outdated is the percentage of done tasks on its board.
THEOREM CountsStayExact == Spec => []CountedIsExact
  <1>1. Init => Counting
    <2> SUFFICES ASSUME Init PROVE Counting
      OBVIOUS
    <2>1. \A C : LiveIn(C) = {}
      BY DEF Init, LiveIn, Live, Visible, Exists, NoTaskRow
    <2>2. Cardinality({}) = 0 /\ Percent(0, 0) = 0
      BY FS_EmptySet DEF Percent
    <2>3. ASSUME NEW p \in Project PROVE 0 \in ExactCompletions(p)
      <3>1. DoneChoices(Cols(p), DoneCols(p)) # {}
        BY DEF DoneChoices
      <3> QED
        BY <2>1, <2>2, <3>1 DEF ExactCompletions
    <2> QED
      BY <2>3, IdleBusy DEF Init, Counting, CountedIsExact
  <1>2. Counting => CountedIsExact
    BY DEF Counting
  <1> QED
    BY InitTyped, NextTyped, NextCounts, <1>1, <1>2, PTL DEF Spec
------------------------------------------------------------------------------
(* One client after another.  What RecountsSettle, DeletedStaysDeleted,         *)
(* NoTaskWithoutColumn and EditsItsOwnColumns say follows from what a request   *)
(* that nobody overtakes has read: it is still so when it writes.               *)

OneClient == \A r, s \in Request : r = s

\* A request that is after its change of the board, if it changes it.
Late(q) == q.pc \in {"log"} \cup RecountPC

Fits(r) ==
    LET q == requests[r]
    IN /\ q.pc \in {"column", "select", "write"} =>
              q.kind \in {"update", "softDelete", "move", "assign", "unassign", "permanentDelete"}
              /\ Live(q.task)
       /\ q.pc = "column" => q.entity = tasks[q.task]
       /\ q.pc \in {"select", "write"} =>
              /\ q.kind # "permanentDelete"
              /\ \E u \in User \cup {Nobody}, c \in Column :
                    q.entity = Edited(q.kind, tasks[q.task], u, c)
              /\ Exists(columns[q.entity.column]) /\ q.project = ProjectOf[q.entity.column]
       /\ q.pc = "write" => q.plan = SavePlan(q.entity, tasks[q.task])
       /\ q.pc = "insert" => q.kind = "create" /\ Exists(columns[q.column])
                             /\ q.project = ProjectOf[q.column]
       /\ q.pc = "remove" => q.kind = "permanentDelete"
       /\ Late(q) => q.kind # "restore" /\ (q.kind = "softDelete" => ~Live(q.task))
       /\ q.pc = "log" => Exists(tasks[q.task]) /\ tasks[q.task].deletedAt # "expired"
       /\ q.pc \in {"total", "done", "percentage"} => r \in fresh
       /\ q.pc = "columnInsert" => q.kind = "columnCreate"
       /\ q.pc \in {"columnSelect", "columnWrite"} => q.kind = "columnUpdate" /\ Exists(columns[q.column])
       /\ q.pc = "columnWrite" => "row" \notin q.plan
       /\ q.pc \in {"columnCount", "columnRemove"} => q.kind = "columnDelete"
       /\ q.pc = "columnRemove" => LiveIn({q.column}) = {}
       /\ q.pc = "siblingsSelect" => \A c \in Column : Exists(q.siblings[c]) => q.siblings[c] = columns[c]
       /\ q.pc = "siblingsWrite" => \A c \in Column : q.siblingPlans[c] = {}

Settled == {"none", "movedAway", "overtaken", "permanentDelete",
            "columnCreate", "columnUpdate", "columnDelete"}

\* r has still to count its change of p.
WillCount(r, p) ==
    LET q == requests[r]
    IN /\ Late(q) /\ Recounts(q.kind) /\ q.project = p /\ changedBy[p] = q.kind
       /\ q.pc \in {"log", "columns"} => Cols(p) # {}

Pending == \A p \in Project : changedBy[p] \in Settled \/ \E r \in Request : WillCount(r, p)

Serial ==
    /\ \A r \in Request : Fits(r)
    /\ Pending /\ DeletedStaysDeleted /\ NoTaskWithoutColumn

\* A step of the one request that leaves tables and histories alone.
LEMMA ReadsSerial ==
  ASSUME OneClient, Serial, NEW r \in Request, ~Late(requests[r]),
         UNCHANGED <<database, history>>, Fits(r)'
  PROVE  Serial'
  <1>1. UNCHANGED <<tasks, columns, projects, referenced, told, changedBy, fresh>>
    BY DEF database, history
  <1>2. \A p \in Project : changedBy[p] \in Settled
    BY DEF Serial, Pending, WillCount, OneClient
  <1>3. Pending'
    BY <1>1, <1>2 DEF Pending
  <1>4. DeletedStaysDeleted' /\ NoTaskWithoutColumn'
    BY <1>1 DEF Serial, DeletedStaysDeleted, NoTaskWithoutColumn, Live
  <1>5. \A s \in Request : Fits(s)'
    BY DEF OneClient
  <1> QED
    BY <1>3, <1>4, <1>5 DEF Serial

\* A slot without a request.
LEMMA IdleFits ==
  ASSUME Typed, NEW r \in Request, Ends(r)
  PROVE  Fits(r)' /\ requests'[r].pc = "idle"
  BY DEF Typed, TypeOK, Ends, Becomes, Idle, Fits, Late, RecountPC

LEMMA LoadsSerial ==
  ASSUME OneClient, Typed, Serial, NEW r \in Request,
         \/ \E kind \in SaveKinds \cup {"permanentDelete"}, t \in Task : LoadTask(r, kind, t)
         \/ \E u \in User : FindColumn(r, u)
         \/ \E c \in Column : FindTarget(r, c) \/ FindColumnToCreate(r, c)
         \/ AnswerNotFound(r) \/ Reject(r) \/ SelectTask(r)
  PROVE  Serial'
  <1> DEFINE q == requests[r]
  <1>1. /\ q \in RequestState /\ requests \in [Request -> RequestState]
        /\ tasks \in [Task -> TaskRow] /\ columns \in [Column -> ColumnRow]
        /\ Fits(r) /\ (q.pc \in {"column", "select"} => q.task \in Task)
        /\ UNCHANGED <<database, history>> /\ ~Late(q)
    BY DEF Typed, TypeOK, Addressed, Serial, LoadTask, FindColumn, FindTarget, FindColumnToCreate,
           AnswerNotFound, Reject, SelectTask, Late, RecountPC
  <1>2. UNCHANGED <<tasks, columns, projects, referenced, told, changedBy, fresh>>
    BY <1>1 DEF database, history
  <1>3. SUFFICES Fits(r)'
    BY <1>1, ReadsSerial
  <1>4. ASSUME NEW kind \in SaveKinds \cup {"permanentDelete"}, NEW t \in Task, LoadTask(r, kind, t)
        PROVE  Fits(r)'
    <2>1. CASE Lookup(kind, tasks[t])
      <3>1. kind # "restore" /\ Live(t)
        BY <2>1 DEF Lookup, Visible, Live
      <3> DEFINE n == [Idle EXCEPT !.kind = kind, !.pc = "column", !.task = t, !.entity = tasks[t]]
      <3>2. n.kind = kind /\ n.pc = "column" /\ n.task = t /\ n.entity = tasks[t]
        BY DEF Idle
      <3>3. Becomes(r, n)
        BY <1>4, <2>1 DEF LoadTask
      <3> HIDE DEF n
      <3>4. requests'[r] = n
        BY <1>1, <3>3 DEF Becomes
      <3> QED
        BY <1>2, <3>1, <3>2, <3>4 DEF Fits, Late, RecountPC, SaveKinds, Live
    <2>2. CASE ~Lookup(kind, tasks[t])
      <3> DEFINE n == [Idle EXCEPT !.kind = kind, !.pc = "notFound", !.task = t]
      <3>1. n.pc = "notFound"
        BY DEF Idle
      <3>2. Becomes(r, n)
        BY <1>4, <2>2 DEF LoadTask
      <3> HIDE DEF n
      <3>3. requests'[r] = n
        BY <1>1, <3>2 DEF Becomes
      <3> QED
        BY <3>1, <3>3 DEF Fits, Late, RecountPC
    <2> QED
      BY <2>1, <2>2
  <1>5. ASSUME NEW u \in User, FindColumn(r, u) PROVE Fits(r)'
    <2> DEFINE c == q.entity.column
               pc == IF q.kind = "permanentDelete" THEN "remove" ELSE "select"
               n == [q EXCEPT
                       !.project = IF Exists(columns[c]) THEN ProjectOf[c] ELSE NoProject,
                       !.entity = Edited(q.kind, @, u, c), !.pc = pc]
    <2>1. /\ q.pc = "column" /\ q.kind # "move" /\ q.entity = tasks[q.task] /\ Live(q.task)
          /\ q.kind \in {"update", "softDelete", "assign", "unassign", "permanentDelete"}
          /\ q.task \in Task
      BY <1>1, <1>5 DEF FindColumn, Fits
    <2>2. Exists(columns[c]) /\ c \in Column /\ q.entity \in TaskRow
      BY <1>1, <2>1 DEF Serial, NoTaskWithoutColumn, TaskRow
    <2>3. Becomes(r, n)
      BY <1>5 DEF FindColumn
    <2>4. /\ n.pc = pc /\ n.kind = q.kind /\ n.task = q.task /\ n.project = ProjectOf[c]
          /\ n.entity = Edited(q.kind, tasks[q.task], u, c)
      BY <1>1, <2>1, <2>2 DEF RequestState
    <2>5. n.entity.column = c
      BY <1>1, <2>1, <2>2, <2>4 DEF Edited, TaskRow
    <2> HIDE DEF n
    <2>6. requests'[r] = n
      BY <1>1, <2>3 DEF Becomes
    <2> QED
      BY <1>2, <2>1, <2>2, <2>4, <2>5, <2>6 DEF Fits, Late, RecountPC, Live
  <1>6. ASSUME NEW c \in Column, FindTarget(r, c) PROVE Fits(r)'
    <2> DEFINE n == [q EXCEPT !.project = ProjectOf[c],
                              !.entity = Edited(q.kind, @, Nobody, c), !.pc = "select"]
    <2>1. /\ q.pc = "column" /\ q.kind = "move" /\ q.entity = tasks[q.task] /\ Live(q.task)
          /\ q.task \in Task /\ Exists(columns[c])
      BY <1>1, <1>6 DEF FindTarget, Fits
    <2>2. Becomes(r, n)
      BY <1>6 DEF FindTarget
    <2>3. /\ n.pc = "select" /\ n.kind = q.kind /\ n.task = q.task /\ n.project = ProjectOf[c]
          /\ n.entity = Edited(q.kind, tasks[q.task], Nobody, c)
      BY <1>1, <2>1 DEF RequestState
    <2>4. n.entity.column = c
      BY <1>1, <2>1, <2>3 DEF Edited, TaskRow
    <2> HIDE DEF n
    <2>5. requests'[r] = n
      BY <1>1, <2>2 DEF Becomes
    <2> QED
      BY <1>2, <2>1, <2>3, <2>4, <2>5 DEF Fits, Late, RecountPC, Live
  <1>7. ASSUME NEW c \in Column, FindColumnToCreate(r, c) PROVE Fits(r)'
    <2> DEFINE n == [Idle EXCEPT !.kind = "create", !.pc = "insert",
                                 !.column = c, !.project = ProjectOf[c]]
    <2>1. n.kind = "create" /\ n.pc = "insert" /\ n.column = c /\ n.project = ProjectOf[c]
      BY DEF Idle
    <2>2. Becomes(r, n) /\ Exists(columns[c])
      BY <1>7 DEF FindColumnToCreate
    <2> HIDE DEF n
    <2>3. requests'[r] = n
      BY <1>1, <2>2 DEF Becomes
    <2> QED
      BY <1>2, <2>1, <2>2, <2>3 DEF Fits, Late, RecountPC
  <1>8. CASE SelectTask(r)
    <2> DEFINE n == [q EXCEPT !.plan = SavePlan(q.entity, tasks[q.task]), !.pc = "write"]
    <2>1. Becomes(r, n) /\ q.pc = "select"
      BY <1>8 DEF SelectTask
    <2>2. /\ n.pc = "write" /\ n.kind = q.kind /\ n.task = q.task /\ n.project = q.project
          /\ n.entity = q.entity /\ n.plan = SavePlan(q.entity, tasks[q.task])
      BY <1>1, PlanType DEF RequestState
    <2> HIDE DEF n
    <2>3. requests'[r] = n
      BY <1>1, <2>1 DEF Becomes
    <2> QED
      BY <1>1, <1>2, <2>1, <2>2, <2>3 DEF Fits, Late, RecountPC, Live
  <1>9. CASE AnswerNotFound(r) \/ Reject(r)
    BY <1>9, IdleFits DEF AnswerNotFound, Reject
  <1> QED
    BY <1>4, <1>5, <1>6, <1>7, <1>8, <1>9
\* A board changes with the tasks in its columns, here with t alone.
LEMMA ChangedBoard ==
  ASSUME Typed, UNCHANGED columns, NEW t \in Task, \A s \in Task \ {t} : tasks'[s] = tasks[s],
         NEW p \in Project, Board(p)' # Board(p)
  PROVE  /\ \/ Live(t) /\ ProjectOf[tasks[t].column] = p
            \/ Live(t)' /\ ProjectOf[tasks'[t].column] = p
         /\ ~(Live(t)' = Live(t) /\ tasks'[t].column = tasks[t].column)
  <1>1. Cols(p)' = Cols(p) /\ DoneCols(p)' = DoneCols(p)
    BY DEF Cols, DoneCols
  <1>2. PICK c \in Cols(p) : LiveIn({c})' # LiveIn({c})
    BY <1>1 DEF Board
  <1>3. ~(t \in LiveIn({c})' <=> t \in LiveIn({c}))
    BY <1>2 DEF LiveIn, Live
  <1>4. ProjectOf[c] = p
    BY DEF Cols
  <1> QED
    BY <1>3, <1>4 DEF LiveIn

\* save writes the entity, when the row is as it was when it was read.
LEMMA SavedIsEntity ==
  ASSUME NEW e \in TaskRow, NEW row \in TaskRow, e.row = row.row, Exists(row)
  PROVE  /\ SavedTask(SavePlan(e, row), e, row) = e
         /\ ~IsInsert(SavePlan(e, row))
  <1>1. \A f \in {"row", "deletedAt", "column", "assignee"} :
           f \in SavePlan(e, row) <=> e[f] # row[f]
    BY DEF SavePlan, TaskRow
  <1> QED
    BY <1>1 DEF SavedTask, Written, TaskRow, IsInsert

\* What a save that nobody overtook has done.
LEMMA WriteTaskResult ==
  ASSUME OneClient, Typed, Serial, NEW r \in Request, WriteTask(r)
  PROVE  LET q == requests[r]
         IN /\ q.task \in Task /\ q.entity \in TaskRow /\ Live(q.task) /\ q.entity.row = "there"
            /\ q.entity.deletedAt = IF q.kind = "softDelete" THEN "recent" ELSE "null"
            /\ q.kind # "move" => q.entity.column = tasks[q.task].column
            /\ q.kind \notin {"assign", "unassign"} => q.entity.assignee = tasks[q.task].assignee
            /\ tasks' = [tasks EXCEPT ![q.task] = q.entity]
            /\ IF q.kind = "unassign" THEN Ends(r)
               ELSE Becomes(r, [q EXCEPT !.plan = {}, !.entity = NoTaskRow, !.pc = "log"])
  <1> DEFINE q == requests[r]
             row == tasks[q.task]
  <1>1. /\ q \in RequestState /\ q.pc = "write" /\ Fits(r) /\ q.task \in Task /\ row \in TaskRow
        /\ tasks \in [Task -> TaskRow] /\ q.entity \in TaskRow
    BY DEF WriteTask, Typed, TypeOK, Addressed, Serial, RequestState
  <1>2. PICK u \in User \cup {Nobody}, c \in Column : q.entity = Edited(q.kind, row, u, c)
    BY <1>1 DEF Fits
  <1>3. /\ Live(q.task) /\ q.plan = SavePlan(q.entity, row)
        /\ q.kind \in {"update", "softDelete", "move", "assign", "unassign"}
    BY <1>1 DEF Fits
  <1>4. /\ Exists(row) /\ row.row = "there" /\ row.deletedAt = "null"
    BY <1>3 DEF Live, Visible, Exists
  <1>5. /\ q.entity.row = "there"
        /\ q.entity.deletedAt = IF q.kind = "softDelete" THEN "recent" ELSE "null"
        /\ q.kind # "move" => q.entity.column = row.column
        /\ q.kind \notin {"assign", "unassign"} => q.entity.assignee = row.assignee
    BY <1>1, <1>2, <1>3, <1>4 DEF Edited, TaskRow
  <1>6. SavedTask(q.plan, q.entity, row) = q.entity /\ ~IsInsert(q.plan)
    BY <1>1, <1>3, <1>4, <1>5, SavedIsEntity
  <1>7. ~SaveFails(q.plan, row) /\ SaveHits(q.plan, row)
    BY <1>4, <1>6 DEF SaveFails, SaveHits
  <1>8. tasks' = [tasks EXCEPT ![q.task] = q.entity]
    BY <1>1, <1>6, <1>7 DEF WriteTask
  <1>9. IF q.kind = "unassign" THEN Ends(r)
        ELSE Becomes(r, [q EXCEPT !.plan = {}, !.entity = NoTaskRow, !.pc = "log"])
    BY <1>7 DEF WriteTask
  <1> QED
    BY <1>1, <1>3, <1>5, <1>8, <1>9

LEMMA WriteTaskSerial ==
  ASSUME OneClient, Typed, Serial, NEW r \in Request, WriteTask(r)
  PROVE  Serial'
  <1> DEFINE q == requests[r]
             n == [q EXCEPT !.plan = {}, !.entity = NoTaskRow, !.pc = "log"]
  <1>0. PICK t \in Task, e \in TaskRow : t = q.task /\ e = q.entity
    BY WriteTaskResult
  <1>1. /\ q \in RequestState /\ q.pc = "write" /\ Fits(r) /\ ~Late(q)
        /\ requests \in [Request -> RequestState] /\ tasks \in [Task -> TaskRow]
        /\ changedBy \in [Project -> AllKinds \cup {"none", "movedAway", "overtaken"}]
        /\ BoardsMayChange(r) /\ UNCHANGED <<columns, projects, referenced, told>>
    BY DEF WriteTask, Typed, TypeOK, Serial, Late, RecountPC
  <1>2. /\ t \in Task /\ e \in TaskRow /\ Live(t) /\ e.row = "there"
        /\ e.deletedAt = IF q.kind = "softDelete" THEN "recent" ELSE "null"
        /\ q.kind # "move" => e.column = tasks[t].column
        /\ tasks' = [tasks EXCEPT ![t] = e]
        /\ IF q.kind = "unassign" THEN Ends(r) ELSE Becomes(r, n)
    BY <1>0, WriteTaskResult
  <1>3. /\ Exists(columns[e.column]) /\ q.project = ProjectOf[e.column] /\ e.column \in Column
        /\ q.kind \in {"update", "softDelete", "move", "assign", "unassign"}
    BY <1>0, <1>1, <1>2 DEF Fits, TaskRow
  <1>4. n.pc = "log" /\ n.kind = q.kind /\ n.task = t /\ n.project = q.project
    BY <1>0, <1>1 DEF RequestState
  <1>5. tasks'[t] = e /\ \A s \in Task \ {t} : tasks'[s] = tasks[s]
    BY <1>1, <1>2
  <1>6. Live(t)' <=> q.kind # "softDelete"
    BY <1>2, <1>5 DEF Live, Visible, Exists
  <1> HIDE DEF n
  <1>7. Fits(r)'
    <2>1. CASE q.kind = "unassign"
      BY <1>2, <2>1, IdleFits
    <2>2. CASE q.kind # "unassign"
      <3>1. requests'[r] = n
        BY <1>1, <1>2, <2>2 DEF Becomes
      <3>2. Exists(tasks'[t]) /\ tasks'[t].deletedAt # "expired"
        BY <1>2, <1>5 DEF Exists
      <3> QED
        BY <1>3, <1>4, <1>6, <3>1, <3>2 DEF Fits, Late, RecountPC
    <2> QED
      BY <2>1, <2>2
  <1>8. DeletedStaysDeleted'
    BY <1>1, <1>2, <1>5 DEF Serial, DeletedStaysDeleted, Live
  <1>9. NoTaskWithoutColumn'
    BY <1>1, <1>3, <1>5 DEF Serial, NoTaskWithoutColumn, Live
  <1>10. Pending'
    <2> SUFFICES ASSUME NEW p \in Project
                 PROVE  changedBy'[p] \in Settled \/ WillCount(r, p)'
      BY DEF Pending
    <2>1. changedBy[p] \in Settled
      BY <1>1 DEF Serial, Pending, WillCount, OneClient
    <2>2. CASE Board(p)' = Board(p)
      BY <1>1, <2>1, <2>2 DEF BoardsMayChange
    <2>3. CASE Board(p)' # Board(p)
      <3>1. changedBy'[p] = IF q.kind = "move" /\ p # q.project THEN "movedAway" ELSE q.kind
        BY <1>1, <2>3 DEF BoardsMayChange
      <3>2. /\ \/ ProjectOf[tasks[t].column] = p
               \/ Live(t)' /\ ProjectOf[e.column] = p
            /\ ~(Live(t)' = Live(t) /\ e.column = tasks[t].column)
        BY <1>1, <1>2, <1>5, <2>3, ChangedBoard
      <3>3. q.kind \in {"softDelete", "move"}
        BY <1>2, <1>3, <1>6, <3>2
      <3>4. p = q.project \/ q.kind = "move"
        BY <1>2, <1>3, <3>2, <3>3
      <3>5. CASE p # q.project
        BY <3>1, <3>4, <3>5 DEF Settled
      <3>6. CASE p = q.project
        <4>1. requests'[r] = n
          BY <1>1, <1>2, <3>3 DEF Becomes
        <4>2. e.column \in Cols(p)'
          BY <1>1, <1>3, <3>6 DEF Cols
        <4> QED
          BY <1>4, <3>1, <3>3, <3>6, <4>1, <4>2 DEF WillCount, Late, Recounts
      <3> QED
        BY <3>5, <3>6
    <2> QED
      BY <2>2, <2>3
  <1> QED
    BY <1>7, <1>8, <1>9, <1>10 DEF Serial, OneClient

LEMMA InsertTaskSerial ==
  ASSUME OneClient, Typed, Persistence, Serial, NEW r \in Request,
         NEW t \in Task, NEW u \in User \cup {Nobody}, InsertTask(r, t, u)
  PROVE  Serial'
  <1> DEFINE q == requests[r]
             row == [row |-> "there", deletedAt |-> "null", column |-> q.column, assignee |-> u]
             n == [q EXCEPT !.task = t, !.column = SomeColumn, !.pc = "log"]
  <1>1. /\ q \in RequestState /\ q.pc = "insert" /\ ~Late(q)
        /\ q.kind = "create" /\ Exists(columns[q.column]) /\ q.project = ProjectOf[q.column]
        /\ requests \in [Request -> RequestState] /\ tasks \in [Task -> TaskRow]
        /\ BoardsMayChange(r) /\ UNCHANGED <<columns, projects, referenced, told>>
        /\ tasks[t].row = "none"
    BY DEF InsertTask, Typed, TypeOK, Serial, Late, RecountPC, Fits
  <1>2. row.column = q.column /\ Visible(row) /\ Exists(row) /\ row.deletedAt # "expired" /\ q.column \in Column
    BY <1>1 DEF Visible, Exists, RequestState
  <1>3. n.pc = "log" /\ n.kind = q.kind /\ n.task = t /\ n.project = q.project
    BY <1>1 DEF RequestState
  <1>4. requests'[r] = n /\ tasks'[t] = row /\ \A s \in Task \ {t} : tasks'[s] = tasks[s]
    BY <1>1 DEF InsertTask, Becomes
  <1> HIDE DEF n, row
  <1>5. Fits(r)'
    BY <1>1, <1>2, <1>3, <1>4 DEF Fits, Late, RecountPC
  <1>6. DeletedStaysDeleted'
    <2>1. told[t] = "nothing"
      BY <1>1 DEF Persistence, AnsweredIsReferenced, ReferencedExist, Exists
    <2> QED
      BY <1>1, <1>4, <2>1 DEF Serial, DeletedStaysDeleted, Live
  <1>7. NoTaskWithoutColumn'
    BY <1>1, <1>2, <1>4 DEF Serial, NoTaskWithoutColumn, Live
  <1>8. Pending'
    <2> SUFFICES ASSUME NEW p \in Project
                 PROVE  changedBy'[p] \in Settled \/ WillCount(r, p)'
      BY DEF Pending
    <2>1. changedBy[p] \in Settled
      BY <1>1 DEF Serial, Pending, WillCount, OneClient
    <2>2. CASE Board(p)' = Board(p)
      BY <1>1, <2>1, <2>2 DEF BoardsMayChange
    <2>3. CASE Board(p)' # Board(p)
      <3>1. changedBy'[p] = "create"
        BY <1>1, <2>3 DEF BoardsMayChange
      <3>2. ~Live(t)
        BY <1>1 DEF Live, Visible, Exists
      <3>3. p = q.project
        BY <1>1, <1>2, <1>4, <2>3, <3>2, ChangedBoard
      <3>4. q.column \in Cols(p)'
        BY <1>1, <1>2, <3>3 DEF Cols
      <3> QED
        BY <1>1, <1>3, <1>4, <3>1, <3>3, <3>4 DEF WillCount, Late, Recounts
    <2> QED
      BY <2>2, <2>3
  <1> QED
    BY <1>5, <1>6, <1>7, <1>8 DEF Serial, OneClient
\* Nothing is left to count but by a request that changed a board.
LEMMA NothingPending ==
  ASSUME OneClient, Serial, NEW r \in Request, ~Late(requests[r]), NEW p \in Project
  PROVE  changedBy[p] \in Settled
  BY DEF Serial, Pending, WillCount, OneClient

LEMMA SettledSerial ==
  ASSUME OneClient, NEW r \in Request, Fits(r)', \A p \in Project : changedBy'[p] \in Settled,
         DeletedStaysDeleted', NoTaskWithoutColumn'
  PROVE  Serial'
  BY DEF OneClient, Serial, Pending

LEMMA LogActivitySerial ==
  ASSUME OneClient, Typed, Serial, NEW r \in Request, LogActivity(r)
  PROVE  Serial'
  <1> DEFINE q == requests[r]
             n == [q EXCEPT !.pc = "columns"]
             recounts == Recounts(q.kind) /\ q.project # NoProject
  <1>1. /\ q \in RequestState /\ q.pc = "log" /\ Late(q) /\ Fits(r) /\ q.task \in Task
        /\ requests \in [Request -> RequestState] /\ told \in [Task -> {"nothing", "present", "trashed"}]
        /\ UNCHANGED <<tasks, columns, projects, changedBy, fresh>>
    BY DEF LogActivity, Typed, TypeOK, Addressed, Serial, Late, RecountPC
  <1>2. /\ Exists(tasks[q.task]) /\ q.kind # "restore"
        /\ q.kind = "softDelete" => ~Live(q.task)
    BY <1>1 DEF Fits
  <1>3. /\ IF recounts THEN Becomes(r, n) ELSE Ends(r)
        /\ IF recounts THEN UNCHANGED told ELSE Answers(q)
    BY <1>2 DEF LogActivity
  <1>4. n.pc = "columns" /\ n.kind = q.kind /\ n.task = q.task /\ n.project = q.project
    BY <1>1 DEF RequestState
  <1>5. recounts => requests'[r] = n
    BY <1>1, <1>3 DEF Becomes
  <1> HIDE DEF n
  <1>6. Fits(r)'
    <2>1. CASE recounts
      <3>1. requests'[r] = n
        BY <1>5, <2>1
      <3> QED
        BY <1>1, <1>2, <1>4, <3>1 DEF Fits, Late, RecountPC, Live
    <2>2. CASE ~recounts
      BY <1>3, <2>2, IdleFits
    <2> QED
      BY <2>1, <2>2
  <1>7. DeletedStaysDeleted'
    <2>1. ASSUME NEW t \in Task, told'[t] = "trashed" PROVE ~Live(t)
      <3>1. CASE told[t] = "trashed"
        BY <3>1 DEF Serial, DeletedStaysDeleted
      <3>2. CASE told[t] # "trashed"
        <4>1. q.kind = "softDelete" /\ t = q.task
          BY <1>1, <1>2, <1>3, <2>1, <3>2 DEF Answers
        <4> QED
          BY <1>2, <4>1
      <3> QED
        BY <3>1, <3>2
    <2> QED
      BY <1>1, <2>1 DEF DeletedStaysDeleted, Live
  <1>8. NoTaskWithoutColumn'
    BY <1>1 DEF Serial, NoTaskWithoutColumn, Live
  <1>9. Pending'
    <2> SUFFICES ASSUME NEW p \in Project, changedBy[p] \notin Settled
                 PROVE  WillCount(r, p)'
      BY <1>1 DEF Pending
    <2>1. WillCount(r, p)
      BY DEF Serial, Pending, OneClient
    <2>2. recounts
      BY <2>1, ConstantsAssumption DEF WillCount
    <2>3. requests'[r] = n /\ Cols(p)' = Cols(p)
      BY <1>1, <1>5, <2>2 DEF Cols
    <2> QED
      BY <1>1, <1>4, <2>1, <2>3 DEF WillCount, Late, RecountPC
  <1> QED
    BY <1>6, <1>7, <1>8, <1>9 DEF Serial, OneClient

LEMMA RemoveTaskSerial ==
  ASSUME OneClient, Typed, Serial, NEW r \in Request, RemoveTask(r)
  PROVE  Serial'
  <1> DEFINE q == requests[r]
  <1>1. /\ ~Late(q) /\ q.kind = "permanentDelete" /\ tasks \in [Task -> TaskRow]
        /\ changedBy \in [Project -> AllKinds \cup {"none", "movedAway", "overtaken"}]
        /\ Ends(r) /\ BoardsMayChange(r) /\ UNCHANGED <<columns, told>>
    BY DEF RemoveTask, Typed, TypeOK, Serial, Fits, Late, RecountPC
  <1>2. \A t \in Task : Live(t)' => Live(t) /\ tasks'[t] = tasks[t]
    <2>1. ~Exists([NoTaskRow EXCEPT !.row = "removed"])
      BY DEF NoTaskRow, Exists
    <2> QED
      BY <1>1, <2>1 DEF RemoveTask, Live, Visible
  <1>3. \A p \in Project : changedBy'[p] \in Settled
    BY <1>1, NothingPending DEF BoardsMayChange, Settled
  <1>4. DeletedStaysDeleted' /\ NoTaskWithoutColumn'
    BY <1>1, <1>2 DEF Serial, DeletedStaysDeleted, NoTaskWithoutColumn
  <1> QED
    BY <1>1, <1>3, <1>4, IdleFits, SettledSerial
LEMMA RecountSerial ==
  ASSUME OneClient, Typed, Serial, NEW r \in Request, RecountStep(r)
  PROVE  Serial'
  <1> DEFINE q == requests[r]
  <1>1. /\ q \in RequestState /\ Late(q) /\ Fits(r) /\ q.project \in Project /\ q.task \in Task
        /\ requests \in [Request -> RequestState] /\ told \in [Task -> {"nothing", "present", "trashed"}]
        /\ UNCHANGED <<tasks, columns>>
    BY DEF RecountStep, ReadColumns, CountTotal, CountCompleted, WriteCompletion,
           database, Typed, TypeOK, Addressed, Serial, Late, RecountPC
  <1>2. /\ q.kind # "restore" /\ (q.kind = "softDelete" => ~Live(q.task))
        /\ q.pc \in {"total", "done", "percentage"} => r \in fresh
    BY <1>1 DEF Fits
  <1>3. NoTaskWithoutColumn'
    BY <1>1 DEF Serial, NoTaskWithoutColumn, Live
  \* What is left to count is left to r, in its own project.
  <1>4. ASSUME NEW p \in Project, changedBy[p] \notin Settled PROVE WillCount(r, p)
    BY <1>4 DEF Serial, Pending, OneClient
  <1>5. ASSUME Answers(q) \/ UNCHANGED told PROVE DeletedStaysDeleted'
    <2>1. ASSUME NEW t \in Task, told'[t] = "trashed" PROVE ~Live(t)
      <3>1. CASE told[t] = "trashed"
        BY <3>1 DEF Serial, DeletedStaysDeleted
      <3>2. CASE told[t] # "trashed"
        <4>1. q.kind = "softDelete" /\ t = q.task
          BY <1>1, <1>2, <1>5, <2>1, <3>2 DEF Answers
        <4> QED
          BY <1>2, <4>1
      <3> QED
        BY <3>1, <3>2
    <2> QED
      BY <1>1, <2>1 DEF DeletedStaysDeleted, Live
  \* The recount goes on: the request remains late, of its kind and project.
  <1>6. ASSUME NEW n \in RequestState, Becomes(r, n), n.kind = q.kind, n.task = q.task,
               n.project = q.project, n.pc \in {"total", "done", "percentage"},
               r \in fresh', UNCHANGED <<changedBy, told>>
        PROVE  Serial'
    <2>1. requests'[r] = n
      BY <1>1, <1>6 DEF Becomes
    <2>2. Fits(r)'
      BY <1>1, <1>2, <1>6, <2>1 DEF Fits, Late, RecountPC, Live
    <2>3. \A p \in Project : changedBy[p] \notin Settled => WillCount(r, p)'
      BY <1>4, <1>6, <2>1 DEF WillCount, Late, RecountPC
    <2>4. Pending'
      BY <1>6, <2>3 DEF Pending
    <2>5. DeletedStaysDeleted'
      BY <1>5, <1>6
    <2> QED
      BY <1>3, <2>2, <2>4, <2>5 DEF Serial, OneClient
  <1>7. CASE ReadColumns(r)
    <2>1. CASE Cols(q.project) = {}
      <3>1. Ends(r) /\ Answers(q) /\ UNCHANGED changedBy
        BY <1>7, <2>1 DEF ReadColumns
      <3>2. \A p \in Project : changedBy'[p] \in Settled
        BY <1>4, <1>7, <2>1, <3>1 DEF WillCount, ReadColumns
      <3> QED
        BY <1>3, <1>5, <3>1, <3>2, IdleFits, SettledSerial
    <2>2. CASE Cols(q.project) # {}
      <3> DEFINE n(d) == [q EXCEPT !.counted = Cols(q.project), !.doneColumn = d, !.pc = "total"]
      <3>1. PICK d \in DoneChoices(Cols(q.project), DoneCols(q.project)) : Becomes(r, n(d))
        BY <1>7, <2>2 DEF ReadColumns
      <3>2. /\ n(d) \in RequestState /\ n(d).kind = q.kind /\ n(d).task = q.task
            /\ n(d).project = q.project /\ n(d).pc = "total"
        BY <1>1, DoneChoicesType DEF RequestState, PC
      <3>3. r \in fresh' /\ UNCHANGED <<changedBy, told>>
        BY <1>7, <2>2 DEF ReadColumns
      <3> HIDE DEF n
      <3> QED
        BY <1>6, <3>1, <3>2, <3>3
    <2> QED
      BY <2>1, <2>2
  <1>8. CASE CountTotal(r)
    <2> DEFINE n == [q EXCEPT !.total = Tally(q.counted), !.counted = {},
                              !.pc = IF q.doneColumn = NoColumn THEN "percentage" ELSE "done"]
    <2>1. /\ n \in RequestState /\ n.kind = q.kind /\ n.task = q.task
          /\ n.project = q.project /\ n.pc \in {"done", "percentage"}
      BY <1>1, TallyType DEF RequestState, PC
    <2>2. Becomes(r, n) /\ r \in fresh' /\ UNCHANGED <<changedBy, told>>
      BY <1>2, <1>8 DEF CountTotal, history
    <2> HIDE DEF n
    <2> QED
      BY <1>6, <2>1, <2>2
  <1>9. CASE CountCompleted(r)
    <2> DEFINE n == [q EXCEPT !.completed = Tally({q.doneColumn}),
                              !.doneColumn = NoColumn, !.pc = "percentage"]
    <2>1. /\ n \in RequestState /\ n.kind = q.kind /\ n.task = q.task
          /\ n.project = q.project /\ n.pc = "percentage"
      BY <1>1, TallyType DEF RequestState, PC
    <2>2. Becomes(r, n) /\ r \in fresh' /\ UNCHANGED <<changedBy, told>>
      BY <1>2, <1>9 DEF CountCompleted, history
    <2> HIDE DEF n
    <2> QED
      BY <1>6, <2>1, <2>2
  <1>10. CASE WriteCompletion(r)
    <2>1. /\ changedBy' = [changedBy EXCEPT ![q.project] = "none"]
          /\ Ends(r) /\ Answers(q)
      BY <1>2, <1>10 DEF WriteCompletion
    <2>2. \A p \in Project : changedBy'[p] \in Settled
      BY <1>1, <1>4, <2>1 DEF WillCount, Settled, Typed, TypeOK
    <2> QED
      BY <1>3, <1>5, <2>1, <2>2, IdleFits, SettledSerial
  <1> QED
    BY <1>7, <1>8, <1>9, <1>10 DEF RecountStep
\* A step of an edit that writes no table.
LEMMA EditReads ==
  ASSUME OneClient, Typed, Serial, NEW r \in Request, UNCHANGED <<database, history>>,
         ~Late(requests[r]), NEW n, Becomes(r, n),
         requests'[r] = n => Fits(r)'
  PROVE  Serial'
  BY ReadsSerial DEF Becomes, Typed, TypeOK

\* A step of an edit that writes columns and ends or goes on to the siblings.
LEMMA EditWrites ==
  ASSUME OneClient, Typed, Serial, NEW r \in Request, UNCHANGED <<tasks, told>>,
         ~Late(requests[r]), BoardsMayChange(r), NEW n, Becomes(r, n), n.pc \in {"idle", "siblings"},
         requests[r].kind \in Settled \/ UNCHANGED columns,
         \A t \in Task : Live(t) => Exists(columns'[tasks[t].column])
  PROVE  Serial'
  <1>1. requests'[r] = n
    BY DEF Becomes, Typed, TypeOK
  <1>2. Fits(r)'
    BY <1>1 DEF Fits, Late, RecountPC
  <1>3. \A p \in Project : changedBy'[p] \in Settled
    BY NothingPending, BoardUnchanged DEF BoardsMayChange, Typed, TypeOK, Settled
  <1>4. DeletedStaysDeleted' /\ NoTaskWithoutColumn'
    BY DEF Serial, DeletedStaysDeleted, NoTaskWithoutColumn, Live
  <1> QED
    BY <1>2, <1>3, <1>4, SettledSerial

LEMMA ColumnSerial ==
  ASSUME OneClient, Typed, Serial, NEW r \in Request, ColumnStep(r)
  PROVE  Serial'
  <1> DEFINE q == requests[r]
  <1>1. /\ q \in RequestState /\ ~Late(q) /\ Fits(r)
        /\ columns \in [Column -> ColumnRow] /\ q.column \in Column
        /\ UNCHANGED <<tasks, told>>
    BY DEF ColumnStep, CheckOwnerToCreate, InsertColumn, LoadColumn, FirstColumnPC, SelectColumn, WriteColumn,
           CountColumnTasks, RemoveColumn, FindSiblings, SelectSiblings, WriteSiblings,
           database, history, Typed, TypeOK, Serial, Late, RecountPC, RequestState
  <1>2. Idle.pc = "idle" /\ Idle.kind = "none"
    BY DEF Idle
  <1>3. \A t \in Task : Live(t) => Exists(columns[tasks[t].column]) /\ tasks[t].column \in Column
    BY DEF Serial, NoTaskWithoutColumn, Typed, TypeOK, TaskRow
  <1>4. ASSUME NEW c \in Column, NEW title \in Title, CheckOwnerToCreate(r, c, title) PROVE Serial'
    <2> DEFINE n == [Idle EXCEPT !.kind = "columnCreate", !.column = c, !.title = title,
                                 !.pc = "columnInsert"]
    <2>1. n.kind = "columnCreate" /\ n.pc = "columnInsert"
      BY DEF Idle
    <2>2. Becomes(r, n) /\ UNCHANGED <<database, history>>
      BY <1>4 DEF CheckOwnerToCreate
    <2> HIDE DEF n
    <2>3. requests'[r] = n => Fits(r)'
      BY <2>1 DEF Fits, Late, RecountPC
    <2> QED
      BY <1>1, <2>2, <2>3, EditReads
  <1>5. CASE InsertColumn(r)
    <2>1. /\ q.kind \in Settled /\ Becomes(r, Idle) /\ BoardsMayChange(r)
          /\ columns' = [columns EXCEPT ![q.column] = [row |-> "there", title |-> q.title]]
      BY <1>1, <1>5 DEF InsertColumn, Ends, Fits, Settled
    <2>2. \A t \in Task : Live(t) => Exists(columns'[tasks[t].column])
      BY <1>1, <1>3, <2>1 DEF Exists
    <2> QED
      BY <1>1, <1>2, <2>1, <2>2, EditWrites
  <1>6. ASSUME NEW kind \in AllKinds, NEW c \in Column, NEW title \in Title, LoadColumn(r, kind, c, title)
        PROVE  Serial'
    <2> DEFINE n == [Idle EXCEPT !.kind = kind, !.column = c, !.title = title,
                                 !.pc = FirstColumnPC[kind]]
    <2>1. /\ n.kind = kind /\ n.column = c /\ n.pc = FirstColumnPC[kind]
          /\ kind \in {"columnUpdate", "columnDelete", "columnReorder"}
      BY <1>6 DEF Idle, LoadColumn, FirstColumnPC
    <2>2. Becomes(r, n) /\ UNCHANGED <<database, history>> /\ Exists(columns[c])
      BY <1>6 DEF LoadColumn
    <2> HIDE DEF n
    <2>3. requests'[r] = n => Fits(r)'
      BY <2>1, <2>2 DEF Fits, Late, RecountPC, FirstColumnPC, database
    <2> QED
      BY <1>1, <2>2, <2>3, EditReads
  <1>7. CASE SelectColumn(r)
    <2> DEFINE plan == SavePlan(ColumnEntity(q), columns[q.column])
               n == [q EXCEPT !.plan = plan, !.pc = "columnWrite"]
    <2>1. q.kind = "columnUpdate" /\ Exists(columns[q.column])
      BY <1>1, <1>7 DEF SelectColumn, Fits
    <2>2. "row" \notin plan
      BY <2>1 DEF SavePlan, ColumnEntity, Exists
    <2>3. Becomes(r, n) /\ UNCHANGED <<database, history>>
      BY <1>7 DEF SelectColumn
    <2> HIDE DEF plan
    <2>4. n.pc = "columnWrite" /\ n.plan = plan /\ n.kind = q.kind /\ n.column = q.column
      BY <1>1 DEF RequestState
    <2> HIDE DEF n
    <2>5. requests'[r] = n => Fits(r)'
      BY <2>1, <2>2, <2>3, <2>4 DEF Fits, Late, RecountPC, database
    <2> QED
      BY <1>1, <2>3, <2>5, EditReads
  <1>8. CASE WriteColumn(r)
    <2>1. q.kind \in Settled /\ Exists(columns[q.column]) /\ "row" \notin q.plan
      BY <1>1, <1>8 DEF WriteColumn, Fits, Settled
    <2>2. Becomes(r, Idle) /\ BoardsMayChange(r)
      BY <1>8 DEF WriteColumn, Ends
    <2>3. SavedColumn(q.plan, ColumnEntity(q), columns[q.column]).row = columns[q.column].row
      BY <2>1 DEF SavedColumn, Written
    <2>4. \A t \in Task : Live(t) => Exists(columns'[tasks[t].column])
      BY <1>1, <1>3, <1>8, <2>1, <2>3 DEF WriteColumn, Exists
    <2> QED
      BY <1>1, <1>2, <2>1, <2>2, <2>4, EditWrites
  <1>9. CASE CountColumnTasks(r)
    <2>1. q.kind = "columnDelete" /\ UNCHANGED <<database, history>> /\ q.pc = "columnCount"
      BY <1>1, <1>9 DEF CountColumnTasks, Fits
    <2>2. CASE HoldsTasks(q.column)
      <3>1. requests'[r] = Idle => Fits(r)'
        BY <1>2 DEF Fits, Late, RecountPC
      <3>2. Becomes(r, Idle)
        BY <1>9, <2>2 DEF CountColumnTasks, Ends
      <3> QED
        BY <1>1, <2>1, <3>1, <3>2, EditReads
    <2>3. CASE ~HoldsTasks(q.column)
      <3> DEFINE n == [q EXCEPT !.pc = "columnRemove"]
      <3>1. LiveIn({q.column}) = {}
        <4>1. IsFiniteSet(LiveIn({q.column})) /\ Tally({q.column}) \in Nat
          BY TallyType, FS_Subset, ConstantsAssumption DEF LiveIn
        <4> QED
          BY <2>3, <4>1, FS_EmptySet DEF HoldsTasks, Tally
      <3>2. Becomes(r, n)
        BY <1>9, <2>3 DEF CountColumnTasks
      <3>3. n.pc = "columnRemove" /\ n.kind = q.kind /\ n.column = q.column
        BY <1>1 DEF RequestState
      <3> HIDE DEF n
      <3>4. requests'[r] = n => Fits(r)'
        BY <2>1, <3>1, <3>3 DEF Fits, Late, RecountPC, database, LiveIn, Live
      <3> QED
        BY <1>1, <2>1, <3>2, <3>4, EditReads
    <2> QED
      BY <2>2, <2>3
  <1>10. CASE RemoveColumn(r)
    <2> DEFINE n == [q EXCEPT !.pc = "siblings"]
    <2>1. q.kind \in Settled /\ LiveIn({q.column}) = {}
      BY <1>1, <1>10 DEF RemoveColumn, Fits, Settled
    <2>2. Becomes(r, n) /\ BoardsMayChange(r) /\ n.pc = "siblings"
      BY <1>1, <1>10 DEF RemoveColumn, RequestState
    <2>3. \A t \in Task : Live(t) => Exists(columns'[tasks[t].column])
      BY <1>1, <1>3, <1>10, <2>1 DEF RemoveColumn, LiveIn
    <2> HIDE DEF n
    <2> QED
      BY <1>1, <2>1, <2>2, <2>3, EditWrites
  <1>11. CASE FindSiblings(r)
    <2> DEFINE C == Cols(ProjectOf[q.column])
               s == [c \in Column |-> IF c \in C THEN columns[c] ELSE NoSiblings[c]]
               n == [q EXCEPT !.pc = "siblingsSelect", !.siblings = s]
    <2>1. \A c \in Column : Exists(s[c]) => s[c] = columns[c]
      BY DEF NoSiblings, Exists
    <2>2. Becomes(r, n) /\ UNCHANGED <<database, history>>
      BY <1>11 DEF FindSiblings
    <2> HIDE DEF s
    <2>3. n.pc = "siblingsSelect" /\ n.siblings = s
      BY <1>1 DEF RequestState
    <2> HIDE DEF n
    <2>4. requests'[r] = n => Fits(r)'
      BY <2>1, <2>2, <2>3 DEF Fits, Late, RecountPC, database
    <2> QED
      BY <1>1, <2>2, <2>4, EditReads
  <1>12. CASE SelectSiblings(r)
    <2> DEFINE plan(c) == IF Exists(q.siblings[c]) THEN SavePlan(q.siblings[c], columns[c]) ELSE {}
               plans == [c \in Column |-> plan(c)]
               n == [q EXCEPT !.pc = "siblingsWrite", !.siblingPlans = plans]
    <2>1. \A c \in Column : plans[c] = {}
      BY <1>1, <1>12 DEF SelectSiblings, Fits, SavePlan
    <2>2. (Becomes(r, n) \/ Becomes(r, Idle)) /\ UNCHANGED <<database, history>>
      BY <1>12 DEF SelectSiblings, Ends
    <2> HIDE DEF plans
    <2>3. n.pc = "siblingsWrite" /\ n.siblingPlans = plans
      BY <1>1 DEF RequestState
    <2> HIDE DEF n
    <2>4. requests'[r] \in {n, Idle} => Fits(r)'
      BY <1>2, <2>1, <2>3 DEF Fits, Late, RecountPC
    <2> QED
      BY <1>1, <2>2, <2>4, EditReads
  <1>13. CASE WriteSiblings(r)
    <2>1. \A c \in Column : q.siblingPlans[c] = {}
      BY <1>1, <1>13 DEF WriteSiblings, Fits
    <2>2. \A c \in Column : SavedColumn({}, q.siblings[c], columns[c]) = columns[c]
      BY <1>1 DEF SavedColumn, Written, ColumnRow
    <2>3. UNCHANGED columns
      <3>1. \A c \in Column : ~SaveFails(q.siblingPlans[c], columns[c])
        BY <2>1 DEF SaveFails, IsInsert
      <3>2. columns' = [c \in Column |-> columns[c]]
        BY <1>13, <2>1, <2>2, <3>1 DEF WriteSiblings
      <3> QED
        BY <1>1, <3>2
    <2>4. Becomes(r, Idle) /\ BoardsMayChange(r)
      BY <1>13 DEF WriteSiblings, Ends
    <2> QED
      BY <1>1, <1>2, <1>3, <2>3, <2>4, EditWrites
  <1> QED
    BY <1>4, <1>5, <1>6, <1>7, <1>8, <1>9, <1>10, <1>11, <1>12, <1>13 DEF ColumnStep
LEMMA ProjectSerial ==
  ASSUME OneClient, Typed, Serial, NEW r \in Request, ProjectStep(r) \/ Abort(r)
  PROVE  Serial'
  <1>1. UNCHANGED <<tasks, columns, told>> /\ requests \in [Request -> RequestState]
    BY DEF ProjectStep, LoadProject, SelectProject, WriteProject, Abort, database, history,
           Typed, TypeOK
  <1>2. DeletedStaysDeleted' /\ NoTaskWithoutColumn'
    BY <1>1 DEF Serial, DeletedStaysDeleted, NoTaskWithoutColumn, Live
  <1>3. CASE Abort(r)
    <2>1. \A p \in Project : changedBy'[p] \in Settled
      BY <1>3 DEF Abort, Settled
    <2> QED
      BY <1>2, <1>3, <2>1, IdleFits, SettledSerial DEF Abort
  <1>4. ASSUME NEW n, Becomes(r, n), n.pc \in {"idle", "projectSelect", "projectWrite"}
        PROVE  Fits(r)'
    <2>1. requests'[r] = n
      BY <1>1, <1>4 DEF Becomes
    <2> QED
      BY <1>4, <2>1 DEF Fits, Late, RecountPC
  <1>5. CASE ProjectStep(r)
    <2>1. ~Late(requests[r])
      BY <1>5 DEF ProjectStep, LoadProject, SelectProject, WriteProject, Late, RecountPC
    <2>2. \A p \in Project : changedBy[p] \in Settled
      BY <2>1, NothingPending
    <2>3. ASSUME NEW kind \in AllKinds, NEW p \in Project, LoadProject(r, kind, p) PROVE Serial'
      <3>1. PICK e : Becomes(r, [Idle EXCEPT !.kind = kind, !.project = p, !.pc = "projectSelect",
                                             !.projectEntity = e])
        BY <2>3 DEF LoadProject
      <3> DEFINE n == [Idle EXCEPT !.kind = kind, !.project = p, !.pc = "projectSelect",
                                   !.projectEntity = e]
      <3>2. n.pc = "projectSelect" /\ Becomes(r, n) /\ UNCHANGED changedBy
        BY <2>3, <3>1 DEF Idle, LoadProject, history
      <3> HIDE DEF n
      <3> QED
        BY <1>2, <1>4, <2>2, <3>2, SettledSerial
    <2>4. CASE SelectProject(r)
      <3> DEFINE q == requests[r]
                 n == [q EXCEPT !.plan = SavePlan(q.projectEntity, projects[q.project]),
                                !.pc = "projectWrite"]
      <3>1. n.pc = "projectWrite"
        BY <1>1 DEF RequestState
      <3>2. Becomes(r, n) /\ UNCHANGED changedBy
        BY <2>4 DEF SelectProject, history
      <3> HIDE DEF n
      <3> QED
        BY <1>2, <1>4, <2>2, <3>1, <3>2, SettledSerial
    <2>5. CASE WriteProject(r)
      <3>1. \A p \in Project : changedBy'[p] \in Settled
        BY <2>2, <2>5 DEF WriteProject, Settled, Typed, TypeOK
      <3> QED
        BY <1>2, <2>5, <3>1, IdleFits, SettledSerial DEF WriteProject
    <2> QED
      BY <1>5, <2>3, <2>4, <2>5 DEF ProjectStep
  <1> QED
    BY <1>3, <1>5

\* The purge and the passage of time change nothing that is on a board or that
\* the request in flight works on.
LEMMA TrashSerial ==
  ASSUME Typed, Serial, UNCHANGED <<columns, requests, told, changedBy, fresh>>,
         \A t \in Task : Live(t)' = Live(t) /\ (Live(t) => tasks'[t] = tasks[t]),
         \A r \in Request : requests[r].pc = "log" => tasks'[requests[r].task] = tasks[requests[r].task]
  PROVE  Serial'
  <1>1. \A C : LiveIn(C)' = LiveIn(C)
    BY DEF LiveIn
  <1>2. ASSUME NEW r \in Request PROVE Fits(r)'
    <2>1. PICK q : q = requests[r] /\ requests'[r] = q
      OBVIOUS
    <2>2. /\ q.pc \in {"column", "select", "write", "log"} \cup RecountPC => q.task \in Task
      BY <2>1 DEF Typed, Addressed, RecountPC
    <2>3. q.task \in Task => Live(q.task)' = Live(q.task) /\ (Live(q.task) => tasks'[q.task] = tasks[q.task])
      OBVIOUS
    <2>4. LiveIn({q.column})' = LiveIn({q.column})
      BY <1>1
    <2>5. Fits(r)
      BY DEF Serial
    <2> QED
      BY <2>1, <2>2, <2>3, <2>4, <2>5 DEF Fits, Late
  <1>3. Pending'
    BY DEF Serial, Pending, WillCount, Late, Cols
  <1>4. DeletedStaysDeleted' /\ NoTaskWithoutColumn'
    BY DEF Serial, DeletedStaysDeleted, NoTaskWithoutColumn
  <1> QED
    BY <1>2, <1>3, <1>4 DEF Serial

LEMMA NextSerial == OneClient /\ Typed /\ Persistence /\ Serial /\ [Next]_vars => Serial'
  <1> SUFFICES ASSUME OneClient, Typed, Persistence, Serial, [Next]_vars PROVE Serial'
    OBVIOUS
  <1>1. ASSUME NEW r \in Request, TaskStep(r) PROVE Serial'
    BY <1>1, LoadsSerial, WriteTaskSerial, InsertTaskSerial, LogActivitySerial, RemoveTaskSerial
       DEF TaskStep
  <1>2. ASSUME NEW r \in Request, requests[r].pc = "log"
        PROVE  /\ requests[r].task \in Task /\ Exists(tasks[requests[r].task])
               /\ tasks[requests[r].task].deletedAt # "expired"
    BY <1>2 DEF Serial, Fits, Typed, Addressed
  <1>3. CASE CleanupOldTrash
    <2>1. \A t \in Task : t \notin Expired => tasks'[t] = tasks[t]
      BY <1>3 DEF CleanupOldTrash
    <2>2. \A t \in Expired : ~Live(t) /\ ~Live(t)'
      BY <1>3 DEF CleanupOldTrash, Expired, Live, Visible, Exists, NoTaskRow
    <2>3. \A t \in Task : Live(t)' = Live(t) /\ (Live(t) => tasks'[t] = tasks[t])
      BY <2>1, <2>2 DEF Live, Visible, Exists
    <2>4. \A r \in Request : requests[r].pc = "log" => requests[r].task \in Task \ Expired
      BY <1>2 DEF Expired
    <2> QED
      BY <1>3, <2>1, <2>3, <2>4, TrashSerial DEF CleanupOldTrash, history
  <1>4. ASSUME NEW t \in Task, Expire(t) PROVE Serial'
    <2>1. \A s \in Task : Live(s)' = Live(s) /\ (Live(s) => tasks'[s] = tasks[s])
      BY <1>4 DEF Expire, Live, Visible, Exists, Typed, TypeOK, TaskRow
    <2>2. \A r \in Request : requests[r].pc = "log" => tasks'[requests[r].task] = tasks[requests[r].task]
      BY <1>2, <1>4 DEF Expire, Typed, TypeOK
    <2> QED
      BY <1>4, <2>1, <2>2, TrashSerial DEF Expire, history
  <1>5. CASE UNCHANGED vars
    BY <1>5, TrashSerial DEF vars, Live
  <1> QED
    BY <1>1, <1>3, <1>4, <1>5, RecountSerial, ColumnSerial, ProjectSerial DEF Next

LEMMA InitSerial == Init => Serial
  BY DEF Init, Idle, Serial, Fits, Late, RecountPC, Pending, Settled,
         DeletedStaysDeleted, NoTaskWithoutColumn, Live, Visible, Exists, NoTaskRow

LEMMA AlwaysSerial == ASSUME OneClient PROVE Spec => [](Typed /\ Serial)
  <1>1. Init => Persistence
    BY DEF Init, Idle, Persistence, ReferencedExist, AnsweredIsReferenced, RecountedIsReferenced
  <1>2. Typed /\ Persistence /\ Serial /\ [Next]_vars => Serial'
    BY NextSerial
  <1> QED
    BY InitTyped, NextTyped, NextPersists, InitSerial, <1>1, <1>2, PTL DEF Spec

\* What one client is still to count is counted before its answer: after it, a
\* completion leaves out a move away, an edit of columns and a request that died.
THEOREM RecountsAlwaysSettle == ASSUME OneClient PROVE Spec => []RecountsSettle
  <1>1. Serial => RecountsSettle
    BY DEF Serial, Pending, WillCount, Late, RecountPC, Settled, Quiescent, RecountsSettle
  <1> QED
    BY AlwaysSerial, <1>1, PTL

\* A client that works alone does not see a task on the board again after the
\* answer that deleted it.
THEOREM DeletedIsForGood == ASSUME OneClient PROVE Spec => []DeletedStaysDeleted
  <1>1. Serial => DeletedStaysDeleted
    BY DEF Serial
  <1> QED
    BY AlwaysSerial, <1>1, PTL

\* columns.service delete: the count before the removal keeps every task of a
\* client that works alone in a column that exists.
THEOREM TasksKeepTheirColumn == ASSUME OneClient PROVE Spec => []NoTaskWithoutColumn
  <1>1. Serial => NoTaskWithoutColumn
    BY DEF Serial
  <1> QED
    BY AlwaysSerial, <1>1, PTL

\* save writes what its handler edited and nothing else when nobody else saved
\* since it was loaded.
THEOREM EditsStayOwn == ASSUME OneClient PROVE Spec => EditsItsOwnColumns
  <1> DEFINE Own == \A t \in Task : ChangedByItsRequest(t)
  <1>1. ASSUME Typed, Serial, NEW r \in Request, WriteTask(r) PROVE Own
    <2> SUFFICES ASSUME NEW t \in Task PROVE ChangedByItsRequest(t)
      OBVIOUS
    <2> DEFINE q == requests[r]
    <2>1. /\ q.task \in Task /\ q.entity \in TaskRow /\ Live(q.task)
          /\ q.entity.deletedAt = IF q.kind = "softDelete" THEN "recent" ELSE "null"
          /\ q.entity.row = "there"
          /\ q.kind # "move" => q.entity.column = tasks[q.task].column
          /\ q.kind \notin {"assign", "unassign"} => q.entity.assignee = tasks[q.task].assignee
          /\ tasks' = [tasks EXCEPT ![q.task] = q.entity] /\ tasks \in [Task -> TaskRow]
      BY <1>1, WriteTaskResult DEF Typed, TypeOK
    <2>2. CASE t # q.task
      BY <2>1, <2>2 DEF ChangedByItsRequest, Live
    <2>3. CASE t = q.task
      <3>1. tasks'[t] = q.entity /\ Live(t)
        BY <2>1, <2>3
      <3>2. Live(t)' <=> q.kind # "softDelete"
        BY <2>1, <3>1 DEF Live, Visible, Exists
      <3> QED
        BY <2>1, <2>3, <3>1, <3>2 DEF ChangedByItsRequest
    <2> QED
      BY <2>2, <2>3
  <1>2. ASSUME Typed, NEW r \in Request, NEW t \in Task, NEW u \in User \cup {Nobody},
               InsertTask(r, t, u)
        PROVE  Own
    BY <1>2 DEF InsertTask, ChangedByItsRequest, Live, Exists, Typed, TypeOK
  <1>3. ASSUME Typed, NEW r \in Request, RemoveTask(r) PROVE Own
    <2>1. ~Exists([NoTaskRow EXCEPT !.row = "removed"])
      BY DEF NoTaskRow, Exists
    <2> QED
      BY <1>3, <2>1 DEF RemoveTask, ChangedByItsRequest, Live, Typed, TypeOK
  <1>4. ASSUME CleanupOldTrash PROVE Own
    <2>1. ~Exists([NoTaskRow EXCEPT !.row = "removed"])
      BY DEF NoTaskRow, Exists
    <2> QED
      BY <1>4, <2>1 DEF CleanupOldTrash, ChangedByItsRequest, Live
  <1>5. ASSUME Typed, NEW t \in Task, Expire(t) PROVE Own
    BY <1>5 DEF Expire, ChangedByItsRequest, Live, Visible, Typed, TypeOK, TaskRow
  <1>6. ASSUME UNCHANGED tasks PROVE Own
    BY <1>6 DEF ChangedByItsRequest, Live
  <1>7. Typed /\ Serial /\ [Next]_vars => [Own]_vars
    <2> SUFFICES ASSUME Typed, Serial, [Next]_vars PROVE Own
      OBVIOUS
    <2>1. ASSUME NEW r \in Request, TaskStep(r) PROVE Own
      BY <1>1, <1>2, <1>3, <1>6, <2>1
         DEF TaskStep, LoadTask, AnswerNotFound, FindColumn, FindTarget, Reject, SelectTask,
             FindColumnToCreate, LogActivity, database
    <2>2. ASSUME NEW r \in Request,
                 RecountStep(r) \/ ColumnStep(r) \/ ProjectStep(r) \/ Abort(r)
          PROVE  UNCHANGED tasks
      BY <2>2 DEF RecountStep, ReadColumns, CountTotal, CountCompleted, WriteCompletion,
                  ColumnStep, CheckOwnerToCreate, InsertColumn, LoadColumn, SelectColumn,
                  WriteColumn, CountColumnTasks, RemoveColumn, FindSiblings, SelectSiblings,
                  WriteSiblings, ProjectStep, LoadProject, SelectProject, WriteProject, Abort, database
    <2> HIDE DEF Own
    <2> QED
      BY <1>4, <1>5, <1>6, <2>1, <2>2 DEF Next, vars
  <1>8. EditsItsOwnColumns <=> [][Own]_vars
    BY DEF EditsItsOwnColumns
  <1> HIDE DEF Own
  <1> QED
    BY AlwaysSerial, <1>7, <1>8, PTL DEF Spec
==============================================================================
