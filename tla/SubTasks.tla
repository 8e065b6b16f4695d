------------------------------ MODULE SubTasks ------------------------------
(***************************************************************************)
(* The checklist of a task and tasks.progress_percentage: create, update,    *)
(* delete, toggle and reorder of sub-tasks.service.ts with                   *)
(* updateTaskProgress, beside the whole-row saves of tasks.service.ts that   *)
(* write the percentage back.                                               *)
(*                                                                          *)
(* One task; checklists share nothing.  Positions are in OrderedRows, titles *)
(* are left out, requests are records as in TaskBoard.                       *)
(*                                                                          *)
(* A definition named X_fault, before X, is a plausible error in the code X *)
(* models; no definition uses it.                                           *)
(***************************************************************************)
EXTENDS Integers, FiniteSets, TypeOrm

CONSTANTS
    SubTask,    \* ids of sub-tasks, each used once
    Request,    \* slots for requests in flight
    CanAbort,   \* may a request die between two statements
    NoSubTask

VARIABLES
    subTasks,   \* the table sub_tasks
    progress,   \* tasks.progress_percentage
    requests,   \* what each request in flight is about to do and has read
    fresh,      \* history: computed percentages no change has overtaken
    blame       \* history: what last put a percentage besides a fresh one

vars == <<subTasks, progress, requests, fresh, blame>>

------------------------------------------------------------------------------
(* Rows and requests in flight *)

SubTaskRow == [row: RowState, completed: BOOLEAN]

NoSubTaskRow == [row |-> "none", completed |-> FALSE]

\* Math.round halves upwards; no sub-task is 0.
Percent(done, all) == IF all = 0 THEN 0 ELSE (200 * done + all) \div (2 * all)

Checklist == {s \in SubTask : Exists(subTasks[s])}
CurrentPercent ==
    Percent(Cardinality({s \in Checklist : subTasks[s].completed}), Cardinality(Checklist))

Kind == {"create", "update", "toggle", "delete", "reorder", "taskSave"}
PC == {"idle", "insert", "select", "write", "remove", "find", "store",
       "siblings", "siblingsSelect", "siblingsWrite", "taskSelect", "taskWrite"}
Plan == SUBSET {"row", "completed"}

RequestState ==
    [kind: Kind \cup {"none"}, pc: PC, subTask: SubTask \cup {NoSubTask}, entity: SubTaskRow,
     plan: Plan, percent: 0..100, writesPercent: BOOLEAN,
     siblings: [SubTask -> SubTaskRow], siblingPlans: [SubTask -> Plan]]

Idle == [kind |-> "none", pc |-> "idle", subTask |-> NoSubTask, entity |-> NoSubTaskRow,
         plan |-> {}, percent |-> 0, writesPercent |-> FALSE,
         siblings |-> [s \in SubTask |-> NoSubTaskRow], siblingPlans |-> [s \in SubTask |-> {}]]

TypeOK ==
    /\ subTasks \in [SubTask -> SubTaskRow]
    /\ progress \in 0..100
    /\ requests \in [Request -> RequestState]
    /\ fresh \subseteq Request
    /\ blame \in {"none", "overtaken", "died", "reordered", "saved"}

Init ==
    /\ subTasks = [s \in SubTask |-> NoSubTaskRow]
    /\ progress = 0
    /\ requests = [r \in Request |-> Idle]
    /\ fresh = {} /\ blame = "none"

Becomes(r, q) == requests' = [requests EXCEPT ![r] = q]
Ends(r) == Becomes(r, Idle)

\* Percentages computed from rows that this step changes are stale.
Overtakes == fresh' = IF CurrentPercent' = CurrentPercent THEN fresh ELSE {}

Quietly == UNCHANGED <<subTasks, progress, fresh, blame>>

\* create, update, toggle and delete recompute the progress next.
Recounts_notOnDelete(kind) == kind \in {"create", "update", "toggle"}
Recounts(kind) == kind \in {"create", "update", "toggle", "delete"}

Proceeds(r) ==
    LET q == requests[r]
    IN IF Recounts(q.kind) THEN Becomes(r, [Idle EXCEPT !.kind = q.kind, !.pc = "find"])
       ELSE Ends(r)

------------------------------------------------------------------------------
(* create, update, toggle, delete *)

BeginCreate(r) ==
    /\ requests[r].pc = "idle"
    /\ Becomes(r, [Idle EXCEPT !.kind = "create", !.pc = "insert"])
    /\ Quietly

InsertSubTask(r, s) ==
    /\ requests[r].pc = "insert" /\ subTasks[s].row = "none"
    /\ subTasks' = [subTasks EXCEPT ![s] = [row |-> "there", completed |-> FALSE]]
    /\ Proceeds(r) /\ Overtakes
    /\ UNCHANGED <<progress, blame>>

\* update sets what the client sends; toggle negates what was loaded.
LoadToSave(r, kind, s, completed) ==
    /\ requests[r].pc = "idle" /\ Exists(subTasks[s])
    /\ \/ kind = "update"
       \/ kind = "toggle" /\ completed = ~subTasks[s].completed
    /\ Becomes(r, [Idle EXCEPT !.kind = kind, !.pc = "select", !.subTask = s,
                               !.entity = [row |-> "there", completed |-> completed]])
    /\ Quietly

SelectSubTask(r) ==
    LET q == requests[r]
    IN /\ q.pc = "select"
       /\ Becomes(r, [q EXCEPT !.pc = "write", !.plan = SavePlan(q.entity, subTasks[q.subTask])])
       /\ Quietly

SavedSubTask(plan, entity, r) ==
    [row |-> Written("row", plan, entity, r), completed |-> Written("completed", plan, entity, r)]

\* The statement of save; an INSERT that fails ends the request.
WriteSubTask(r) ==
    LET q == requests[r]
        old == subTasks[q.subTask]
    IN /\ q.pc = "write"
       /\ subTasks' = IF SaveHits(q.plan, old) /\ ~SaveFails(q.plan, old)
                      THEN [subTasks EXCEPT ![q.subTask] = SavedSubTask(q.plan, q.entity, old)]
                      ELSE subTasks
       /\ IF SaveFails(q.plan, old) THEN Ends(r) ELSE Proceeds(r)
       /\ Overtakes
       /\ UNCHANGED <<progress, blame>>

LoadToDelete(r, s) ==
    /\ requests[r].pc = "idle" /\ Exists(subTasks[s])
    /\ Becomes(r, [Idle EXCEPT !.kind = "delete", !.pc = "remove", !.subTask = s])
    /\ Quietly

RemoveSubTask(r) ==
    LET s == requests[r].subTask
    IN /\ requests[r].pc = "remove"
       /\ subTasks' = IF Exists(subTasks[s])
                      THEN [subTasks EXCEPT ![s] = [NoSubTaskRow EXCEPT !.row = "removed"]]
                      ELSE subTasks
       /\ Proceeds(r) /\ Overtakes
       /\ UNCHANGED <<progress, blame>>

------------------------------------------------------------------------------
(* updateTaskProgress *)

FindSubTasks(r) ==
    LET q == requests[r]
    IN /\ q.pc = "find"
       /\ Becomes(r, [q EXCEPT !.pc = "store", !.percent = CurrentPercent])
       /\ fresh' = fresh \cup {r}
       /\ UNCHANGED <<subTasks, progress, blame>>

StoreProgress(r) ==
    LET q == requests[r]
    IN /\ q.pc = "store"
       /\ progress' = q.percent
       /\ blame' = IF r \in fresh THEN "none" ELSE "overtaken"
       /\ fresh' = fresh \ {r}
       /\ Ends(r)
       /\ UNCHANGED subTasks

------------------------------------------------------------------------------
(* reorder: all rows of the checklist are loaded, get their positions and are  *)
(* saved whole; no percentage is computed.                                    *)

LoadToReorder(r, s) ==
    /\ requests[r].pc = "idle" /\ Exists(subTasks[s])
    /\ Becomes(r, [Idle EXCEPT !.kind = "reorder", !.pc = "siblings"])
    /\ Quietly

FindSiblings(r) ==
    LET q == requests[r]
    IN /\ q.pc = "siblings"
       /\ \/ Becomes(r, [q EXCEPT !.pc = "siblingsSelect", !.siblings =
                           [s \in SubTask |-> IF s \in Checklist THEN subTasks[s]
                                              ELSE NoSubTaskRow]])
          \/ Ends(r)   \* it is where it should be
       /\ Quietly

SelectSiblings(r) ==
    LET q == requests[r]
        plan(s) == IF Exists(q.siblings[s]) THEN SavePlan(q.siblings[s], subTasks[s]) ELSE {}
    IN /\ q.pc = "siblingsSelect"
       /\ Becomes(r, [q EXCEPT !.pc = "siblingsWrite",
                               !.siblingPlans = [s \in SubTask |-> plan(s)]])
       /\ Quietly

\* One transaction.
WriteSiblings(r) ==
    LET q == requests[r]
        plan == q.siblingPlans
        fails == \E s \in SubTask : SaveFails(plan[s], subTasks[s])
        saved(s) == IF SaveHits(plan[s], subTasks[s])
                    THEN SavedSubTask(plan[s], q.siblings[s], subTasks[s]) ELSE subTasks[s]
    IN /\ q.pc = "siblingsWrite"
       /\ subTasks' = IF fails THEN subTasks ELSE [s \in SubTask |-> saved(s)]
       /\ blame' = IF CurrentPercent' = CurrentPercent THEN blame ELSE "reordered"
       /\ Ends(r) /\ Overtakes
       /\ UNCHANGED progress

------------------------------------------------------------------------------
(* update, move, assign and unassign of a task, which save all of its row *)

LoadTask(r) ==
    /\ requests[r].pc = "idle"
    /\ Becomes(r, [Idle EXCEPT !.kind = "taskSave", !.pc = "taskSelect", !.percent = progress])
    /\ Quietly

SelectTask(r) ==
    LET q == requests[r]
    IN /\ q.pc = "taskSelect"
       /\ Becomes(r, [q EXCEPT !.pc = "taskWrite", !.writesPercent = (q.percent # progress)])
       /\ Quietly

WriteTask(r) ==
    LET q == requests[r]
    IN /\ q.pc = "taskWrite"
       /\ progress' = IF q.writesPercent THEN q.percent ELSE progress
       /\ blame' = IF progress' = progress THEN blame ELSE "saved"
       /\ Ends(r)
       /\ UNCHANGED <<subTasks, fresh>>

------------------------------------------------------------------------------

\* The process dies, or a statement fails, and the rest of the request with it.
Abort(r) ==
    /\ CanAbort /\ requests[r].pc # "idle"
    /\ Ends(r)
    /\ blame' = IF requests[r].pc \in {"find", "store"} THEN "died" ELSE blame
    /\ fresh' = fresh \ {r}
    /\ UNCHANGED <<subTasks, progress>>

Step(r) ==
    \/ BeginCreate(r)
    \/ \E s \in SubTask : InsertSubTask(r, s) \/ LoadToDelete(r, s) \/ LoadToReorder(r, s)
    \/ \E s \in SubTask, kind \in {"update", "toggle"}, completed \in BOOLEAN :
          LoadToSave(r, kind, s, completed)
    \/ SelectSubTask(r)
    \/ WriteSubTask(r)
    \/ RemoveSubTask(r)
    \/ FindSubTasks(r)
    \/ StoreProgress(r)
    \/ FindSiblings(r)
    \/ SelectSiblings(r)
    \/ WriteSiblings(r)
    \/ LoadTask(r)
    \/ SelectTask(r)
    \/ WriteTask(r)
    \/ Abort(r)

Next == \E r \in Request : Step(r)

Spec == Init /\ [][Next]_vars

------------------------------------------------------------------------------
(* Properties *)

\* updateTaskProgress: the stored percentage is that of the checklist, or a
\* request is still to compute or to store the right one, or one of four things
\* is to blame: a percentage stored after a change overtook it, a request that
\* died before it stored one, a reorder or a task save of rows loaded earlier.
ProgressIsExact ==
    \/ progress = CurrentPercent
    \/ fresh # {} \/ \E r \in Request : requests[r].pc = "find"
    \/ blame # "none"
=============================================================================
