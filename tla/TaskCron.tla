------------------------------ MODULE TaskCron ------------------------------
(***************************************************************************)
(* Due dates: the overdue flag and the deadline reminders of                *)
(* task-cron.service.ts, against the saves of tasks.service.ts.             *)
(*                                                                          *)
(* due_date is a column of type date, so that PostgreSQL compares it with a *)
(* parameter by days: the jobs call a task overdue when its day is over.    *)
(* tasks.service.ts compares midnight of that day with the clock in         *)
(* JavaScript, and calls it overdue as soon as the day begins.              *)
(*                                                                          *)
(* Time goes in runs of the reminder job, RunsPerDay to a day.  Detection   *)
(* runs at each of these and may run in between (it is hourly).  No job     *)
(* takes until the next run.  Nothing makes up for runs while the process   *)
(* is down.                                                                 *)
(*                                                                          *)
(* A definition named X_fault, before X, is a plausible error in the code X *)
(* models; no definition uses it.                                           *)
(***************************************************************************)
EXTENDS TypeOrm, Integers

CONSTANTS
    Task, User, Request,
    RunsPerDay,      \* reminder runs in a day: four, and two at least (DeadlinesAnnounced)
    LastDay,         \* bound: days are 0 .. LastDay
    Nobody, NoDay

ASSUME ConstantsAssumption ==
    /\ RunsPerDay \in Nat \ {0, 1} /\ LastDay \in Nat
    /\ Nobody \notin User /\ NoDay \notin 0 .. LastDay /\ Task # {}

VARIABLES
    now,         \* reminder runs since the beginning
    up,          \* is the process running
    tasks, requests,
    reminders,   \* the reminder job: its pc and the tasks still to be reminded of
    detection,   \* the overdue job: its pc and the day it took from the clock
    \* histories, which no action reads
    mailed,      \* reminders sent of each task for the day it is due now
    late,        \* tasks changed, or runs lost or mails failed, when they were to be reminded of
    disturbed    \* tasks whose flag no full detection has settled since it was written

jobs == <<reminders, detection>>
histories == <<mailed, late, disturbed>>
vars == <<now, up, tasks, requests, jobs, histories>>

------------------------------------------------------------------------------

Day == 0 .. LastDay
Today == now \div RunsPerDay

TaskRow == [row: RowState, assignee: User \cup {Nobody}, due: Day \cup {NoDay},
            overdue: BOOLEAN, deletedAt: {"null", "recent"}]

NoTaskRow == [row |-> "none", assignee |-> Nobody, due |-> NoDay,
              overdue |-> FALSE, deletedAt |-> "null"]

PC == {"idle", "insert", "select", "write"}

RequestState == [pc: PC, task: Task, entity: TaskRow, plan: SUBSET DOMAIN NoTaskRow]

Idle == [pc |-> "idle", task |-> CHOOSE t \in Task : TRUE, entity |-> NoTaskRow, plan |-> {}]

\* What a reminder run found: a task and its due day.
Listed == Task \X Day

TypeOK ==
    /\ now \in 0 .. (LastDay + 1) * RunsPerDay - 1 /\ up \in BOOLEAN
    /\ tasks \in [Task -> TaskRow]
    /\ requests \in [Request -> RequestState]
    /\ reminders \in [pc: {"idle", "due", "mail", "note"}, todo: SUBSET Listed]
    /\ detection \in [pc: {"idle", "mark", "unmark"}, day: Day, due: BOOLEAN]
    /\ mailed \in [Task -> Nat] /\ late \subseteq Task /\ disturbed \subseteq Task

Init ==
    /\ now = 0 /\ up = TRUE
    /\ tasks = [t \in Task |-> NoTaskRow]
    /\ requests = [r \in Request |-> Idle]
    /\ reminders = [pc |-> "idle", todo |-> {}]
    /\ detection = [pc |-> "idle", day |-> 0, due |-> FALSE]
    /\ mailed = [t \in Task |-> 0] /\ late = {} /\ disturbed = {}

\* A task whose day is over, for the jobs ...
PastDue(row) == row.due # NoDay /\ row.due < Today

\* ... and for create and update of tasks.service.ts.
Begun(due) == due # NoDay /\ due <= Today

\* The day before the due day has begun: reminder runs look for the task.
InWindow(row) == row.due # NoDay /\ row.due <= Today + 1

Becomes(r, q) == requests' = [requests EXCEPT ![r] = q]
Ends(r) == Becomes(r, Idle)

------------------------------------------------------------------------------
(* tasks.service.ts: what it does to due days, assignees and the flag *)

\* create: flag and due day together.
BeginCreate(r, t, a, d) ==
    /\ up /\ requests[r].pc = "idle" /\ tasks[t].row = "none"
    /\ \A q \in Request : requests[q].pc = "insert" => requests[q].task # t
    /\ Becomes(r, [Idle EXCEPT !.pc = "insert", !.task = t,
                               !.entity = [NoTaskRow EXCEPT !.row = "there", !.assignee = a,
                                                            !.due = d, !.overdue = Begun(d)]])
    /\ UNCHANGED <<now, up, tasks, jobs, histories>>

InsertTask(r) ==
    LET q == requests[r]
    IN /\ q.pc = "insert"
       /\ tasks' = [tasks EXCEPT ![q.task] = q.entity]
       /\ late' = IF InWindow(q.entity) THEN late \cup {q.task} ELSE late
       /\ disturbed' = disturbed \cup {q.task}
       /\ Ends(r)
       /\ UNCHANGED <<now, up, jobs, mailed>>

\* update decides on the flag when there is a due day; taking the day away
\* leaves the flag as it was.
Updated(row, d) == [row EXCEPT !.due = d, !.overdue = IF d = NoDay THEN @ ELSE Begun(d)]

\* update, and assign, unassign, softDelete and move, which store the flag
\* they loaded.
LoadTask(r, t, entity) ==
    /\ up /\ requests[r].pc = "idle" /\ Visible(tasks[t])
    /\ \/ \E d \in Day \cup {NoDay} : entity = Updated(tasks[t], d)
       \/ \E a \in User \cup {Nobody} : entity = [tasks[t] EXCEPT !.assignee = a]
       \/ entity = [tasks[t] EXCEPT !.deletedAt = "recent"]
       \/ entity = tasks[t]
    /\ Becomes(r, [Idle EXCEPT !.pc = "select", !.task = t, !.entity = entity])
    /\ UNCHANGED <<now, up, tasks, jobs, histories>>

SelectTask(r) ==
    LET q == requests[r]
    IN /\ q.pc = "select"
       /\ Becomes(r, [q EXCEPT !.pc = "write", !.plan = SavePlan(q.entity, tasks[q.task])])
       /\ UNCHANGED <<now, up, tasks, jobs, histories>>

SavedTask(plan, entity, row) ==
    LET saved(c) == Written(c, plan, entity, row)
    IN [row |-> row.row, assignee |-> saved("assignee"), due |-> saved("due"),
        overdue |-> saved("overdue"), deletedAt |-> saved("deletedAt")]

WriteTask(r) ==
    LET q == requests[r]
        t == q.task
        new == SavedTask(q.plan, q.entity, tasks[t])
    IN /\ q.pc = "write"
       /\ tasks' = [tasks EXCEPT ![t] = new]
       /\ late' = IF new = tasks[t] THEN late
                  ELSE IF InWindow(new) THEN late \cup {t} ELSE late \ {t}
       /\ mailed' = IF new.due = tasks[t].due THEN mailed ELSE [mailed EXCEPT ![t] = 0]
       /\ disturbed' = IF new = tasks[t] THEN disturbed ELSE disturbed \cup {t}
       /\ Ends(r)
       /\ UNCHANGED <<now, up, jobs>>

------------------------------------------------------------------------------
(* sendDeadlineReminders *)

\* One query.  The column is a date: the next 24 hours are today and tomorrow.
DueSoon_all == {t \in Task : Visible(tasks[t]) /\ tasks[t].due # NoDay /\ ~PastDue(tasks[t])
                             /\ tasks[t].assignee # Nobody}
DueSoon_today == {t \in Task : Visible(tasks[t]) /\ tasks[t].due = Today
                               /\ tasks[t].assignee # Nobody /\ ~tasks[t].overdue}
DueSoon == {t \in Task : Visible(tasks[t]) /\ InWindow(tasks[t]) /\ ~PastDue(tasks[t])
                         /\ tasks[t].assignee # Nobody /\ ~tasks[t].overdue}

\* The next task of the run, or its end.
Rest(todo) == [pc |-> IF todo = {} THEN "idle" ELSE "mail", todo |-> todo]

FindDueSoon(todo) ==
    /\ up /\ reminders.pc = "due"
    /\ todo = {<<t, tasks[t].due>> : t \in DueSoon}
    /\ reminders' = Rest(todo)
    /\ UNCHANGED <<now, up, tasks, requests, detection, histories>>

\* The earliest due day first.
First(x) == x \in reminders.todo /\ \A y \in reminders.todo : x[2] <= y[2]

MailReminder(x) ==
    /\ up /\ reminders.pc = "mail" /\ First(x)
    /\ reminders' = [pc |-> "note", todo |-> reminders.todo \ {x}]
    /\ mailed' = IF tasks[x[1]].due = x[2] THEN [mailed EXCEPT ![x[1]] = @ + 1] ELSE mailed
    /\ UNCHANGED <<now, up, tasks, requests, detection, late, disturbed>>

\* A mail that fails ends with this task, not the run.
MailFails(x) ==
    /\ up /\ reminders.pc = "mail" /\ First(x)
    /\ reminders' = Rest(reminders.todo \ {x})
    /\ late' = late \cup {x[1]}
    /\ UNCHANGED <<now, up, tasks, requests, detection, mailed, disturbed>>

\* The notification, whose failure is caught; it changes nothing modelled.
InsertNotification ==
    /\ up /\ reminders.pc = "note"
    /\ reminders' = Rest(reminders.todo)
    /\ UNCHANGED <<now, up, tasks, requests, detection, histories>>

------------------------------------------------------------------------------
(* detectOverdueTasks: two UPDATEs with the day read before the first *)

StartDetection ==
    /\ up /\ detection.pc = "idle"
    /\ detection' = [pc |-> "mark", day |-> Today, due |-> FALSE]
    /\ UNCHANGED <<now, up, tasks, requests, reminders, histories>>

\* What is written from here on is disturbed again.
MarkOverdue ==
    LET over(t) == Visible(tasks[t]) /\ tasks[t].due # NoDay /\ tasks[t].due < detection.day
    IN /\ up /\ detection.pc = "mark"
       /\ tasks' = [t \in Task |-> IF over(t) THEN [tasks[t] EXCEPT !.overdue = TRUE] ELSE tasks[t]]
       /\ detection' = [detection EXCEPT !.pc = "unmark"]
       /\ disturbed' = {t \in disturbed : ~Visible(tasks[t])}
       /\ UNCHANGED <<now, up, requests, reminders, mailed, late>>

UnmarkOverdue_nullOnly ==
    LET notOver(t) == Visible(tasks[t]) /\ tasks[t].due = NoDay
    IN /\ up /\ detection.pc = "unmark"
       /\ tasks' = [t \in Task |-> IF notOver(t) THEN [tasks[t] EXCEPT !.overdue = FALSE] ELSE tasks[t]]
       /\ detection' = [detection EXCEPT !.pc = "idle"]
       /\ UNCHANGED <<now, up, requests, reminders, histories>>
UnmarkOverdue ==
    LET notOver(t) == Visible(tasks[t]) /\ (tasks[t].due = NoDay \/ tasks[t].due >= detection.day)
    IN /\ up /\ detection.pc = "unmark"
       /\ tasks' = [t \in Task |-> IF notOver(t) THEN [tasks[t] EXCEPT !.overdue = FALSE] ELSE tasks[t]]
       /\ detection' = [detection EXCEPT !.pc = "idle"]
       /\ UNCHANGED <<now, up, requests, reminders, histories>>

------------------------------------------------------------------------------
(* The clock, and the process *)

\* The next reminder run is due, and so is the next hourly detection.
Tick ==
    /\ now + 1 < (LastDay + 1) * RunsPerDay
    /\ reminders.pc = "idle" /\ detection.pc = "idle" /\ ~detection.due
    /\ now' = now + 1 /\ UNCHANGED <<up, tasks, requests, mailed>>
    /\ reminders' = [reminders EXCEPT !.pc = IF up THEN "due" ELSE "idle"]
    /\ detection' = [detection EXCEPT !.due = up]
    /\ late' = IF up THEN late ELSE late \cup {t \in Task : InWindow(tasks[t])'}
    /\ disturbed' = IF Today' = Today THEN disturbed ELSE Task

\* Requests and runs are lost with the process.
Down ==
    LET cut == reminders.pc # "idle" \/ detection.pc # "idle" \/ detection.due
    IN /\ up /\ up' = FALSE
       /\ requests' = [r \in Request |-> Idle]
       /\ reminders' = [pc |-> "idle", todo |-> {}]
       /\ detection' = [pc |-> "idle", day |-> 0, due |-> FALSE]
       /\ late' = IF cut THEN late \cup {t \in Task : InWindow(tasks[t])} ELSE late
       /\ disturbed' = IF detection.pc = "unmark" THEN Task ELSE disturbed
       /\ UNCHANGED <<now, tasks, mailed>>

Restart == up = FALSE /\ up' = TRUE /\ UNCHANGED <<now, tasks, requests, jobs, histories>>

------------------------------------------------------------------------------

Begins ==
    \E r \in Request, t \in Task :
        \/ \E a \in User \cup {Nobody}, d \in Day \cup {NoDay} : BeginCreate(r, t, a, d)
        \/ \E entity \in TaskRow : LoadTask(r, t, entity)

Continues == \E r \in Request : InsertTask(r) \/ SelectTask(r) \/ WriteTask(r)

Reminds ==
    \/ FindDueSoon({<<t, tasks[t].due>> : t \in DueSoon})
    \/ \E x \in reminders.todo : MailReminder(x) \/ MailFails(x)
    \/ InsertNotification

Detects == StartDetection \/ MarkOverdue \/ UnmarkOverdue

Next == Begins \/ Continues \/ Reminds \/ Detects \/ Tick \/ Down \/ Restart

Spec == Init /\ [][Next]_vars

\* @Cron runs detection as long as the process is up, its statements are
\* answered, and a process that has died is started again.
FairSpec == Spec /\ WF_vars(Detects) /\ WF_vars(Restart)

------------------------------------------------------------------------------
(* Properties *)

\* Between two runs of detection, a flag that is wrong was written since a
\* run last settled it (or the day has changed): create and update call a
\* task overdue on its very day, a save stores a flag it loaded earlier, and
\* update keeps the flag of a task whose day it takes away.
FlagsSettled ==
    detection.pc # "unmark" =>
        \A t \in Task \ disturbed : Visible(tasks[t]) => tasks[t].overdue = PastDue(tasks[t])

\* Who is assigned a task hears of it before its day begins, unless the task
\* got this day, its assignee or its flag when reminders were already to be
\* sent, or a mail failed or a run was lost then.
DeadlinesAnnounced ==
    \A t \in Task : /\ Visible(tasks[t]) /\ tasks[t].assignee # Nobody
                     /\ Begun(tasks[t].due)
                     => mailed[t] > 0 \/ t \in late

\* The window of twenty-four hours, on days, is two days, and no run
\* remembers the one before: a task is reminded of at most two days' worth
\* of runs, eight times, and does get as many.
RemindersBounded == \A t \in Task : mailed[t] <= 2 * RunsPerDay

\* When tasks are left alone and days have passed, detection makes every flag
\* say what the jobs mean by it, and it stays so.
Quiet == up /\ \A r \in Request : requests[r].pc = "idle"
FlagsRight == \A t \in Task : Visible(tasks[t]) => tasks[t].overdue = PastDue(tasks[t])
FlagsBecomeRight == <>[][~Begins /\ ~Tick /\ ~Down]_vars => <>[]FlagsRight
=============================================================================
