---------------------------- MODULE TaskCron_proofs ----------------------------
(***************************************************************************)
(* Theorems about TaskCron, for any tasks, users, requests in flight, number *)
(* of days and of reminder runs in a day.                                    *)
(***************************************************************************)
EXTENDS TaskCron, TLAPS

\* Who saves a task has found it in the table, where it stays; who inserts one
\* has its id for itself.
Placed ==
    \A r \in Request :
        LET q == requests[r]
        IN /\ q.pc \in {"select", "write"} => tasks[q.task].row = "there"
           /\ q.pc = "insert" =>
                /\ tasks[q.task].row = "none" /\ q.entity.row = "there"
                /\ \A x \in Request \ {r} : requests[x].pc # "idle" => requests[x].task # q.task

\* A task that was never inserted has no due day.
Undated == \A t \in Task : tasks[t].row = "none" => tasks[t].due = NoDay

Typed == TypeOK /\ Placed /\ Undated

------------------------------------------------------------------------------
(* Types *)

LEMMA Rows ==
  /\ NoTaskRow \in TaskRow /\ Idle \in RequestState /\ Idle.pc = "idle"
  /\ NoTaskRow.row = "none" /\ NoTaskRow.due = NoDay
  BY ConstantsAssumption DEF NoTaskRow, TaskRow, RowState, Idle, RequestState, PC

\* The day of a moment: floor division.
LEMMA DayOf ==
  ASSUME NEW n \in Nat, NEW k \in Nat \ {0}
  PROVE  /\ n \div k \in Nat
         /\ (n \div k) * k <= n
         /\ n < (n \div k) * k + k
  OBVIOUS

LEMMA Product ==
  ASSUME NEW a \in Int, NEW b \in Int, NEW k \in Nat, a <= b
  PROVE  a * k \in Int /\ b * k \in Int /\ a * k <= b * k
  <1>1. b - a \in Nat
    OBVIOUS
  <1>2. (b - a) * k \in Nat
    BY <1>1
  <1>3. (b - a) * k = b * k - a * k
    OBVIOUS
  <1> QED
    BY <1>2, <1>3

LEMMA TodayType == ASSUME TypeOK PROVE Today \in Day
  <1> DEFINE k == RunsPerDay
             n == now
  <1>1. k \in Nat \ {0} /\ n \in Nat /\ LastDay \in Nat /\ n < (LastDay + 1) * k
    BY ConstantsAssumption DEF TypeOK
  <1>2. Today = n \div k
    BY DEF Today
  <1> HIDE DEF n, k
  <1>3. Today \in Nat /\ Today * k <= n
    BY <1>1, <1>2, DayOf
  <1>4. Today < LastDay + 1
    <2> SUFFICES ASSUME LastDay + 1 <= Today PROVE FALSE
      BY <1>1, <1>3
    <2>1. (LastDay + 1) * k <= Today * k
      BY <1>1, <1>3, Product
    <2> QED
      BY <1>1, <1>3, <2>1
  <1> QED
    BY <1>1, <1>3, <1>4 DEF Day

LEMMA InitTyped == Init => Typed
  <1> SUFFICES ASSUME Init PROVE Typed
    OBVIOUS
  <1>1. (LastDay + 1) * RunsPerDay \in Nat /\ (LastDay + 1) * RunsPerDay > 0
    BY ConstantsAssumption
  <1>2. TypeOK
    BY <1>1, Rows, ConstantsAssumption DEF Init, TypeOK, Listed, Day
  <1>3. Placed /\ Undated
    BY Rows DEF Init, Placed, Undated
  <1> QED
    BY <1>2, <1>3 DEF Typed

\* What a step of a request makes of the slots.
LEMMA Becoming ==
  ASSUME TypeOK, NEW r \in Request, NEW q, Becomes(r, q)
  PROVE  \A x \in Request : requests'[x] = IF x = r THEN q ELSE requests[x]
  BY DEF TypeOK, Becomes

LEMMA BeginsTyped ==
  ASSUME Typed, Begins
  PROVE  Typed'
  <1>1. PICK r \in Request, t \in Task :
            \/ \E a \in User \cup {Nobody}, d \in Day \cup {NoDay} : BeginCreate(r, t, a, d)
            \/ \E entity \in TaskRow : LoadTask(r, t, entity)
    BY DEF Begins
  <1>2. CASE \E a \in User \cup {Nobody}, d \in Day \cup {NoDay} : BeginCreate(r, t, a, d)
    <2>1. PICK a \in User \cup {Nobody}, d \in Day \cup {NoDay} : BeginCreate(r, t, a, d)
      BY <1>2
    <2> DEFINE row == [NoTaskRow EXCEPT !.row = "there", !.assignee = a, !.due = d, !.overdue = Begun(d)]
               q == [Idle EXCEPT !.pc = "insert", !.task = t, !.entity = row]
    <2>2. Begun(d) \in BOOLEAN
      BY DEF Begun
    <2>3. row \in TaskRow /\ row.row = "there"
      BY <2>2 DEF TaskRow, NoTaskRow, RowState
    <2>4. /\ requests[r].pc = "idle" /\ tasks[t].row = "none" /\ Becomes(r, q)
          /\ \A x \in Request : requests[x].pc = "insert" => requests[x].task # t
          /\ UNCHANGED <<now, up, tasks, jobs, histories>>
      BY <2>1 DEF BeginCreate
    <2> HIDE DEF row
    <2>5. q \in RequestState /\ q.pc = "insert" /\ q.task = t /\ q.entity = row
      BY <2>3, Rows DEF RequestState, PC, Idle
    <2> HIDE DEF q
    <2>6. \A x \in Request : requests'[x] = IF x = r THEN q ELSE requests[x]
      BY <2>4, Becoming DEF Typed
    <2>7. TypeOK'
      BY <2>4, <2>5 DEF Becomes, Typed, TypeOK, jobs, histories
    <2>8. \A x \in Request : requests[x].pc # "idle" => requests[x].task # t
      BY <2>4 DEF Typed, TypeOK, RequestState, PC, Placed
    <2>9. Placed' /\ Undated'
      BY <2>3, <2>4, <2>5, <2>6, <2>8 DEF Typed, Placed, Undated
    <2> QED
      BY <2>7, <2>9 DEF Typed
  <1>3. CASE \E entity \in TaskRow : LoadTask(r, t, entity)
    <2>1. PICK entity \in TaskRow : LoadTask(r, t, entity)
      BY <1>3
    <2> DEFINE q == [Idle EXCEPT !.pc = "select", !.task = t, !.entity = entity]
    <2>2. q \in RequestState /\ q.pc = "select" /\ q.task = t
      BY Rows DEF RequestState, PC, Idle
    <2>3. /\ requests[r].pc = "idle" /\ tasks[t].row = "there" /\ Becomes(r, q)
          /\ UNCHANGED <<now, up, tasks, jobs, histories>>
      BY <2>1 DEF LoadTask, Visible, Exists
    <2> HIDE DEF q
    <2>4. \A x \in Request : requests'[x] = IF x = r THEN q ELSE requests[x]
      BY <2>3, Becoming DEF Typed
    <2>5. TypeOK'
      BY <2>2, <2>3 DEF Becomes, Typed, TypeOK, jobs, histories
    <2>6. Placed' /\ Undated'
      BY <2>2, <2>3, <2>4 DEF Typed, Placed, Undated
    <2> QED
      BY <2>5, <2>6 DEF Typed
  <1> QED
    BY <1>1, <1>2, <1>3

\* The statement of a save.
LEMMA SavedRow ==
  ASSUME Typed, NEW r \in Request, requests[r].pc = "write"
  PROVE  LET q == requests[r]
             new == SavedTask(q.plan, q.entity, tasks[q.task])
         IN q \in RequestState /\ new \in TaskRow /\ new.row = "there"
  <1> DEFINE q == requests[r]
             old == tasks[q.task]
  <1>1. q \in RequestState /\ q.entity \in TaskRow /\ old \in TaskRow /\ old.row = "there"
    BY DEF Typed, TypeOK, RequestState, Placed
  <1>2. \A f \in {"assignee", "due", "overdue", "deletedAt"} :
           Written(f, q.plan, q.entity, old) \in {q.entity[f], old[f]}
    BY DEF Written
  <1> QED
    BY <1>1, <1>2 DEF SavedTask, TaskRow

LEMMA ContinuesTyped ==
  ASSUME Typed, NEW r \in Request, InsertTask(r) \/ SelectTask(r) \/ WriteTask(r)
  PROVE  Typed'
  <1> DEFINE q == requests[r]
             t == q.task
  <1>1. q \in RequestState /\ t \in Task /\ q.entity \in TaskRow
    BY DEF Typed, TypeOK, RequestState
  <1>2. CASE InsertTask(r)
    <2>1. /\ q.pc = "insert" /\ tasks' = [tasks EXCEPT ![t] = q.entity] /\ Becomes(r, Idle)
          /\ late' \subseteq late \cup {t} /\ disturbed' = disturbed \cup {t}
          /\ UNCHANGED <<now, up, jobs, mailed>>
      BY <1>2 DEF InsertTask, Ends
    <2>2. \A x \in Request : requests'[x] = IF x = r THEN Idle ELSE requests[x]
      BY <2>1, Becoming DEF Typed
    <2>3. \A u \in Task : tasks'[u] = IF u = t THEN q.entity ELSE tasks[u]
      BY <2>1 DEF Typed, TypeOK
    <2>4. /\ q.entity.row = "there"
          /\ \A x \in Request \ {r} : requests[x].pc # "idle" => requests[x].task # t
      BY <2>1 DEF Typed, Placed
    <2>5. TypeOK'
      BY <1>1, <2>1, Rows DEF Becomes, Typed, TypeOK, jobs
    <2>6. Placed'
      BY <2>2, <2>3, <2>4, Rows DEF Typed, TypeOK, RequestState, Placed
    <2>7. Undated'
      BY <2>3, <2>4 DEF Typed, Undated
    <2> QED
      BY <2>5, <2>6, <2>7 DEF Typed
  <1>3. CASE SelectTask(r)
    <2> DEFINE plan == SavePlan(q.entity, tasks[t])
               n == [q EXCEPT !.pc = "write", !.plan = plan]
    <2>1. q.pc = "select" /\ Becomes(r, n) /\ UNCHANGED <<now, up, tasks, jobs, histories>>
      BY <1>3 DEF SelectTask
    <2>2. plan \in SUBSET DOMAIN NoTaskRow
      BY <1>1 DEF SavePlan, TaskRow, NoTaskRow
    <2> HIDE DEF plan
    <2>3. n \in RequestState /\ n.pc = "write" /\ n.task = t
      BY <1>1, <2>2 DEF RequestState, PC
    <2> HIDE DEF n
    <2>4. \A x \in Request : requests'[x] = IF x = r THEN n ELSE requests[x]
      BY <2>1, Becoming DEF Typed
    <2>5. TypeOK'
      BY <2>1, <2>3 DEF Becomes, Typed, TypeOK, jobs, histories
    <2>6. Placed' /\ Undated'
      BY <2>1, <2>3, <2>4 DEF Typed, Placed, Undated
    <2> QED
      BY <2>5, <2>6 DEF Typed
  <1>4. CASE WriteTask(r)
    <2> DEFINE new == SavedTask(q.plan, q.entity, tasks[t])
    <2>1. /\ q.pc = "write" /\ tasks' = [tasks EXCEPT ![t] = new] /\ Becomes(r, Idle)
          /\ late' \subseteq late \cup {t} /\ disturbed' \subseteq disturbed \cup {t}
          /\ mailed' \in {mailed, [mailed EXCEPT ![t] = 0]}
          /\ UNCHANGED <<now, up, jobs>>
      BY <1>4 DEF WriteTask, Ends
    <2>2. new \in TaskRow /\ new.row = "there"
      BY <2>1, SavedRow
    <2> HIDE DEF new
    <2>3. \A x \in Request : requests'[x] = IF x = r THEN Idle ELSE requests[x]
      BY <2>1, Becoming DEF Typed
    <2>4. \A u \in Task : tasks'[u] = IF u = t THEN new ELSE tasks[u]
      BY <2>1 DEF Typed, TypeOK
    <2>5. TypeOK'
      BY <1>1, <2>1, <2>2, Rows DEF Becomes, Typed, TypeOK, jobs
    <2>6. tasks[t].row = "there"
      BY <2>1 DEF Typed, Placed
    <2>7. Placed'
      BY <2>2, <2>3, <2>4, <2>6, Rows DEF Typed, TypeOK, RequestState, Placed
    <2>8. Undated'
      BY <2>2, <2>4 DEF Typed, Undated
    <2> QED
      BY <2>5, <2>7, <2>8 DEF Typed
  <1> QED
    BY <1>2, <1>3, <1>4

LEMMA RemindsTyped ==
  ASSUME Typed, Reminds
  PROVE  Typed'
  <1>1. UNCHANGED <<now, up, tasks, requests, detection, disturbed>>
    BY DEF Reminds, FindDueSoon, MailReminder, MailFails, InsertNotification, histories
  <1>2. /\ reminders' \in [pc: {"idle", "due", "mail", "note"}, todo: SUBSET Listed]
        /\ mailed' \in [Task -> Nat] /\ late' \subseteq Task
    <2>1. \A todo \in SUBSET Listed : Rest(todo) \in [pc: {"idle", "due", "mail", "note"}, todo: SUBSET Listed]
      BY DEF Rest
    <2>2. CASE FindDueSoon({<<t, tasks[t].due>> : t \in DueSoon})
      <3>1. \A t \in DueSoon : <<t, tasks[t].due>> \in Listed
        BY DEF DueSoon, InWindow, Listed, Typed, TypeOK, TaskRow
      <3> QED
        BY <2>1, <2>2, <3>1 DEF FindDueSoon, histories, Typed, TypeOK
    <2>3. ASSUME NEW x \in reminders.todo, MailReminder(x) \/ MailFails(x)
          PROVE  /\ reminders' \in [pc: {"idle", "due", "mail", "note"}, todo: SUBSET Listed]
                 /\ mailed' \in [Task -> Nat] /\ late' \subseteq Task
      <3>1. reminders.todo \in SUBSET Listed /\ x[1] \in Task
        BY <2>3 DEF Typed, TypeOK, Listed
      <3> QED
        BY <2>1, <2>3, <3>1 DEF MailReminder, MailFails, Typed, TypeOK
    <2>4. CASE InsertNotification
      BY <2>1, <2>4 DEF InsertNotification, histories, Typed, TypeOK
    <2> QED
      BY <2>2, <2>3, <2>4 DEF Reminds
  <1>3. TypeOK'
    BY <1>1, <1>2 DEF Typed, TypeOK
  <1>4. Placed' /\ Undated'
    BY <1>1 DEF Typed, Placed, Undated
  <1> QED
    BY <1>3, <1>4 DEF Typed

LEMMA DetectsTyped ==
  ASSUME Typed, Detects
  PROVE  Typed'
  <1>1. UNCHANGED <<now, up, requests, reminders, mailed, late>> /\ disturbed' \subseteq disturbed
    BY DEF Detects, StartDetection, MarkOverdue, UnmarkOverdue, histories
  <1>2. detection' \in [pc: {"idle", "mark", "unmark"}, day: Day, due: BOOLEAN]
    <2>1. CASE StartDetection
      BY <2>1, TodayType DEF StartDetection, Typed
    <2>2. CASE MarkOverdue
      BY <2>2 DEF MarkOverdue, Typed, TypeOK
    <2>3. CASE UnmarkOverdue
      BY <2>3 DEF UnmarkOverdue, Typed, TypeOK
    <2> QED
      BY <2>1, <2>2, <2>3 DEF Detects
  <1>3. /\ tasks' \in [Task -> TaskRow]
        /\ \A t \in Task : tasks'[t].row = tasks[t].row /\ tasks'[t].due = tasks[t].due
    <2>1. CASE UNCHANGED tasks
      BY <2>1 DEF Typed, TypeOK
    <2>2. \A row \in TaskRow, b \in BOOLEAN :
             LET new == [row EXCEPT !.overdue = b]
             IN new \in TaskRow /\ new.row = row.row /\ new.due = row.due
      BY DEF TaskRow
    <2>3. CASE ~UNCHANGED tasks
      <3>1. \E S \in SUBSET Task, b \in BOOLEAN :
               tasks' = [t \in Task |-> IF t \in S THEN [tasks[t] EXCEPT !.overdue = b] ELSE tasks[t]]
        <4>1. CASE MarkOverdue
          <5> DEFINE S == {t \in Task : Visible(tasks[t]) /\ tasks[t].due # NoDay /\ tasks[t].due < detection.day}
          <5>1. tasks' = [t \in Task |-> IF t \in S THEN [tasks[t] EXCEPT !.overdue = TRUE] ELSE tasks[t]]
            BY <4>1 DEF MarkOverdue
          <5> HIDE DEF S
          <5>2. S \in SUBSET Task
            BY DEF S
          <5> QED
            BY <5>1, <5>2
        <4>2. CASE UnmarkOverdue
          <5> DEFINE S == {t \in Task : Visible(tasks[t]) /\ (tasks[t].due = NoDay \/ tasks[t].due >= detection.day)}
          <5>1. tasks' = [t \in Task |-> IF t \in S THEN [tasks[t] EXCEPT !.overdue = FALSE] ELSE tasks[t]]
            BY <4>2 DEF UnmarkOverdue
          <5> HIDE DEF S
          <5>2. S \in SUBSET Task
            BY DEF S
          <5> QED
            BY <5>1, <5>2
        <4> QED
          BY <2>3, <4>1, <4>2 DEF Detects, StartDetection
      <3>2. PICK S \in SUBSET Task, b \in BOOLEAN :
               tasks' = [t \in Task |-> IF t \in S THEN [tasks[t] EXCEPT !.overdue = b] ELSE tasks[t]]
        BY <3>1
      <3> QED
        BY <2>2, <3>2 DEF Typed, TypeOK
    <2> QED
      BY <2>1, <2>3
  <1>4. TypeOK'
    BY <1>1, <1>2, <1>3 DEF Typed, TypeOK
  <1>5. Placed' /\ Undated'
    BY <1>1, <1>3 DEF Typed, TypeOK, RequestState, Placed, Undated
  <1> QED
    BY <1>4, <1>5 DEF Typed

LEMMA ClockTyped ==
  ASSUME Typed, Tick \/ Down \/ Restart
  PROVE  Typed'
  <1>1. CASE Tick
    <2>1. now' \in 0 .. (LastDay + 1) * RunsPerDay - 1
      BY <1>1, ConstantsAssumption DEF Tick, Typed, TypeOK
    <2>2. TypeOK'
      BY <1>1, <2>1 DEF Tick, Typed, TypeOK
    <2> QED
      BY <1>1, <2>2 DEF Tick, Typed, Placed, Undated
  <1>2. CASE Down
    <2>1. 0 \in Day
      BY ConstantsAssumption DEF Day
    <2>2. TypeOK'
      BY <1>2, <2>1, Rows DEF Down, Typed, TypeOK
    <2>3. \A r \in Request : requests'[r].pc = "idle"
      BY <1>2, Rows DEF Down
    <2> QED
      BY <1>2, <2>2, <2>3 DEF Down, Typed, Placed, Undated
  <1>3. CASE Restart
    BY <1>3 DEF Restart, jobs, histories, Typed, TypeOK, Placed, Undated
  <1> QED
    BY <1>1, <1>2, <1>3

LEMMA NextTyped == Typed /\ [Next]_vars => Typed'
  <1>1. Typed /\ UNCHANGED vars => Typed'
    BY DEF vars, jobs, histories, Typed, TypeOK, Placed, Undated
  <1> QED
    BY <1>1, BeginsTyped, ContinuesTyped, RemindsTyped, DetectsTyped, ClockTyped DEF Next, Continues

\* Tables, requests, the two jobs and the clock keep their types.
THEOREM TypeCorrect == Spec => []TypeOK
  <1>1. Typed => TypeOK
    BY DEF Typed
  <1> QED
    BY InitTyped, NextTyped, <1>1, PTL DEF Spec
------------------------------------------------------------------------------
(* The flag.  Between its two statements a run has marked what is late and   *)
(* not yet unmarked the rest.                                                *)

Settled ==
    /\ detection.pc # "idle" => detection.day = Today
    /\ \A t \in Task \ disturbed :
           /\ detection.pc # "unmark" /\ Visible(tasks[t]) => tasks[t].overdue = PastDue(tasks[t])
           /\ Visible(tasks[t]) /\ PastDue(tasks[t]) => tasks[t].overdue

\* A step that only touches what is disturbed afterwards.
LEMMA SettledApart ==
  ASSUME Settled, disturbed \subseteq disturbed', UNCHANGED detection, Today' = Today,
         \A t \in Task \ disturbed' : tasks'[t] = tasks[t]
  PROVE  Settled'
  BY DEF Settled, PastDue

LEMMA RequestSettled ==
  ASSUME Typed, Settled, Begins \/ Continues
  PROVE  Settled'
  <1>1. UNCHANGED <<now, detection>> /\ disturbed \subseteq disturbed'
    BY DEF Begins, BeginCreate, LoadTask, Continues, InsertTask, SelectTask, WriteTask, jobs, histories
  <1>2. \A t \in Task \ disturbed' : tasks'[t] = tasks[t]
    <2>1. CASE Begins
      BY <2>1 DEF Begins, BeginCreate, LoadTask
    <2>2. ASSUME NEW r \in Request, InsertTask(r) PROVE <1>2
      BY <2>2 DEF InsertTask, Typed, TypeOK
    <2>3. ASSUME NEW r \in Request, SelectTask(r) PROVE <1>2
      BY <2>3 DEF SelectTask
    <2>4. ASSUME NEW r \in Request, WriteTask(r) PROVE <1>2
      BY <2>4 DEF WriteTask, Typed, TypeOK
    <2> QED
      BY <2>1, <2>2, <2>3, <2>4 DEF Continues
  <1>3. Today' = Today
    BY <1>1 DEF Today
  <1> QED
    BY <1>1, <1>2, <1>3, SettledApart

LEMMA DetectionSettled ==
  ASSUME Typed, Settled, Detects
  PROVE  Settled'
  <1>1. Today' = Today /\ Today \in Int
    BY TodayType DEF Detects, StartDetection, MarkOverdue, UnmarkOverdue, Today, Typed, Day
  <1>2. CASE StartDetection
    BY <1>1, <1>2 DEF StartDetection, histories, Settled, PastDue
  <1>3. CASE MarkOverdue
    <2>1. detection.day = Today /\ detection'.pc = "unmark" /\ detection'.day = detection.day
      BY <1>3 DEF MarkOverdue, Settled, Typed, TypeOK
    <2>2. \A t \in Task \ disturbed' :
             /\ Visible(tasks[t]) /\ tasks[t].due # NoDay /\ tasks[t].due < Today => tasks'[t].overdue
             /\ tasks'[t].due = tasks[t].due
             /\ Visible(tasks'[t]) => Visible(tasks[t])
      BY <1>3, <2>1 DEF MarkOverdue, Typed, TypeOK, TaskRow, Visible, Exists
    <2> QED
      BY <1>1, <2>1, <2>2 DEF Settled, PastDue
  <1>4. CASE UnmarkOverdue
    <2>1. /\ detection.pc = "unmark" /\ detection.day = Today /\ detection'.pc = "idle"
          /\ disturbed' = disturbed
      BY <1>4 DEF UnmarkOverdue, Settled, Typed, TypeOK, histories
    <2>2. ASSUME NEW t \in Task \ disturbed, Visible(tasks'[t])
          PROVE  tasks'[t].overdue = PastDue(tasks[t])'
      <3> DEFINE notOver == Visible(tasks[t]) /\ (tasks[t].due = NoDay \/ tasks[t].due >= Today)
      <3>1. tasks'[t] = IF notOver THEN [tasks[t] EXCEPT !.overdue = FALSE] ELSE tasks[t]
        BY <1>4, <2>1 DEF UnmarkOverdue
      <3>2. tasks[t] \in TaskRow /\ (tasks[t].due # NoDay => tasks[t].due \in Int)
        BY DEF Typed, TypeOK, TaskRow, Day
      <3>3. tasks'[t].due = tasks[t].due /\ Visible(tasks[t])
        BY <2>2, <3>1, <3>2 DEF TaskRow, Visible, Exists
      <3>4. PastDue(tasks[t]) <=> ~notOver
        BY <1>1, <3>2, <3>3 DEF PastDue
      <3>5. PastDue(tasks[t])' <=> PastDue(tasks[t])
        BY <1>1, <3>3 DEF PastDue
      <3>6. CASE notOver
        BY <3>1, <3>2, <3>4, <3>5, <3>6 DEF TaskRow, PastDue
      <3>7. CASE ~notOver
        BY <2>1, <3>1, <3>2, <3>3, <3>4, <3>5, <3>7 DEF Settled, TaskRow, PastDue
      <3> QED
        BY <3>6, <3>7
    <2> QED
      BY <2>1, <2>2 DEF Settled
  <1> QED
    BY <1>2, <1>3, <1>4 DEF Detects

LEMMA OthersSettled ==
  ASSUME Typed, Settled, Reminds \/ Tick \/ Down \/ Restart
  PROVE  Settled'
  <1>1. CASE Reminds
    <2>1. UNCHANGED <<now, tasks, detection, disturbed>>
      BY <1>1 DEF Reminds, FindDueSoon, MailReminder, MailFails, InsertNotification, histories
    <2> QED
      BY <2>1, SettledApart DEF Today
  <1>2. CASE Tick
    <2>1. /\ detection.pc = "idle" /\ detection'.pc = "idle" /\ UNCHANGED tasks
          /\ disturbed' = IF Today' = Today THEN disturbed ELSE Task
      BY <1>2 DEF Tick, Typed, TypeOK
    <2> QED
      BY <2>1 DEF Settled, PastDue
  <1>3. CASE Down
    <2>1. /\ UNCHANGED <<now, tasks>> /\ detection'.pc = "idle"
          /\ disturbed' = IF detection.pc = "unmark" THEN Task ELSE disturbed
      BY <1>3 DEF Down
    <2>2. Today' = Today
      BY <2>1 DEF Today
    <2> QED
      BY <2>1, <2>2 DEF Settled, PastDue
  <1>4. CASE Restart
    BY <1>4, SettledApart DEF Restart, jobs, histories, Today
  <1> QED
    BY <1>1, <1>2, <1>3, <1>4

\* The hourly job: a flag that is wrong between two runs was written, or its
\* day has ended, since a run last settled it, whatever saves and runs overlap
\* and whenever the process goes down.
THEOREM FlagsStaySettled == Spec => []FlagsSettled
  <1> DEFINE Inv == Typed /\ Settled
  <1>1. Init => Inv
    BY InitTyped DEF Init, Settled, Visible, Exists, NoTaskRow
  <1>2. Inv /\ [Next]_vars => Inv'
    <2> SUFFICES ASSUME Inv, [Next]_vars PROVE Settled'
      BY NextTyped
    <2>1. CASE Next
      BY <2>1, RequestSettled, DetectionSettled, OthersSettled DEF Next
    <2>2. CASE UNCHANGED vars
      BY <2>2, SettledApart DEF vars, jobs, histories, Today
    <2> QED
      BY <2>1, <2>2
  <1>3. Inv => FlagsSettled
    BY DEF Settled, FlagsSettled
  <1> QED
    BY <1>1, <1>2, <1>3, PTL DEF Spec
------------------------------------------------------------------------------
(* The reminders.  Runs(d) numbers the reminder runs from the first that     *)
(* looks for tasks due on day d: each reminds of a task at most once.        *)

Runs(d) == now - (d - 1) * RunsPerDay + 1

\* The run that is due has not reminded of anything yet.
Ahead == IF reminders.pc = "due" THEN 1 ELSE 0

Reminded ==
    /\ reminders.pc \in {"idle", "due"} => reminders.todo = {}
    /\ \A x \in reminders.todo :
           /\ 1 <= Runs(x[2]) /\ Runs(x[2]) <= 2 * RunsPerDay
           /\ tasks[x[1]].due = x[2] => mailed[x[1]] + 1 <= Runs(x[2])
    /\ \A t \in Task :
           /\ mailed[t] <= 2 * RunsPerDay
           /\ tasks[t].due = NoDay => mailed[t] = 0
           /\ mailed[t] = 0 \/ mailed[t] + Ahead <= Runs(tasks[t].due)

LEMMA RunsType ==
  ASSUME TypeOK, NEW d \in Day
  PROVE  Runs(d) \in Int /\ (now' = now + 1 => Runs(d)' = Runs(d) + 1)
  <1>1. d \in Int /\ now \in Int /\ RunsPerDay \in Int
    BY ConstantsAssumption DEF TypeOK, Day
  <1>2. (d - 1) * RunsPerDay \in Int
    BY <1>1
  <1> DEFINE before == (d - 1) * RunsPerDay
  <1>3. Runs(d) = now - before + 1 /\ Runs(d)' = now' - before + 1
    BY DEF Runs
  <1> HIDE DEF before
  <1> QED
    BY <1>1, <1>2, <1>3 DEF before

\* The window is two days long.
LEMMA WindowRuns ==
  ASSUME TypeOK, NEW d \in Day, ~(d < Today), d <= Today + 1
  PROVE  1 <= Runs(d) /\ Runs(d) <= 2 * RunsPerDay
  <1> DEFINE k == RunsPerDay
             n == now
             before == (d - 1) * k
  <1>1. d \in Int /\ n \in Nat /\ k \in Nat \ {0} /\ Today \in Int
    BY ConstantsAssumption, TodayType DEF TypeOK, Day
  <1>2. before \in Int /\ d * k = before + k
    BY <1>1
  <1>3. Today = n \div k /\ Runs(d) = n - before + 1
    BY DEF Today, Runs
  <1> HIDE DEF n, k, before
  <1>4. Today * k \in Int /\ Today * k <= n /\ n < Today * k + k
    BY <1>1, <1>3, DayOf
  <1>5. Today = d \/ Today = d - 1
    BY <1>1
  <1>6. Today * k = before + k \/ Today * k = before
    BY <1>2, <1>5 DEF before
  <1>7. 1 <= Runs(d) /\ Runs(d) <= 2 * k
    BY <1>1, <1>2, <1>3, <1>4, <1>6
  <1> QED
    BY <1>7 DEF k

\* A step that changes no job and sends nothing, but may give a task another day.
LEMMA RemindedApart ==
  ASSUME Typed, Typed', Reminded, UNCHANGED <<now, reminders>>,
         \A t \in Task : \/ mailed'[t] = 0
                         \/ mailed'[t] = mailed[t] /\ tasks'[t].due = tasks[t].due
  PROVE  Reminded'
  <1>1. \A d : Runs(d)' = Runs(d)
    BY DEF Runs
  <1>2. Ahead' = Ahead
    BY DEF Ahead
  <1>3. RunsPerDay \in Nat
    BY ConstantsAssumption
  <1>4. \A x \in reminders.todo :
           x[1] \in Task /\ x[2] \in Day /\ Runs(x[2]) \in Int
    BY RunsType DEF Typed, TypeOK, Listed
  <1>5. \A x \in reminders.todo : tasks'[x[1]].due = x[2] => mailed'[x[1]] + 1 <= Runs(x[2])
    BY <1>4 DEF Reminded
  <1>6. \A t \in Task : mailed'[t] <= 2 * RunsPerDay
    BY <1>3 DEF Reminded
  <1>7. \A t \in Task : (tasks[t].due = NoDay => mailed[t] = 0)'
    BY DEF Reminded
  <1>8. \A t \in Task : (mailed[t] = 0 \/ mailed[t] + Ahead <= Runs(tasks[t].due))'
    BY <1>1, <1>2 DEF Reminded
  <1> QED
    BY <1>1, <1>5, <1>6, <1>7, <1>8 DEF Reminded

LEMMA RequestReminded ==
  ASSUME Typed, Typed', Reminded, Begins \/ Continues \/ Detects
  PROVE  Reminded'
  <1>1. UNCHANGED <<now, reminders>>
    BY DEF Begins, BeginCreate, LoadTask, Continues, InsertTask, SelectTask, WriteTask, jobs, histories,
           Detects, StartDetection, MarkOverdue, UnmarkOverdue
  <1>2. \A t \in Task : \/ mailed'[t] = 0
                        \/ mailed'[t] = mailed[t] /\ tasks'[t].due = tasks[t].due
    <2>1. CASE Begins
      BY <2>1 DEF Begins, BeginCreate, LoadTask, histories
    <2>2. ASSUME NEW r \in Request, InsertTask(r) PROVE <1>2
      <3>1. /\ tasks' = [tasks EXCEPT ![requests[r].task] = requests[r].entity]
            /\ tasks[requests[r].task].row = "none" /\ UNCHANGED mailed
        BY <2>2 DEF InsertTask, Typed, Placed
      <3> QED
        BY <3>1 DEF Typed, TypeOK, Undated, Reminded
    <2>3. ASSUME NEW r \in Request, SelectTask(r) PROVE <1>2
      BY <2>3 DEF SelectTask, histories
    <2>4. ASSUME NEW r \in Request, WriteTask(r) PROVE <1>2
      <3> DEFINE t == requests[r].task
                 new == SavedTask(requests[r].plan, requests[r].entity, tasks[t])
      <3>1. /\ tasks' = [tasks EXCEPT ![t] = new]
            /\ mailed' = IF new.due = tasks[t].due THEN mailed ELSE [mailed EXCEPT ![t] = 0]
        BY <2>4 DEF WriteTask
      <3> HIDE DEF new
      <3> QED
        BY <3>1 DEF Typed, TypeOK
    <2>5. CASE StartDetection
      BY <2>5 DEF StartDetection, histories
    <2>6. CASE MarkOverdue
      BY <2>6 DEF MarkOverdue, Typed, TypeOK, TaskRow
    <2>7. CASE UnmarkOverdue
      BY <2>7 DEF UnmarkOverdue, Typed, TypeOK, TaskRow, histories
    <2> QED
      BY <2>1, <2>2, <2>3, <2>4, <2>5, <2>6, <2>7 DEF Continues, Detects
  <1> QED
    BY <1>1, <1>2, RemindedApart

LEMMA RunReminded ==
  ASSUME Typed, Typed', Reminded, Reminds
  PROVE  Reminded'
  <1>1. UNCHANGED <<now, tasks>> /\ \A d : Runs(d)' = Runs(d)
    BY DEF Reminds, FindDueSoon, MailReminder, MailFails, InsertNotification, Runs
  <1>2. \A d \in Day : Runs(d) \in Int
    BY RunsType DEF Typed
  <1>3. \A t \in Task : mailed[t] \in Nat /\ (tasks[t].due # NoDay => tasks[t].due \in Day)
    BY DEF Typed, TypeOK, TaskRow
  <1>4. \A x \in reminders.todo : x[1] \in Task /\ x[2] \in Day
    BY DEF Typed, TypeOK, Listed
  <1>5. NoDay \notin Day /\ RunsPerDay \in Nat
    BY ConstantsAssumption DEF Day
  <1>6. \A todo : /\ Rest(todo).todo = todo /\ Rest(todo).pc # "due"
                  /\ Rest(todo).pc = "idle" => todo = {}
    BY DEF Rest
  <1>7. CASE FindDueSoon({<<t, tasks[t].due>> : t \in DueSoon})
    <2> DEFINE todo == {<<t, tasks[t].due>> : t \in DueSoon}
    <2>1. reminders.pc = "due" /\ reminders' = Rest(todo) /\ UNCHANGED mailed
      BY <1>7 DEF FindDueSoon, histories
    <2>2. \A t \in DueSoon : /\ t \in Task /\ tasks[t].due \in Day /\ ~(tasks[t].due < Today)
                             /\ tasks[t].due <= Today + 1
      BY <1>3 DEF DueSoon, InWindow, PastDue
    <2>3. Ahead = 1 /\ Ahead' = 0
      BY <1>6, <2>1 DEF Ahead
    <2>4. \A x \in todo : /\ x[1] \in DueSoon /\ x[2] = tasks[x[1]].due
      OBVIOUS
    <2> HIDE DEF todo
    <2>5. \A x \in todo : /\ 1 <= Runs(x[2]) /\ Runs(x[2]) <= 2 * RunsPerDay
                          /\ mailed[x[1]] + 1 <= Runs(x[2])
      <3> SUFFICES ASSUME NEW x \in todo
                   PROVE  /\ 1 <= Runs(x[2]) /\ Runs(x[2]) <= 2 * RunsPerDay
                          /\ mailed[x[1]] + 1 <= Runs(x[2])
        OBVIOUS
      <3>1. 1 <= Runs(x[2]) /\ Runs(x[2]) <= 2 * RunsPerDay
        BY <2>2, <2>4, WindowRuns DEF Typed
      <3>2. mailed[x[1]] = 0 \/ mailed[x[1]] + 1 <= Runs(x[2])
        BY <2>2, <2>3, <2>4 DEF Reminded
      <3> QED
        BY <3>1, <3>2
    <2>6. reminders'.todo = todo /\ (reminders'.pc \in {"idle", "due"} => todo = {})
      BY <1>6, <2>1
    <2>7. \A t \in Task : mailed[t] = 0 \/ mailed[t] + 0 <= Runs(tasks[t].due)
      BY <1>2, <1>3, <2>3 DEF Reminded
    <2> QED
      BY <1>1, <2>1, <2>3, <2>5, <2>6, <2>7 DEF Reminded
  <1>8. ASSUME NEW x \in reminders.todo, MailReminder(x)
        PROVE  Reminded'
    <2>1. /\ reminders.pc = "mail" /\ reminders'.pc = "note" /\ reminders'.todo = reminders.todo \ {x}
          /\ mailed' = IF tasks[x[1]].due = x[2] THEN [mailed EXCEPT ![x[1]] = @ + 1] ELSE mailed
      BY <1>8 DEF MailReminder
    <2>2. Ahead = 0 /\ Ahead' = 0
      BY <2>1 DEF Ahead
    <2>3. CASE tasks[x[1]].due = x[2]
      <3>1. \A t \in Task : mailed'[t] = IF t = x[1] THEN mailed[t] + 1 ELSE mailed[t]
        BY <1>4, <2>1, <2>3 DEF Typed, TypeOK
      <3>2. /\ mailed[x[1]] + 1 <= Runs(x[2]) /\ Runs(x[2]) <= 2 * RunsPerDay /\ Runs(x[2]) \in Int
        BY <1>2, <1>4, <2>3 DEF Reminded
      <3>3. mailed[x[1]] + 1 <= 2 * RunsPerDay
        BY <1>3, <1>4, <1>5, <3>2
      <3>4. \A y \in reminders.todo \ {x} : y[1] = x[1] => y[2] # x[2]
        BY DEF Typed, TypeOK, Listed
      <3>5. \A y \in reminders.todo \ {x} : tasks[y[1]].due = y[2] => mailed'[y[1]] + 1 <= Runs(y[2])
        BY <1>4, <2>3, <3>1, <3>4 DEF Reminded
      <3>6. \A t \in Task :
               /\ mailed'[t] <= 2 * RunsPerDay
               /\ tasks[t].due = NoDay => mailed'[t] = 0
               /\ mailed'[t] = 0 \/ mailed'[t] + 0 <= Runs(tasks[t].due)
        BY <1>3, <1>4, <1>5, <2>2, <2>3, <3>1, <3>2, <3>3 DEF Reminded
      <3> QED
        BY <1>1, <2>1, <2>2, <3>5, <3>6 DEF Reminded
    <2>4. CASE tasks[x[1]].due # x[2]
      BY <1>1, <2>1, <2>2, <2>4 DEF Reminded
    <2> QED
      BY <2>3, <2>4
  <1>9. ASSUME \/ InsertNotification
               \/ \E x \in reminders.todo : MailFails(x)
        PROVE  Reminded'
    <2>1. PICK todo \in SUBSET reminders.todo : reminders' = Rest(todo)
      BY <1>9 DEF InsertNotification, MailFails
    <2>2. reminders.pc # "due" /\ UNCHANGED mailed
      BY <1>9 DEF InsertNotification, MailFails, histories
    <2>3. Ahead = 0 /\ Ahead' = 0
      BY <1>6, <2>1, <2>2 DEF Ahead
    <2>4. reminders'.todo \subseteq reminders.todo
          /\ (reminders'.pc \in {"idle", "due"} => reminders'.todo = {})
      BY <1>6, <2>1
    <2> QED
      BY <1>1, <2>2, <2>3, <2>4 DEF Reminded
  <1> QED
    BY <1>7, <1>8, <1>9 DEF Reminds

LEMMA ClockReminded ==
  ASSUME Typed, Typed', Reminded, Tick \/ Down \/ Restart
  PROVE  Reminded'
  <1>1. CASE Tick
    <2>1. /\ reminders.pc = "idle" /\ reminders'.todo = reminders.todo /\ now' = now + 1
          /\ reminders'.pc \in {"idle", "due"} /\ UNCHANGED <<tasks, mailed>>
      BY <1>1 DEF Tick, Typed, TypeOK
    <2>2. reminders.todo = {} /\ Ahead = 0 /\ Ahead' \in 0 .. 1
      BY <2>1 DEF Ahead, Reminded
    <2>3. ASSUME NEW t \in Task
          PROVE  mailed[t] = 0 \/ mailed[t] + Ahead' <= Runs(tasks[t].due)'
      <3>1. mailed[t] \in Nat /\ (mailed[t] = 0 \/ tasks[t].due \in Day)
        BY DEF Typed, TypeOK, TaskRow, Reminded
      <3>2. mailed[t] = 0 \/ mailed[t] <= Runs(tasks[t].due)
        BY <2>2, <3>1 DEF Reminded
      <3>3. tasks[t].due \in Day => Runs(tasks[t].due) \in Int /\ Runs(tasks[t].due)' = Runs(tasks[t].due) + 1
        <4> DEFINE d == tasks[t].due
        <4>1. d' = d
          BY <2>1
        <4>2. Runs(tasks[t].due)' = now' - (d' - 1) * RunsPerDay + 1
          BY DEF Runs
        <4>3. ASSUME d \in Day PROVE Runs(d) \in Int /\ now' - (d - 1) * RunsPerDay + 1 = Runs(d) + 1
          <5>1. d \in Int /\ now \in Int /\ RunsPerDay \in Int /\ (d - 1) * RunsPerDay \in Int
            BY <4>3, ConstantsAssumption DEF Typed, TypeOK, Day
          <5> QED
            BY <2>1, <5>1 DEF Runs
        <4> QED
          BY <4>1, <4>2, <4>3
      <3> QED
        BY <2>2, <3>1, <3>2, <3>3
    <2> QED
      BY <2>1, <2>2, <2>3 DEF Reminded
  <1>2. CASE Down
    <2>1. /\ UNCHANGED <<now, tasks, mailed>> /\ reminders'.todo = {} /\ Ahead' = 0
          /\ Ahead \in 0 .. 1
      BY <1>2 DEF Down, Ahead
    <2>2. \A t \in Task : (mailed[t] = 0 \/ mailed[t] + Ahead <= Runs(tasks[t].due))'
      <3> TAKE t \in Task
      <3>1. mailed[t] \in Nat /\ (mailed[t] = 0 \/ tasks[t].due \in Day)
        BY DEF Typed, TypeOK, TaskRow, Reminded
      <3>2. tasks[t].due \in Day => Runs(tasks[t].due) \in Int
        BY RunsType DEF Typed
      <3>3. Runs(tasks[t].due)' = Runs(tasks[t].due)
        BY <2>1 DEF Runs
      <3> QED
        BY <2>1, <3>1, <3>2, <3>3 DEF Reminded
    <2> QED
      BY <2>1, <2>2 DEF Reminded
  <1>3. CASE Restart
    BY <1>3, RemindedApart DEF Restart, jobs, histories
  <1> QED
    BY <1>1, <1>2, <1>3

\* The reminder job keeps no record of what it sent: its window of two days
\* alone bounds how often it mails of a task for one due day.
THEOREM RemindersStayBounded == Spec => []RemindersBounded
  <1> DEFINE Inv == Typed /\ Reminded
  <1>1. Init => Inv
    <2> SUFFICES ASSUME Init PROVE Reminded
      BY InitTyped
    <2>1. \A t \in Task : mailed[t] = 0
      BY DEF Init
    <2> QED
      BY <2>1, ConstantsAssumption DEF Init, Reminded
  <1>2. Inv /\ [Next]_vars => Inv'
    <2> SUFFICES ASSUME Inv, [Next]_vars PROVE Reminded'
      BY NextTyped
    <2>1. Typed'
      BY NextTyped
    <2>2. CASE Next
      BY <2>1, <2>2, RequestReminded, RunReminded, ClockReminded DEF Next
    <2>3. CASE UNCHANGED vars
      BY <2>1, <2>3, RemindedApart DEF vars, jobs, histories
    <2> QED
      BY <2>2, <2>3
  <1>3. Inv => RemindersBounded
    BY DEF Reminded, RemindersBounded
  <1> QED
    BY <1>1, <1>2, <1>3, PTL DEF Spec
------------------------------------------------------------------------------
(* The announcement.  Who is to hear of a due day hears of it in the first   *)
(* two runs of its window.  The first run may pass over a task whose flag is *)
(* wrong: a save stored its day after detection had marked it for an earlier *)
(* one.  The detection of that hour sets it right before the second.         *)

\* t is to be announced: its window has begun, and nothing excuses it.
Awaits(t) ==
    /\ t \notin late /\ mailed[t] = 0
    /\ Visible(tasks[t]) /\ tasks[t].assignee # Nobody
    /\ tasks[t].due \in Day /\ 1 <= Runs(tasks[t].due)

Announced == \A t \in Task : Awaits(t) =>
    /\ Runs(tasks[t].due) <= 2
    /\ Runs(tasks[t].due) = 1 => detection.due \/ detection.pc # "idle" \/ ~tasks[t].overdue
    /\ Runs(tasks[t].due) = 2 =>
          /\ ~tasks[t].overdue
          /\ reminders.pc = "due" \/ <<t, tasks[t].due>> \in reminders.todo

\* The first run of the window, and what is before the third, at a moment n.
LEMMA WindowOf ==
  ASSUME NEW n \in Nat, NEW d \in Day
  PROVE  LET runs == n - (d - 1) * RunsPerDay + 1
             today == n \div RunsPerDay
         IN /\ runs \in Int /\ today \in Nat
            /\ 1 <= runs <=> d <= today + 1
            /\ runs <= 2 => today < d
  <1> DEFINE k == RunsPerDay
             today == n \div k
             before == (d - 1) * k
             begun == today * k
  <1>1. k \in Nat /\ k >= 2 /\ d \in Nat
    BY ConstantsAssumption DEF Day
  <1>2. today \in Nat /\ begun <= n /\ n < begun + k
    BY <1>1, DayOf
  <1>3. before \in Int /\ begun \in Int
    BY <1>1, <1>2
  <1> HIDE DEF today
  <1>4. d <= today + 1 => before <= begun
    BY <1>1, <1>2, Product
  <1>5. today + 1 < d => before >= begun + k
    <2>1. today + 1 < d => (today + 1) * k <= before
      BY <1>1, <1>2, Product
    <2>2. (today + 1) * k = begun + k
      BY <1>1, <1>2
    <2> QED
      BY <2>1, <2>2
  <1>6. d <= today => before + k <= begun
    <2>1. d <= today => d * k <= begun
      BY <1>1, <1>2, Product
    <2>2. d * k = before + k
      BY <1>1
    <2> QED
      BY <2>1, <2>2
  <1> DEFINE runs == n - before + 1
  <1> HIDE DEF before, begun, k
  <1>7. runs \in Int /\ (1 <= runs <=> d <= today + 1) /\ (runs <= 2 => today < d)
    BY <1>1, <1>2, <1>3, <1>4, <1>5, <1>6
  <1> QED
    BY <1>2, <1>7 DEF before, today, k

LEMMA Window ==
  ASSUME TypeOK, NEW d \in Day
  PROVE  /\ Runs(d) \in Int /\ Today \in Nat
         /\ 1 <= Runs(d) <=> d <= Today + 1
         /\ Runs(d) <= 2 => Today < d
  <1>1. now \in Nat
    BY ConstantsAssumption DEF TypeOK
  <1> QED
    BY <1>1, WindowOf DEF Runs, Today

\* A task that is in its window does not get another row without being called late.
Spared(t) ==
    \/ tasks'[t] = tasks[t] /\ mailed'[t] = mailed[t] /\ (t \in late => t \in late')
    \/ t \in late'
    \/ ~(tasks'[t].due \in Day /\ 1 <= Runs(tasks'[t].due))

\* Nothing but such rows changes.
LEMMA AnnouncedApart ==
  ASSUME Announced, UNCHANGED <<now, reminders, detection>>,
         \A t \in Task : Spared(t)
  PROVE  Announced'
  <1>1. \A d : Runs(d)' = Runs(d)
    BY DEF Runs
  <1>2. ASSUME NEW t \in Task, Awaits(t)'
        PROVE  Awaits(t) /\ tasks'[t] = tasks[t] /\ Runs(tasks[t].due)' = Runs(tasks[t].due)
    <2>1. /\ t \notin late' /\ mailed'[t] = 0 /\ tasks'[t].assignee # Nobody /\ Visible(tasks'[t])
          /\ tasks'[t].due \in Day /\ 1 <= Runs(tasks'[t].due)
      BY <1>2, <1>1 DEF Awaits, Visible, Exists, Runs
    <2>2. tasks'[t] = tasks[t] /\ mailed'[t] = mailed[t] /\ t \notin late
      BY <2>1 DEF Spared
    <2> QED
      BY <2>1, <2>2 DEF Awaits, Runs
  <1> QED
    BY <1>2 DEF Announced

LEMMA RequestAnnounced ==
  ASSUME Typed, Announced, Begins \/ Continues
  PROVE  Announced'
  <1>1. UNCHANGED <<now, reminders, detection>>
    BY DEF Begins, BeginCreate, LoadTask, Continues, InsertTask, SelectTask, WriteTask, jobs, histories
  <1>2. \A row : row.due \in Day /\ 1 <= Runs(row.due) => InWindow(row)
    BY Window, ConstantsAssumption DEF Typed, InWindow, Day
  <1>3. ASSUME NEW t \in Task
        PROVE  Spared(t)
    <2>1. CASE UNCHANGED <<tasks, histories>>
      BY <2>1 DEF histories, Spared
    <2>2. ASSUME NEW r \in Request, InsertTask(r) PROVE Spared(t)
      BY <1>2, <2>2 DEF InsertTask, Typed, TypeOK, Spared
    <2>3. ASSUME NEW r \in Request, WriteTask(r) PROVE Spared(t)
      <3> DEFINE x == requests[r].task
                 new == SavedTask(requests[r].plan, requests[r].entity, tasks[x])
      <3>1. /\ tasks' = [tasks EXCEPT ![x] = new]
            /\ late' = IF new = tasks[x] THEN late ELSE IF InWindow(new) THEN late \cup {x} ELSE late \ {x}
            /\ mailed' = IF new.due = tasks[x].due THEN mailed ELSE [mailed EXCEPT ![x] = 0]
        BY <2>3 DEF WriteTask
      <3> HIDE DEF new
      <3>2. tasks'[t] = IF t = x THEN new ELSE tasks[t]
        BY <3>1 DEF Typed, TypeOK
      <3>3. t # x \/ new = tasks[x] => mailed'[t] = mailed[t] /\ (t \in late => t \in late')
        BY <3>1 DEF Typed, TypeOK
      <3>4. new.due \in Day /\ 1 <= Runs(new.due) => InWindow(new)
        BY <1>2
      <3>5. CASE t # x \/ new = tasks[x]
        BY <3>2, <3>3, <3>5 DEF Spared
      <3>6. CASE t = x /\ new # tasks[x]
        BY <3>1, <3>2, <3>4, <3>6 DEF Spared
      <3> QED
        BY <3>5, <3>6
    <2> QED
      BY <2>1, <2>2, <2>3 DEF Begins, BeginCreate, LoadTask, Continues, SelectTask
  <1> QED
    BY <1>1, <1>3, AnnouncedApart

\* A task that is still to be announced is not past its day: marking does not
\* reach it, and unmarking does.
LEMMA DetectionAnnounced ==
  ASSUME Typed, Settled, Announced, Detects
  PROVE  Announced'
  <1>1. UNCHANGED <<now, reminders, mailed, late>> /\ \A d : Runs(d)' = Runs(d)
    BY DEF Detects, StartDetection, MarkOverdue, UnmarkOverdue, histories, Runs
  <1>2. ASSUME NEW t \in Task, Awaits(t), Runs(tasks[t].due) <= 2
        PROVE  /\ tasks[t] \in TaskRow /\ tasks[t].due \in Int /\ Today \in Int
               /\ Today < tasks[t].due /\ tasks[t].due # NoDay
    BY <1>2, Window, ConstantsAssumption DEF Awaits, Typed, TypeOK, Day
  <1>3. ASSUME NEW t \in Task, Awaits(t)', tasks'[t] = tasks[t]
        PROVE  Awaits(t) /\ Runs(tasks[t].due)' = Runs(tasks[t].due)
    BY <1>1, <1>3 DEF Awaits, Visible, Exists, Runs
  <1>4. CASE StartDetection
    <2>1. UNCHANGED tasks /\ detection'.pc = "mark"
      BY <1>4 DEF StartDetection
    <2> QED
      BY <1>1, <1>3, <2>1 DEF Announced
  <1>5. CASE MarkOverdue
    <2>1. /\ detection.day = Today /\ detection.pc = "mark" /\ detection'.pc = "unmark"
      BY <1>5 DEF MarkOverdue, Settled, Typed, TypeOK
    <2>2. ASSUME NEW t \in Task, Awaits(t)' PROVE Awaits(t) /\ tasks'[t] = tasks[t]
      <3> DEFINE over == Visible(tasks[t]) /\ tasks[t].due # NoDay /\ tasks[t].due < Today
      <3>1. tasks'[t] = IF over THEN [tasks[t] EXCEPT !.overdue = TRUE] ELSE tasks[t]
        BY <1>5, <2>1 DEF MarkOverdue
      <3>2. /\ tasks'[t].due = tasks[t].due /\ tasks'[t].assignee = tasks[t].assignee
            /\ Visible(tasks'[t]) <=> Visible(tasks[t])
        BY <3>1 DEF Typed, TypeOK, TaskRow, Visible, Exists
      <3>3. Awaits(t)
        BY <1>1, <2>2, <3>2 DEF Awaits, Visible, Exists, Runs
      <3>4. Runs(tasks[t].due) <= 2
        BY <3>3 DEF Announced
      <3>5. ~over
        BY <1>2, <3>3, <3>4
      <3> QED
        BY <3>1, <3>3, <3>5
    <2> QED
      BY <1>1, <1>3, <2>1, <2>2 DEF Announced
  <1>6. CASE UnmarkOverdue
    <2>1. detection.day = Today
      BY <1>6 DEF UnmarkOverdue, Settled
    <2>2. ASSUME NEW t \in Task, Awaits(t)'
          PROVE  /\ Awaits(t) /\ ~tasks'[t].overdue /\ tasks'[t].due = tasks[t].due
                 /\ Runs(tasks[t].due)' = Runs(tasks[t].due)
      <3> DEFINE notOver == Visible(tasks[t]) /\ (tasks[t].due = NoDay \/ tasks[t].due >= Today)
      <3>1. tasks'[t] = IF notOver THEN [tasks[t] EXCEPT !.overdue = FALSE] ELSE tasks[t]
        BY <1>6, <2>1 DEF UnmarkOverdue
      <3>2. /\ tasks'[t].due = tasks[t].due /\ tasks'[t].assignee = tasks[t].assignee
            /\ Visible(tasks'[t]) <=> Visible(tasks[t])
            /\ notOver => ~tasks'[t].overdue
        BY <3>1 DEF Typed, TypeOK, TaskRow, Visible, Exists
      <3>3. Awaits(t) /\ Runs(tasks[t].due)' = Runs(tasks[t].due)
        BY <1>1, <2>2, <3>2 DEF Awaits, Visible, Exists, Runs
      <3>4. Runs(tasks[t].due) <= 2
        BY <3>3 DEF Announced
      <3>5. notOver
        BY <1>2, <3>3, <3>4 DEF Awaits
      <3> QED
        BY <3>2, <3>3, <3>5
    <2> QED
      BY <1>1, <2>2 DEF Announced
  <1> QED
    BY <1>4, <1>5, <1>6 DEF Detects

LEMMA RunAnnounced ==
  ASSUME Typed, Reminded, Announced, Reminds
  PROVE  Announced'
  <1>1. UNCHANGED <<now, tasks, detection>>
    BY DEF Reminds, FindDueSoon, MailReminder, MailFails, InsertNotification
  <1>2. ASSUME NEW t \in Task, Awaits(t)', mailed[t] = 0, t \notin late
        PROVE  Awaits(t) /\ Runs(tasks[t].due)' = Runs(tasks[t].due) /\ tasks'[t] = tasks[t]
    BY <1>1, <1>2 DEF Awaits, Visible, Exists, Runs
  <1>3. \A todo : Rest(todo).todo = todo /\ Rest(todo).pc # "due"
    BY DEF Rest
  <1> DEFINE Still(t) ==
               /\ Awaits(t) /\ Runs(tasks[t].due)' = Runs(tasks[t].due) /\ tasks'[t] = tasks[t]
               /\ Runs(tasks[t].due) = 2 => <<t, tasks[t].due>> \in reminders'.todo
  <1>4. SUFFICES ASSUME NEW t \in Task, Awaits(t)' PROVE Still(t)
    BY <1>1 DEF Announced
  <1>5. CASE FindDueSoon({<<x, tasks[x].due>> : x \in DueSoon})
    <2> DEFINE todo == {<<x, tasks[x].due>> : x \in DueSoon}
    <2>1. reminders' = Rest(todo) /\ UNCHANGED <<mailed, late>>
      BY <1>5 DEF FindDueSoon, histories
    <2>2. Awaits(t) /\ Runs(tasks[t].due)' = Runs(tasks[t].due) /\ tasks'[t] = tasks[t]
      BY <1>2, <1>4, <2>1 DEF Awaits
    <2>3. ASSUME Runs(tasks[t].due) = 2 PROVE t \in DueSoon
      <3>1. tasks[t].due # NoDay /\ tasks[t].due \in Int /\ Today \in Nat /\ Today < tasks[t].due
            /\ tasks[t].due <= Today + 1
        <4>1. tasks[t].due \in Day
          BY <2>2 DEF Awaits
        <4>2. Runs(tasks[t].due) \in Int /\ Today \in Nat
          BY <4>1, Window DEF Typed
        <4>3. Today < tasks[t].due /\ tasks[t].due <= Today + 1
          BY <2>3, <4>1, Window DEF Typed
        <4> QED
          BY <4>1, <4>2, <4>3, ConstantsAssumption DEF Day
      <3>2. ~tasks[t].overdue
        BY <2>2, <2>3 DEF Announced
      <3>3. Visible(tasks[t]) /\ tasks[t].assignee # Nobody
        BY <2>2 DEF Awaits
      <3> QED
        BY <3>1, <3>2, <3>3 DEF DueSoon, InWindow, PastDue
    <2> QED
      BY <1>3, <2>1, <2>2, <2>3
  <1>6. ASSUME NEW x \in reminders.todo, MailReminder(x) PROVE Still(t)
    <2>1. x[1] \in Task /\ x = <<x[1], x[2]>>
      BY <1>6 DEF Typed, TypeOK, Listed
    <2>2. /\ reminders.pc = "mail" /\ reminders'.todo = reminders.todo \ {x} /\ UNCHANGED late
          /\ mailed' = IF tasks[x[1]].due = x[2] THEN [mailed EXCEPT ![x[1]] = @ + 1] ELSE mailed
      BY <1>6 DEF MailReminder
    <2>3. mailed'[t] = 0 /\ t \notin late'
      BY <1>4 DEF Awaits
    <2>4. mailed[t] = 0 /\ <<t, tasks[t].due>> # x
      BY <2>1, <2>2, <2>3 DEF Typed, TypeOK
    <2>5. Awaits(t) /\ Runs(tasks[t].due)' = Runs(tasks[t].due) /\ tasks'[t] = tasks[t]
      BY <1>2, <1>4, <2>2, <2>3, <2>4
    <2> QED
      BY <2>2, <2>4, <2>5 DEF Announced
  <1>7. ASSUME NEW x \in reminders.todo, MailFails(x) PROVE Still(t)
    <2>1. reminders.pc = "mail" /\ reminders'.todo = reminders.todo \ {x} /\ late' = late \cup {x[1]} /\ UNCHANGED mailed
      BY <1>3, <1>7 DEF MailFails
    <2>2. mailed'[t] = 0 /\ t \notin late'
      BY <1>4 DEF Awaits
    <2>3. Awaits(t) /\ Runs(tasks[t].due)' = Runs(tasks[t].due) /\ tasks'[t] = tasks[t]
      BY <1>2, <1>4, <2>1, <2>2
    <2>4. <<t, tasks[t].due>> # x
      BY <2>1, <2>2
    <2> QED
      BY <2>1, <2>3, <2>4 DEF Announced
  <1>8. CASE InsertNotification
    <2>1. reminders.pc = "note" /\ reminders'.todo = reminders.todo /\ UNCHANGED <<late, mailed>>
      BY <1>3, <1>8 DEF InsertNotification, histories
    <2>2. Awaits(t) /\ Runs(tasks[t].due)' = Runs(tasks[t].due) /\ tasks'[t] = tasks[t]
      BY <1>2, <1>4, <2>1 DEF Awaits
    <2> QED
      BY <2>1, <2>2 DEF Announced
  <1> QED
    BY <1>5, <1>6, <1>7, <1>8 DEF Reminds

LEMMA ClockAnnounced ==
  ASSUME Typed, Typed', Reminded, Announced, Tick \/ Down \/ Restart
  PROVE  Announced'
  <1>1. UNCHANGED <<tasks, mailed>>
    BY DEF Tick, Down, Restart, histories
  <1>2. ASSUME NEW t \in Task, Awaits(t)'
        PROVE  /\ t \notin late' /\ mailed[t] = 0 /\ Visible(tasks[t]) /\ tasks[t].assignee # Nobody
               /\ tasks[t].due \in Day /\ tasks'[t] = tasks[t]
               /\ now \in Nat /\ now' \in Nat /\ tasks[t].due # NoDay
    BY <1>1, <1>2, ConstantsAssumption DEF Awaits, Visible, Exists, Typed, TypeOK, Day
  <1>3. CASE Tick
    <2>1. /\ reminders.pc = "idle" /\ detection.pc = "idle" /\ ~detection.due /\ now' = now + 1
          /\ late' = IF up THEN late ELSE late \cup {t \in Task : InWindow(tasks[t])'}
          /\ up => reminders'.pc = "due" /\ detection'.due
      BY <1>3 DEF Tick, Typed, TypeOK
    <2>2. reminders.todo = {}
      BY <2>1 DEF Reminded
    <2>3. SUFFICES ASSUME NEW t \in Task, Awaits(t)'
                   PROVE  \/ Runs(tasks[t].due)' = 1 /\ detection'.due
                          \/ /\ Runs(tasks[t].due)' = 2 /\ ~tasks'[t].overdue
                             /\ reminders'.pc = "due"
      BY DEF Announced
    <2> DEFINE d == tasks[t].due
               runs == now - (d - 1) * RunsPerDay + 1
               next == now' - (d - 1) * RunsPerDay + 1
    <2>4. PICK day \in Day : day = d /\ day = tasks'[t].due
      BY <1>2, <2>3
    <2>5. /\ runs \in Int /\ next \in Int
          /\ 1 <= next <=> day <= Today' + 1
      BY <1>2, <2>3, <2>4, WindowOf DEF Today
    <2>6. Runs(d) = runs /\ Runs(d)' = next
      BY <2>4 DEF Runs
    <2>7. next = runs + 1
      BY <1>2, <2>1, <2>3, <2>4, <2>5, ConstantsAssumption DEF Day
    <2>8. 1 <= next
      BY <2>3, <2>6 DEF Awaits
    <2> HIDE DEF runs, next
    <2>9. up
      <3>1. InWindow(tasks[t])'
        BY <1>2, <2>3, <2>4, <2>5, <2>8 DEF InWindow
      <3> QED
        BY <1>2, <2>1, <2>3, <3>1
    <2>10. t \notin late
      BY <1>2, <2>1, <2>3, <2>9
    <2>11. CASE runs < 1
      BY <2>1, <2>5, <2>6, <2>7, <2>8, <2>9, <2>11
    <2>12. CASE 1 <= runs
      <3>1. Awaits(t)
        BY <1>2, <2>3, <2>6, <2>10, <2>12 DEF Awaits
      <3>2. runs <= 2 /\ runs # 2 /\ (runs = 1 => ~tasks[t].overdue)
        BY <2>1, <2>2, <2>6, <3>1 DEF Announced
      <3> QED
        BY <1>2, <2>1, <2>3, <2>5, <2>6, <2>7, <2>9, <2>12, <3>2
    <2> QED
      BY <2>5, <2>11, <2>12
  <1>4. CASE Down
    <2> DEFINE cut == reminders.pc # "idle" \/ detection.pc # "idle" \/ detection.due
    <2>1. /\ now' = now /\ late' = IF cut THEN late \cup {t \in Task : InWindow(tasks[t])} ELSE late
      BY <1>4 DEF Down
    <2>2. ASSUME NEW t \in Task, Awaits(t)'
          PROVE  /\ Runs(tasks[t].due)' = 1 /\ ~tasks'[t].overdue
      <3>1. Runs(tasks[t].due)' = Runs(tasks[t].due) /\ 1 <= Runs(tasks[t].due)
        BY <1>2, <2>1, <2>2 DEF Awaits, Runs
      <3>2. InWindow(tasks[t])
        BY <1>2, <2>2, <3>1, Window DEF InWindow, Typed
      <3>3. ~cut /\ Awaits(t)
        BY <1>2, <2>1, <2>2, <3>1, <3>2 DEF Awaits
      <3>4. reminders.todo = {}
        BY <3>3 DEF Reminded
      <3>5. Runs(tasks[t].due) \in Int
        BY <1>2, <2>2, Window DEF Typed
      <3> QED
        BY <1>2, <2>2, <3>1, <3>3, <3>4, <3>5 DEF Announced
    <2> QED
      BY <2>2 DEF Announced
  <1>5. CASE Restart
    BY <1>5, AnnouncedApart DEF Restart, jobs, histories, Spared
  <1> QED
    BY <1>3, <1>4, <1>5

\* A due day that comes up when nobody is looking is announced: whoever is assigned
\* the task has been mailed before the day begins, whatever saves and detections
\* overlap the runs, unless the task was given its day, assignee or flag within the
\* window, or a mail failed or a run was lost in it.
THEOREM DeadlinesAreAnnounced == Spec => []DeadlinesAnnounced
  <1> DEFINE Inv == Typed /\ Settled /\ Reminded /\ Announced
  <1>1. Init => Inv
    <2> SUFFICES ASSUME Init PROVE Inv
      OBVIOUS
    <2>1. Settled
      BY DEF Init, Settled, Visible, Exists, NoTaskRow
    <2>2. \A t \in Task : mailed[t] = 0 /\ ~Visible(tasks[t])
      BY DEF Init, NoTaskRow, Visible, Exists
    <2> QED
      BY <2>1, <2>2, InitTyped, ConstantsAssumption DEF Init, Reminded, Announced, Awaits
  <1>2. Inv /\ [Next]_vars => Inv'
    <2> SUFFICES ASSUME Inv, [Next]_vars PROVE Inv'
      OBVIOUS
    <2>1. Typed'
      BY NextTyped
    <2>2. CASE Next
      BY <2>1, <2>2, RequestSettled, DetectionSettled, OthersSettled, RequestReminded, RunReminded, ClockReminded,
         RequestAnnounced, DetectionAnnounced, RunAnnounced, ClockAnnounced DEF Next
    <2>3. CASE UNCHANGED vars
      BY <2>1, <2>3, SettledApart, RemindedApart, AnnouncedApart DEF vars, jobs, histories, Today, Spared
    <2> QED
      BY <2>2, <2>3
  <1>3. Inv => DeadlinesAnnounced
    <2> SUFFICES ASSUME Inv, NEW t \in Task, Visible(tasks[t]), tasks[t].assignee # Nobody, Begun(tasks[t].due),
                        mailed[t] = 0, t \notin late
                 PROVE  FALSE
      BY DEF DeadlinesAnnounced, Typed, TypeOK
    <2>1. tasks[t].due \in Day /\ Today \in Nat /\ tasks[t].due <= Today
      BY TodayType DEF Begun, Typed, TypeOK, TaskRow, Day
    <2>2. 1 <= Runs(tasks[t].due) /\ ~(Runs(tasks[t].due) <= 2)
      BY <2>1, Window DEF Typed, Day
    <2> QED
      BY <2>1, <2>2 DEF Announced, Awaits
  <1> QED
    BY <1>1, <1>2, <1>3, PTL DEF Spec
==============================================================================
