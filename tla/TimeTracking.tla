---------------------------- MODULE TimeTracking ----------------------------
(***************************************************************************)
(* Timers and manual time entries: time-entries.service.ts, with the saves  *)
(* of whole task rows by tasks.service.ts, which also write the total that  *)
(* this service keeps in tasks.total_time_logged.                           *)
(*                                                                          *)
(* As in TaskBoard a request in flight is a record whose pc names its next  *)
(* statement.  A lookup that refuses a request (no such task or entry, an   *)
(* entry of another user, a timer running already or not at all) changes    *)
(* nothing and is left out.  Descriptions and logged_at are left out.       *)
(*                                                                          *)
(* A definition named X_fault, before X, is a plausible error in the code X *)
(* models; no definition uses it.                                           *)
(***************************************************************************)
EXTENDS Integers, FiniteSets, FiniteSetsExt, TypeOrm

CONSTANTS
    Entry, Task, User,   \* ids: time entries, tasks, users
    Request,             \* slots for requests in flight
    Durations,           \* the durationSeconds clients send
    TicksPerSecond,      \* ticks of the clock in a second
    MaxClock,            \* bound on the clock
    CanAbort,            \* may a request die between two statements
    Never, NoEntry, NoTask, NoUser

ASSUME ConstantsAssumption ==
    /\ Durations \subseteq Nat /\ MaxClock \in Nat /\ TicksPerSecond \in Nat \ {0}
    /\ Never \notin Nat /\ CanAbort \in BOOLEAN
    /\ NoEntry \notin Entry /\ NoTask \notin Task /\ NoUser \notin User
    /\ User \cap Task = {} /\ NoTask \notin User /\ NoUser \notin Task

VARIABLES
    entries,    \* the table time_entries
    totals,     \* tasks.total_time_logged
    clock,      \* the server's clock
    requests,   \* what each request in flight is about to do and has read
    sums,       \* the total each request in flight is about to store
    overlapped  \* History: users and tasks that two requests at a time were for,
                \* and tasks a request for which died

vars == <<entries, totals, clock, requests, sums, overlapped>>

------------------------------------------------------------------------------
(* Tables and requests in flight *)

Time == Nat \cup {Never}

EntryRow == [row: RowState, task: Task \cup {NoTask}, user: User \cup {NoUser},
             type: {"manual", "timer"}, duration: Nat, started: Time, ended: Time]

NoEntryRow == [row |-> "none", task |-> NoTask, user |-> NoUser, type |-> "manual",
               duration |-> 0, started |-> Never, ended |-> Never]

\* The timers findOne may return: it gives one of them, in no order.
RunningTimers_ended(u) ==
    {e \in Entry : Exists(entries[e]) /\ entries[e].user = u /\ entries[e].type = "timer"}
RunningTimers(u) ==
    {e \in Entry : /\ Exists(entries[e]) /\ entries[e].user = u
                   /\ entries[e].type = "timer" /\ entries[e].ended = Never}

\* SUM(duration_seconds): running timers have a duration of 0 until they stop.
Logged(t) ==
    MapThenSumSet(LAMBDA e : entries[e].duration,
                  {e \in Entry : Exists(entries[e]) /\ entries[e].task = t})

Kind == {"create", "update", "delete", "start", "stop", "taskSave"}
PC == {"idle", "insert", "select", "write", "remove", "sum", "store",
       "taskSelect", "taskWrite"}

RequestState ==
    [kind: Kind \cup {"none"}, pc: PC, user: User \cup {NoUser}, task: Task \cup {NoTask},
     entry: Entry \cup {NoEntry}, entity: EntryRow, plan: SUBSET DOMAIN NoEntryRow,
     writesTotal: BOOLEAN]

Idle == [kind |-> "none", pc |-> "idle", user |-> NoUser, task |-> NoTask,
         entry |-> NoEntry, entity |-> NoEntryRow, plan |-> {},
         writesTotal |-> FALSE]

TypeOK ==
    /\ entries \in [Entry -> EntryRow]
    /\ totals \in [Task -> Nat]
    /\ clock \in 0..MaxClock
    /\ requests \in [Request -> RequestState]
    /\ sums \in [Request -> Nat]
    /\ overlapped \in SUBSET (User \cup Task)

Init ==
    /\ entries = [e \in Entry |-> NoEntryRow]
    /\ totals = [t \in Task |-> 0]
    /\ clock = 0
    /\ requests = [r \in Request |-> Idle]
    /\ sums = [r \in Request |-> 0]
    /\ overlapped = {}

Concerns(q) == {q.user, q.task} \ {NoUser, NoTask}

Becomes(r, q) ==
    /\ requests' = [requests EXCEPT ![r] = q]
    /\ overlapped' = overlapped \cup
            (Concerns(q) \cap UNION {Concerns(requests[s]) : s \in Request \ {r}})

Ends(r) == Becomes(r, Idle)

------------------------------------------------------------------------------
(* The entity a handler is about to insert or save *)

\* What create and startTimer insert.
NewEntry(u, t, type, seconds, started) ==
    [row |-> "there", task |-> t, user |-> u, type |-> type,
     duration |-> seconds, started |-> started, ended |-> Never]

\* Math.floor of the elapsed milliseconds / 1000
StoppedTimer(entity, now) ==
    [entity EXCEPT !.ended = now, !.duration = (now - entity.started) \div TicksPerSecond]

------------------------------------------------------------------------------
(* Handlers *)

BeginCreate(r, u, t, seconds) ==
    /\ requests[r].pc = "idle" /\ seconds > 0
    /\ Becomes(r, [Idle EXCEPT !.kind = "create", !.pc = "insert", !.user = u, !.task = t,
                               !.entity = NewEntry(u, t, "manual", seconds, Never)])
    /\ UNCHANGED <<entries, totals, clock, sums>>

MayStart_lookingForManual(u) ==
    \A e \in Entry : Exists(entries[e]) /\ entries[e].user = u /\ entries[e].type = "manual"
                        => entries[e].ended # Never
MayStart(u) == RunningTimers(u) = {}

\* startTimer: no running timer was found; startedAt is read from the clock
\* before the INSERT.
FindNoRunning(r, u, t) ==
    /\ requests[r].pc = "idle" /\ MayStart(u)
    /\ Becomes(r, [Idle EXCEPT !.kind = "start", !.pc = "insert", !.user = u, !.task = t,
                               !.entity = NewEntry(u, t, "timer", 0, clock)])
    /\ UNCHANGED <<entries, totals, clock, sums>>

\* The handlers that end with updateTaskTimeLogged; startTimer does not.
UpdatesTotal_notOnDelete(kind) == kind \in {"create", "update", "stop"}
UpdatesTotal(kind) == kind \in {"create", "update", "delete", "stop"}

\* The statement that changed the entry is done.
Proceeds(r) ==
    IF UpdatesTotal(requests[r].kind)
    THEN Becomes(r, [requests[r] EXCEPT !.pc = "sum", !.plan = {}, !.entity = NoEntryRow])
    ELSE Ends(r)

InsertEntry(r, e) ==
    LET q == requests[r]
    IN /\ q.pc = "insert" /\ entries[e].row = "none"
       /\ entries' = [entries EXCEPT ![e] = q.entity]
       /\ Proceeds(r)
       /\ UNCHANGED <<totals, clock, sums>>

\* update and delete are for the user of the entry.
OwnEntry_any(e, u) == Exists(entries[e])
OwnEntry(e, u) == Exists(entries[e]) /\ entries[e].user = u

\* dto.durationSeconds is optional: without it the duration stays as loaded.
LoadToUpdate(r, u, e, seconds) ==
    /\ requests[r].pc = "idle" /\ OwnEntry(e, u)
    /\ Becomes(r, [Idle EXCEPT !.kind = "update", !.pc = "select", !.user = u,
                               !.task = entries[e].task, !.entry = e,
                               !.entity = [entries[e] EXCEPT !.duration = seconds]])
    /\ UNCHANGED <<entries, totals, clock, sums>>

LoadToDelete(r, u, e) ==
    /\ requests[r].pc = "idle" /\ OwnEntry(e, u)
    /\ Becomes(r, [Idle EXCEPT !.kind = "delete", !.pc = "remove", !.user = u,
                               !.task = entries[e].task, !.entry = e])
    /\ UNCHANGED <<entries, totals, clock, sums>>

\* stopTimer
FindRunning(r, u, e) ==
    /\ requests[r].pc = "idle" /\ e \in RunningTimers(u)
    /\ Becomes(r, [Idle EXCEPT !.kind = "stop", !.pc = "select", !.user = u,
                               !.task = entries[e].task, !.entry = e,
                               !.entity = StoppedTimer(entries[e], clock)])
    /\ UNCHANGED <<entries, totals, clock, sums>>

\* save: the SELECT ...
SelectEntry(r) ==
    LET q == requests[r]
    IN /\ q.pc = "select"
       /\ Becomes(r, [q EXCEPT !.pc = "write", !.plan = SavePlan(q.entity, entries[q.entry])])
       /\ UNCHANGED <<entries, totals, clock, sums>>

SavedEntry(plan, entity, r) ==
    LET saved(f) == Written(f, plan, entity, r)
    IN [row |-> saved("row"), task |-> saved("task"), user |-> saved("user"),
        type |-> saved("type"), duration |-> saved("duration"),
        started |-> saved("started"), ended |-> saved("ended")]

\* ... and the UPDATE or INSERT.
WriteEntry(r) ==
    LET q == requests[r]
        old == entries[q.entry]
        fails == SaveFails(q.plan, old)
    IN /\ q.pc = "write"
       /\ entries' = IF SaveHits(q.plan, old) /\ ~fails
                     THEN [entries EXCEPT ![q.entry] = SavedEntry(q.plan, q.entity, old)]
                     ELSE entries
       /\ IF fails THEN Ends(r) ELSE Proceeds(r)
       /\ UNCHANGED <<totals, clock, sums>>

\* A DELETE by id; the row may be gone already.
RemoveEntry(r) ==
    LET q == requests[r]
    IN /\ q.pc = "remove"
       /\ entries' = IF Exists(entries[q.entry])
                     THEN [entries EXCEPT ![q.entry] = [NoEntryRow EXCEPT !.row = "removed"]]
                     ELSE entries
       /\ Proceeds(r)
       /\ UNCHANGED <<totals, clock, sums>>

\* updateTaskTimeLogged: SELECT SUM ...
SumEntries(r) ==
    LET q == requests[r]
    IN /\ q.pc = "sum"
       /\ sums' = [sums EXCEPT ![r] = Logged(q.task)]
       /\ Becomes(r, [q EXCEPT !.pc = "store"])
       /\ UNCHANGED <<entries, totals, clock>>

\* ... and UPDATE tasks.
StoreTotal(r) ==
    LET q == requests[r]
    IN /\ q.pc = "store"
       /\ totals' = [totals EXCEPT ![q.task] = sums[r]]
       /\ sums' = [sums EXCEPT ![r] = 0]
       /\ Ends(r)
       /\ UNCHANGED <<entries, clock>>

------------------------------------------------------------------------------
(* tasks.service.ts: every handler that changes a task saves the row it loaded. *)

LoadTask(r, t) ==
    /\ requests[r].pc = "idle"
    /\ Becomes(r, [Idle EXCEPT !.kind = "taskSave", !.pc = "taskSelect", !.task = t])
    /\ sums' = [sums EXCEPT ![r] = totals[t]]
    /\ UNCHANGED <<entries, totals, clock>>

SelectTask(r) ==
    LET q == requests[r]
    IN /\ q.pc = "taskSelect"
       /\ Becomes(r, [q EXCEPT !.pc = "taskWrite", !.writesTotal = sums[r] # totals[q.task]])
       /\ UNCHANGED <<entries, totals, clock, sums>>

WriteTask(r) ==
    LET q == requests[r]
    IN /\ q.pc = "taskWrite"
       /\ totals' = IF q.writesTotal THEN [totals EXCEPT ![q.task] = sums[r]] ELSE totals
       /\ sums' = [sums EXCEPT ![r] = 0]
       /\ Ends(r)
       /\ UNCHANGED <<entries, clock>>

------------------------------------------------------------------------------

Tick ==
    /\ clock < MaxClock
    /\ clock' = clock + 1
    /\ UNCHANGED <<entries, totals, requests, sums, overlapped>>

\* The process dies, or a statement fails, and the rest of the request with it.
Abort(r) ==
    /\ CanAbort /\ requests[r].pc # "idle"
    /\ requests' = [requests EXCEPT ![r] = Idle]
    /\ sums' = [sums EXCEPT ![r] = 0]
    /\ overlapped' = overlapped \cup {requests[r].task}
    /\ UNCHANGED <<entries, totals, clock>>

Step(r) ==
    \/ \E u \in User, t \in Task, s \in Durations : BeginCreate(r, u, t, s)
    \/ \E u \in User, t \in Task : FindNoRunning(r, u, t)
    \/ \E e \in Entry : InsertEntry(r, e)
    \/ \E u \in User, e \in Entry :
          \/ \E s \in Durations \cup {entries[e].duration} : LoadToUpdate(r, u, e, s)
          \/ LoadToDelete(r, u, e)
          \/ FindRunning(r, u, e)
    \/ SelectEntry(r)
    \/ WriteEntry(r)
    \/ RemoveEntry(r)
    \/ SumEntries(r)
    \/ StoreTotal(r)
    \/ \E t \in Task : LoadTask(r, t)
    \/ SelectTask(r)
    \/ WriteTask(r)
    \/ Abort(r)

Next == Tick \/ \E r \in Request : Step(r)

Spec == Init /\ [][Next]_vars

------------------------------------------------------------------------------
(* Properties *)

\* time-entries.service update, delete, stopTimer: however requests interleave,
\* every change of a row of time_entries is made by a request of the user the
\* entry belongs to, and no request gives the entry to another user or task.
OnlyItsUserChanges ==
    [][\A e \in Entry : entries[e]' # entries[e] /\ Exists(entries[e]) =>
        /\ \E r \in Request : /\ requests[r].entry = e /\ requests[r].pc # "idle"
                              /\ requests[r].user = entries[e].user
        /\ Exists(entries[e])' => /\ entries[e].user' = entries[e].user
                                  /\ entries[e].task' = entries[e].task]_vars

\* startTimer, stopTimer: a user no two of whose requests were in flight
\* together has at most one running timer.
OneTimerPerUser ==
    \A u \in User \ overlapped : Cardinality(RunningTimers(u)) <= 1

\* updateTaskTimeLogged, called by create, update, delete and stopTimer: the
\* total of a task is the sum of its entries whenever no request for it is in
\* flight, if no two ever overlapped and none died.
LoggedSettles ==
    \A t \in Task \ overlapped :
        (\A r \in Request : requests[r].task # t) => totals[t] = Logged(t)

\* stopTimer, update, delete: time that was logged is not lost: as long as the
\* requests of a user do not overlap, a stopped timer does not run again and
\* no entry comes back once it was deleted.
StoppedForGood ==
    [][\A e \in Entry :
        /\ /\ Exists(entries[e]) /\ entries[e].ended # Never /\ Exists(entries[e])'
           /\ entries[e].user \notin overlapped'
           => entries[e].ended' = entries[e].ended
        /\ entries[e].row = "removed" /\ Exists(entries[e])' =>
              \E r \in Request : requests[r].entry = e /\ requests[r].user \in overlapped]_vars

\* PROJECT_API, POST /time-entries/start: "You already have a running timer for
\* another task": no user has two running timers.
OneRunningTimer == \A u \in User : Cardinality(RunningTimers(u)) <= 1

=============================================================================
