# TaskBoard: specification and proofs

This directory is the verification project kept beside the TaskBoard
application: `src/backend`, a NestJS server over TypeORM and PostgreSQL, and two
React clients, `src/frontend` for users and `src/dashboard` for administrators.
It models the server's services and the clients' pages as TLA+ state machines,
model-checks them with TLC and proves with TLAPS, for every value of the
constants, what matters most about the server and about the pages.

Two habits of the code make it worth a model.  On the server every handler is a
sequence of `await`ed statements with no transaction around them: it loads an
entity, awaits a few lookups, changes the entity and saves *the whole of it*, and
derived numbers (`completion_percentage`, `total_time_logged`,
`progress_percentage`) are recomputed by a SELECT and stored by a later UPDATE.
Between any two statements those of other requests run, and a failure or a crash
leaves what was already written.  In the clients every page fetches when it
opens, sends what a button asks for, and applies each answer to whatever the
page has become by then; nothing is cancelled, and no socket is opened.  The
repository's tests exercise none of this.

## 1. Inventory

### 1.1 Components

| Component | State | Operations that change it | What is hard about it | What makes it correct |
|---|---|---|---|---|
| Tasks, `modules/tasks` | `tasks` (column, position, assignee, deleted_at, due date, is_overdue) | create, update, softDelete, move, assign, unassign, restore, permanentDelete, addLabel, removeLabel | stale whole-row saves; recount as the last of several statements; the trash against `@DeleteDateColumn`; foreign keys | a deleted task stays deleted; an edit changes its own columns only; a task a client was told of is not lost |
| Columns, `modules/columns` | `columns` (title, position, wip_limit) | create, update, delete, reorder | counting before removing; renumbering saves rows loaded earlier | no task in a column that is gone; positions are an order |
| Projects, `modules/projects` | `projects` (completion_percentage, status, deleted_at) | create, update, archive, restore, delete, inviteMembers, removeMember, updateCompletionPercentage | four-statement recount; project saves overwrite it; invitations nobody awaits | the stored completion is that of the board; one form makes one project |
| Members and invitations, `modules/project-members` | `project_members` (role, invitation_status, token) | acceptInvitation, declineInvitation, leaveProject | inviteMembers stores ACCEPTED at once; the unique pair (project, user) | only members act on a project; one row per user |
| Time entries, `modules/time-entries` | `time_entries`, `tasks.total_time_logged` | create, update, delete, startTimer, stopTimer | check-then-insert; SUM then UPDATE; stale saves restart timers | one running timer per user; the total is the sum; what is stopped stays so |
| Sub-tasks, `modules/sub-tasks` | `sub_tasks`, `tasks.progress_percentage` | create, update, delete, toggle, reorder | toggle negates a loaded value; reorder saves stale rows | progress is that of the checklist |
| Scheduled jobs, `cron/task-cron.service.ts` | `tasks.is_overdue`, `notifications`, the trash | sendDailyDigests, sendDeadlineReminders, cleanupOldTrash, detectOverdueTasks | jobs against edits; a window wider than the interval; one row that cannot go keeps all | expired trash goes; deadlines are announced, and not without end; flags become right |
| Board gateway, `websocket/board.gateway.ts` | in-memory presence per project | joinBoard, leaveBoard, disconnect, relays, the events of tasks.service | several sockets per user; restarts; events in another order than the saves | who is shown as present is connected; who follows a board shows it |
| One-time passwords, `modules/otp`; authentication, `modules/auth`, `infrastructure/token` | `otp`, `users.refresh_token`, `users.email_verified` | register, verify, login, refresh, logout, forgotPassword, resetPassword, changeUserPassword, social sign-in | one row per address shared by two flows; read, then remove; one refresh token per user | a code is used once; a session ends when it is ended |
| Users, `modules/users`, and administration, `modules/admin` | `users` (password, role, active, deleted_at, preferences) | updateProfile, updatePreferences, createUser, updateUser, suspendUser, deleteUser | saves of a whole user beside sign-ins and resets | a suspension, a role, a password and a deletion stand |
| Labels, `modules/labels` | `labels`, `task_labels` | seeding at start-up, create, update, delete; addLabel, removeLabel | seeding that stops half-way | the system's labels are there once |
| Comments and notifications, `modules/comments`, `modules/notifications` | `comments`, `notifications` | create, createReply, update, delete; markAsRead, markAllAsRead | several inserts, any of which may fail; an edit saved over a deletion | who is concerned is told, once; deleted comments stay deleted |
| Attachments, `modules/attachments` + `infrastructure/s3` | `attachments`, objects in the store | create, delete | two stores, no transaction | every row has its object |
| Web client, `src/frontend` | the redux slices, the state of each page, `localStorage`, the cookie | its pages' buttons and fetches | answers late, out of order or lost; two tabs; optimistic ticks | a page at rest shows what is stored, and to the one who is signed in |
| Admin dashboard, `src/dashboard` | the tables, a drawer, the overview | search, filter, page, activate, suspend, delete, create | fetches with the filters of an old click | the same |
| Activity logs, the demo of `modules/features`, mail, storage, HTTP framework | inserts, I/O | - | - | - |

### 1.2 Interactions

* Requests of all services meet in the tables.  Services do not lock rows, use
  no version columns and, but for the creation of a project and what `save` opens itself, no transactions.
* `tasks.service` calls `projects.service.updateCompletionPercentage` after
  create, softDelete, move and restore; no other operation that changes a board does.
* `tasks.service` saves whole rows of `tasks`, which also hold the totals that
  `time-entries.service` and `sub-tasks.service` store there and the flag that the
  hourly job sets.
* Activity logs, notifications, comments, attachments, time entries, sub-tasks
  and labels reference tasks by foreign keys, all ON DELETE NO ACTION
  (migration `1771403738826-SyncUserEntity.ts`, lines 103-127); nothing references `columns` from
  `tasks.column_id`.
* The jobs run in the server's process and meet requests at every statement.
* `tasks.service` tells the gateway of what it has done; the gateway tells the sockets in the
  room of the board.  Neither client of the repository opens a socket: a follower of a board is
  a client the gateway is made for, modelled as external.
* The clients talk to the server by HTTP only.  All pages of a tab share the slices of one store, all tabs
  of a browser the cookie and the user in `localStorage`.

`PROJECT.json` lists every component with its status, and under "hazards" the
places where the code is exposed, each at its line.

## 2. Modules

| Module | Models | Checked by run | Theorems in |
|---|---|---|---|
| `TypeOrm` | external: what one repository call does to one row (visibility of trashed rows, the SELECT and the statement of `save`, inserting a row that went missing) | all of the server | - |
| `TaskBoard` | tasks.service, columns.service, the saves and the recount of projects.service, cleanupOldTrash | `serial`, `counts`, `restore`, `purge` | `TaskBoard_proofs` |
| `TimeTracking` | time-entries.service with the task saves that meet it | `entries` | `TimeTracking_proofs` |
| `Membership` | project-members.service, inviteMembers and removeMember of projects.service | `extras` | `Extras_proofs` |
| `SubTasks` | sub-tasks.service: completion and the progress of the task, with the task saves that meet it | `extras` | `Extras_proofs` |
| `Accounts` | auth.service, otp.service, token.service, user.service, the users of admin.service | `accounts` | `Accounts_proofs` |
| `TaskCron` | sendDeadlineReminders and detectOverdueTasks against the saves of tasks.service | `jobs` | `TaskCron_proofs` |
| `BoardPresence` | board.gateway with ws-jwt.guard, its followers, and what tasks.service tells it | `presence` | `BoardPresence_proofs` |
| `Attachments` | attachments.service and s3.service | `extras` | `Extras_proofs` |
| `Discussions` | comments.service with the notifications it inserts | `extras` | `Extras_proofs` |
| `Labels` | labels.service, addLabel and removeLabel of tasks.service | `extras` | `Extras_proofs` |
| `OrderedList` | abstract: a list that rows are added to, taken out of and moved in | `extras` | `Extras_proofs` |
| `OrderedRows` | the positions of columns and of sub-tasks, in columns.service and sub-tasks.service; implements `OrderedList` | `extras` | `Extras_proofs` |
| `Extras` | `SubTasks`, `OrderedRows`, `Discussions`, `Attachments`, `Labels` and `Membership` side by side | `extras` | `Extras_proofs` |
| `ClientSession` | authSlice, the layouts of the web client, its login, sign-up, verification and reset pages, sign-out; the cookie as the server's interceptors set and remove it | `clients` | `Clients_proofs` |
| `BoardPage`, `TaskPage`, `SettingsPage` | board-view.tsx, task-detail.tsx, board-settings.tsx with the answers of the server to them | `clients` | `ProjectViews_proofs` |
| `ProjectPages`, `ProjectCreation` | projects-list.tsx, project-dashboard.tsx and projectSlice; project-creation.tsx with create of projects.service, its transaction and its invitations | `clients` | `Clients_proofs` |
| `ProfilePages`, `NotificationsPage` | profile.tsx, edit-profile.tsx, userSlice; notifications.tsx and its slice with notifications.service | `clients` | `Clients_proofs` |
| `CalendarPage`, `MyTasksPage` | calendar-view.tsx, my-tasks.tsx with time zones, and what tasks.service answers them | `clients` | `Clients_proofs` |
| `AdminTables`, `AdminOverview` | user-management.tsx, project-management.tsx, data-table.tsx; dashboard.tsx; both with admin.service | `clients` | `ProjectViews_proofs` |
| `Clients` | the twelve before it side by side, and what they promise together | `clients` | `Clients_proofs`, `ProjectViews_proofs` |

`MCTaskBoard`, `MCOverlaps`, `MCTimeTracking`, `MCAccounts`,
`MCTaskCron`, `MCBoardPresence`, `MCExtras` and `MCClients` are instances for TLC.  `Extras` puts six components of the server that share nothing
side by side, `Clients` the twelve client modules: a behaviour belongs to one of them (`part`), so that one run
explores each on its own.

### 2.1 How a handler becomes actions

`requests[r]` is the request in slot `r`: `pc` names the statement it runs next,
and the other fields are the local variables of the handler that are still to
be used.  One action is one awaited statement with the synchronous code after
it.  What a handler read stays in the record while others write: that is where
stale values come from.  A slot is freed at the end of a handler and may start another.

* `LoadTask, FindColumn | FindTarget, SelectTask, WriteTask, LogActivity`, then
  `ReadColumns, CountTotal, CountCompleted, WriteCompletion` are `move`, for example.
  `SelectTask`/`WriteTask` are the two statements of TypeORM's `save`: it
  reads the row, compares, and writes the columns that differ.
* `CheckOwnerToCreate, InsertColumn`; `LoadColumn` then `SelectColumn,
  WriteColumn` (update), `CountColumnTasks, RemoveColumn, FindSiblings,
  SelectSiblings, WriteSiblings` (delete), the last three (reorder).
* `LoadProject, SelectProject, WriteProject` are update, archive, restore and delete of a project.
* `CleanupOldTrash` is the job's one DELETE; `Expire` is thirty days passing.
* `Abort` is a failed statement or the death of the process between two statements.
* In `TimeTracking`: `BeginCreate, InsertEntry, SumEntries, StoreTotal` (create);
  `LoadToUpdate, SelectEntry, WriteEntry, ...` (update); `LoadToDelete, RemoveEntry,
  ...`; `FindNoRunning, InsertEntry` (startTimer); `FindRunning, SelectEntry, WriteEntry, ...`
  (stopTimer); `LoadTask, SelectTask, WriteTask`, the saves of tasks.service
  seen from `total_time_logged`.
* In `Membership`: `BeginInvite`, then for each registered address `FindMember,
  InsertMember` (inviteMembers, also as the unawaited tail of a project's create);
  `LoadToRemove | LoadToLeave, RemoveMember`; `LoadToAccept | LoadToDecline,
  SelectMember, WriteMember`.
* In `SubTasks`: `LoadToSave, SelectSubTask, WriteSubTask, FindSubTasks, StoreProgress` are
  update and toggle; `BeginCreate, InsertSubTask` and `LoadToDelete, RemoveSubTask` end with the last
  two as well; `LoadToReorder, FindSiblings, SelectSiblings, WriteSiblings` do not.
* In `OrderedRows`: `FindMaxPosition, InsertRow`; `LoadToDelete, RemoveRow` and, for columns,
  `FindSiblings, SelectSiblings, WriteSiblings`; `LoadToReorder` and the same three.
* In `Accounts`: a handler is a lookup or two (`pc` "idle"), then any of `SelectUser`, `WriteUser` (a save or an
  UPDATE: "write `plan` from `entity`"), `InsertUser`, `IssueToken`, and on the table of codes
  `InsertOtp`, `UpdateOtp`, `RemoveOtp`.  `Expire` is a code growing old.
* In `TaskCron`: the requests of tasks.service are `InsertTask, SelectTask, WriteTask`; the two jobs keep a `pc` of their
  own (`reminders`, `detection`); `Tick` is the time from one reminder run to the next, `Down` and `Restart` the process.
* In `BoardPresence`: the handlers of the gateway have no await and are one action each, messages included;
  the requests of tasks.service end with `Broadcast`.
* In the client modules: an action is an event of the page (a click, a timer, an answer) with all the synchronous code
  it runs, or `Serve...`, the moment the server answers.  A request is `sent`, `served`, then lands or is lost; `Fail` is
  a lost request and a lost answer both.

### 2.2 Abstractions

* The lookups of a handler before its first decision are one step, as are the
  insert of an activity log and that of the notification beside it (both
  only reference the task).  A refused request changes nothing and is `Reject` or left out.
* `deletedAt` is one of null, recent (up to thirty days) and expired, which is all a query
  tells apart.  `Expire` waits until no request works on the task: no request lasts thirty days.
* Titles of columns are "done" or "other" (`updateCompletionPercentage` looks for `Done`);
  titles of tasks, descriptions, priorities and colours are left out, and so are positions of tasks and the WIP limit,
  which `create` and `update` of a column store and no statement compares with anything.  Due dates are in `TaskCron`,
  labels in `Labels`, broadcasts in `BoardPresence`.
* `find` without an order returns any of several done columns, and `findOne` any
  running timer: a nondeterministic choice.
* `Percent` rounds half up, as `Math.round(completed / total * 100)` does; the
  division in floating point first differs at totals of 40, far beyond the bounds.  A recount overtaken
  by others may count more completed than total tasks and store more than 100.
* Time-tracking measures the clock in ticks, `TicksPerSecond` of them to a
  second, so that the floor in `stopTimer` is a floor.
* `Membership` is one project.  A token is a uuid of its own row, so a row only says whether it
  has one; an address without an account only gets a mail and is left out.
* `SubTasks` is one task.  `OrderedRows` has no row whose position the client named at its creation:
  the web client names none, and `find` returns rows of equal positions in any order.
* `Accounts` names a password by its text, a code by its issue (two issues never have equal digits) and a refresh
  token by its text.  Of the names, photos and preferences of a user nothing depends, so that a save of the profile is a save that sets
  nothing.  What a social provider answers is an input.  A request that is refused before it changed anything is left out, and so are three operations
  that always are: `changePassword` of auth.service, the sign-up of `socialLogin` (its `getNextAvailableSlug` queries a column users have not),
  and `createUser` of user.service.  An administrator's `createUser` and the seed of the first administrator are in.
* `TaskCron` numbers time in reminder runs, `RunsPerDay` to a day; an hourly detection runs at each and may run in between.  A due
  date is a day.  `sendDailyDigests` reads and mails and is left out.
* `BoardPresence` delivers the messages of one step in the order they were emitted and before the next step: socket.io keeps the order per
  socket, and a follower that hears later shows what it would have shown earlier.
* The client modules keep of the answers what is shown: rows are ids with the one field a property is about.  The server is one
  atomic step per request there, because its interleavings are the subject of the modules above; `ProjectCreation` and
  `AdminOverview`, which are about the statements of one request, keep them apart.  Layout, wording and validation that only
  refuses are left out.

### 2.3 Histories

Variables that no action reads, for the properties only; each names the causes a property excuses.
`told` (the last answer a client got about a task), `changedBy` (which kind of request last changed a
board that has not been counted since) and `fresh` (recounts that no change has overtaken) in `TaskBoard`; `fresh` and `blame` of
`SubTasks` likewise; `overlapped` in `TimeTracking` (users and tasks two requests were for at
once, and tasks a request for which died); `told`, `overtaken`, `exposed`, `proved` and `renamed` among those of `Accounts`; `mailed`, `late`, `disturbed` in
`TaskCron`; `confused`, `crossed`, `strayed`, `misled` in `BoardPresence`; `orphans`, `broken`, `interrupted`, `owed`, `cut`, `crossed` in the modules of `extras`; and the
variables marked "history" in the client modules.

## 3. Runs

| Run | Checks | Result |
|---|---|---|
| `serial` | `RecountsSettle`, `DeletedStaysDeleted`, `NoTaskWithoutColumn`, `EditsItsOwnColumns` | hold: one request after the other, the services keep their promises, but for the boards `move` and column edits do not recount |
| `counts` | `CountedIsExact`, `AnsweredTasksPersist` | hold with two overlapping requests: a wrong completion always has an overtaken recount or save, or an uncounted change, to blame, and a task a client was told of stays although requests die and the purge runs |
| `entries` | `OneTimerPerUser`, `LoggedSettles`, `OnlyItsUserChanges`, `StoppedForGood` | hold with two requests at a time, task saves and aborts |
| `accounts` | `SettingsStand`, `CodesServeOnce`, `VerifiedWasProved`, `OnlySignInsOpenSessions` | hold with two requests at a time and aborts, in ten mixes of handlers |
| `jobs` | `FlagsSettled`, `DeadlinesAnnounced`, `RemindersBounded`, `FlagsBecomeRight` | hold over three days with requests, failing mails, lost runs and restarts; the last is a liveness property |
| `presence` | `MapIsRooms`, `SeenArePresent`, `ShownIsStored` | hold with three sockets of two users on two boards, expiring tokens, restarts, and relays of anything to any board |
| `extras` | `BoardIsList`, `ChecklistIsList`, `ConcernedAreTold`, `DeletedCommentsStay`, `StoresAgree`, `SeededOnce`, `ProgressIsExact`, `OwnerIsMember`, `OneRowPerUser`, `OnlyInvitationsAdmit` | hold, each in the part it is about; the first two are refinements of `OrderedList`; members with three requests at a time and aborts |
| `clients` | `ProfileSettles`, `AdminSettles`, `BoardSettles`, `TaskSettles`, `SettingsSettle`, `ProjectsSettle`, `SessionSettles`, `NotificationsSettle`, `DatesSettle` | hold: what a page at rest shows is what is stored, up to causes that the properties name |
| `restore` | `RestoreFindsTrash` | violated: no trashed task can be restored |
| `purge` | `TrashIsEmptied` | violated: an expired task is never purged |

The last two are disagreements between the code and a sentence of the
repository's documentation, which `PROJECT.json` quotes.  Types are part of the proved invariant of each of
the components with theorems; the `TypeOK` of the other modules is there to be checked while they change.

**restore.** `restore` asks for `deletedAt: Not(IsNull())` without
`withDeleted`, and TypeORM adds `deletedAt IS NULL` for an entity with a
`@DeleteDateColumn`.  The conjunction is empty.  The query of the trash page has the same hole.

**purge.** `softDelete` itself inserts an activity log that references the
task, so the job's DELETE fails on the foreign key, for this task and for all
others that expired with it.  The same reason makes `AnsweredTasksPersist` true.

**serial, counts.** A move to another project's column recounts the target project only; `CountedIsExact` names
this among the changes that nothing counts (`movedAway`).  That requests must not overlap for the properties of `serial` is no caution:
update loads the task, softDelete commits and is answered, update's `save` reads the row, sees that `deleted_at` differs from the
loaded NULL and writes NULL, and the task is back.

**entries.** Two overlapping starts of one user make two timers, against the message
"You already have a running timer for another task" (`OneRunningTimer`, which no run checks); `OneTimerPerUser` is what is left.

**accounts.** A whole-row save of a profile that loaded the user before a suspension, a reset or a deletion takes it back (`overtaken`);
nothing else does.  It does not bring an old refresh token back, because the column is not selected when
the user is loaded (`Hidden`), which is what `OnlySignInsOpenSessions` rests on.  A code can serve twice only where two requests
hold it, or one died between using it and removing it (`exposed`).

**jobs.** `tasks.service` calls a task overdue as soon as its day begins, the job when it is over; a save stores the flag it loaded; `update`
keeps the flag of a task whose date it takes away.  `FlagsSettled` says that nothing else disturbs a flag the job has settled,
`FlagsBecomeRight` that the job settles all of them once they are left alone.  A task is reminded of at each of the runs of two days, up to eight times.

**presence.** `user:left` is sent when one of several sockets of a user leaves (`confused`); two saves of one task may be told in the other
order (`crossed`); a board a task leaves for another project is not told (`strayed`).  The relays of the gateway look at the token of the sender only: any signed-in client,
on the board or not, can tell its followers any place of a task, and `Relay` lets it.  A follower told what is not so is `misled`, and `ShownIsStored`
says for how long: until a service's next event of the task, a relay that is so, or the next join.

**extras.** The list of a parent is its rows by position (`ListOf`).  `InsertRow` is `Add`, `RemoveRow`
is `Take`, the `WriteSiblings` of a reorder is `Move`, all else is a stutter: also the renumbering that
follows a column's deletion, and the gap that a sub-task's deletion or a request that died leaves.
`create` uses MAX + 1 and not the count, which is what `ChecklistIsList` rests on.  A seeding that an insert ended half-way is never taken up again.
In `SubTasks` `FindSubTasks` reads all sub-tasks in one statement, so that, unlike the completion
of a project, the percentage never exceeds 100 and is that of a checklist that was.  It is wrong only
for four reasons: a later change overtook a percentage that was stored last, a request died before it
stored one, a reorder or a task save wrote rows back that it loaded earlier.

**extras, members.** `inviteMembers` stores ACCEPTED under the comment "Create member
with pending status".  The invited user is a member at once; the accept of the
mailed link is always refused (`EveryAcceptIsRefused`), and declining it turns a member out.

**clients.** Each `...Settle` is the conjunction of what its page promises; the comment above each conjunct in the page's module
names its exceptions.  The lists of projects, of a column's tasks, of "my tasks" and of notifications are the first page the server answers, and their pages
ask for no other.  Among the exceptions: an answer to an older fetch fills the page of a newer one (board, calendar, project pages); a task added
while the board is fetched disappears from it; a tick is turned round when its answer is lost; the columns' limit of two is checked against
what the page shows; a sign-in elsewhere is noticed at the next check only.

### 3.1 Bounds, and why they are enough

* One slot (`serial`, the lists of `extras`, `restore`, `purge`) is exactly "requests do not overlap".  Two
  slots show every race of a pair of handlers; a third request finds the slot
  of one that has ended, so chains of requests around one slow request are
  covered.  The theorems of section 4 hold for any number of slots, or say that there is one.
* Two tasks distinguish "this task" from "another" in counts; one task
  suffices for what concerns a single row.  `serial` has one task, two columns (a third can be created), one of them in a
  second project to move to, which is not edited (`EditsAtHome`).  `counts` is two halves: saves and removals of one task that may die
  (`SavingKinds`), and recounts of a board of two tasks that do not (`CountingKinds`).
* A slot for a task, an entry or a column is used once: an id is a uuid.
* `entries`: two users, a task, two entries, a clock up to `MaxClock = 2` with two ticks
  to a second, so that a timer's floor is 0 or 1; clients send one duration.
* `extras`, members: an owner, two users, three rows to insert (one of the users can be removed and
  invited again), three requests at a time: a save, what removes its row and what inserts a new one.
* `accounts`: two users, three addresses, two of which differ in case only, two passwords, one row of codes, two codes and two tokens.  `AllMixes`
  is ten sets of handlers that meet in a column or in a row, so that what each column can lose is in one of them; what the other pairs do is covered by the theorems only.  Roles are changed by `adminUpdate` only.
* `jobs`: one task, one user, `RunsPerDay = 2` (the server's four add runs of the same kind; what is proved holds for any number from two on) and `LastDay = 2`, so that a
  task's window of two days, its day and the day after fit in.  Either one request at a time with deaths and restarts, or a request that
  overlaps saves by a second one (`Mover`).
* `presence`: two sockets of one user and one of another on two boards, where no task is changed and no client says that one was; or a socket on two boards, one
  of another user on one of them and outside the other, two requests on one task, relays of every place to every board, and no token expires.
* `extras`: two columns and a third to create, three sub-tasks to create (fewer leave no gap that a position
  by count would fall into), moves to both ends and beyond; two comments, of which the second mentions nobody; two files; three system labels, one of a project; for the progress two sub-tasks, which give 0, 50 and 100, and two requests.
* `clients`: one page, or two tabs for the session, two requests in flight at a time (two of the tabs'), up to three, four or five sent in all (`MostSent`, `sent`) and one
  step of other users (`did`; two in the overview): a fetch, what the user then does, and the fetch or retry that follows, in every order of
  answers.  Where a page has independent parts (settings: form, columns, members; session: one tab on every page or two between
  login and the user's pages; calendar: dates or title) `scope` picks one for a behaviour.  The list of projects has room for one of two, of which either may be
  absent, deleted or edited.  Days are at the borders of the months' grids,
  in a zone west of UTC, in UTC and east of it, and in a month that follows a longer one.

Together the passing runs fire every action.

### 3.2 Fairness

Safety needs none.  `FairSpec` of `TaskBoard`, used by `purge`, assumes weak fairness of
`CleanupOldTrash` (`@Cron` at midnight, every day, in the same process) and of the
requests that have begun (the server answers them; nothing in a handler
waits for another request).  No fairness is assumed of clients, of `Expire`,
or of the start of requests.  The counterexample of `purge` keeps to it: the purge is never enabled,
because its DELETE fails.

`MCTaskCron!MCSpec`, for `FlagsBecomeRight`, assumes weak fairness of `Detects`, the steps of the hourly job while the process is up
(`@Cron` every hour; the job waits for nothing but its own two UPDATEs), and of `Restart` (whoever runs the server starts it again).  None is assumed of requests, of
the clock or of reminders: the property speaks of behaviours in which requests, the day and deaths have come to rest.

## 4. Theorems

Checked by tlapm for any sets of tasks, columns, projects, users, addresses, entries, rows, sockets and any
number of requests in flight, from the assumptions on the constants only (`ConstantsAssumption` of each component: ids of absent things are not ids,
`ProjectOf` gives every column a project, there are finitely many tasks and at least one column,
durations are naturals, the owner is a user and has a row, a day has at least two reminder runs).  The pages have
`ClientsAssumption`: `None` is no request, notification, name, title, project or row of a list; days are integers; there are finitely many notifications, tasks and columns; the
limits of lists are naturals, projects have times of creation, and those the administrator's tables offer are positive with a least one, which is the one they start with; there are finitely many accounts, projects and tasks
for the overview to count; the months have first days that divide up the days (`MonthStarts`), and a page is opened on one of them.

* `TaskBoard_proofs!TypeCorrect`: `Spec => []TypeOK`.  `TypeOK` alone is
  not inductive: that a write keeps `tasks` typed needs the request to have a task, which `Addressed` adds.
* `TaskBoard_proofs!AnsweredTasksStay`: `Spec => []AnsweredTasksPersist`.  The
  inductive invariant is `Persistence`: a task a client was told of is referenced by
  a log (`AnsweredIsReferenced`), so is the task of a request that is
  recounting (`RecountedIsReferenced`: its answer is still to come), and a
  referenced task is in the table (`ReferencedExist`).  The last is what the
  property needs and what a removal checks; the other two carry it from the
  log's INSERT to the answer.  It is the reason why no stale save, no permanent
  deletion and no purge loses a task, and also why the trash is never emptied.
* `TaskBoard_proofs!CountsStayExact`: `Spec => []CountedIsExact`, for overlapping requests.  The invariant `Counting` says that what a recount in `fresh` has read so far
  is what it would read now (`ReadsAgree`, one clause for each of its four statements), so that the percentage it stores is one of the board's;
  `Busy` keeps a request that has yet to count apart from one that has.  Every change of a board empties `fresh` of its recounts.
* `TaskBoard_proofs!RecountsAlwaysSettle`, `DeletedIsForGood`, `TasksKeepTheirColumn`, `EditsStayOwn`: the four properties of
  `serial`, each `ASSUME OneClient PROVE Spec => ...`, where `OneClient` says that there is one request slot.
  The invariant `Serial` says of the request what it knows and nobody has changed since (`Fits`: the entity it is about to save is the row with its own edit, the
  plan is their difference, the column is there, the column to be removed is empty) and of a change not counted yet that the request will count it (`Pending`).
* `TimeTracking_proofs!OnlyItsUser`: `Spec => OnlyItsUserChanges`, an action
  property.  Handlers check the user when they load an entry and write it
  statements later, possibly after it was deleted and inserted again by
  another stale save.  The invariant `IInv` says that whoever holds an entry agrees with its row
  on user, task, type and start (`HoldsOwn`), that two requests that hold one entry agree with each
  other even while the row is gone (`HoldAlike`, without which a
  re-inserted row could surprise the other), and that an INSERT's plan is
  the whole row.
* `TimeTracking_proofs!DurationsAreNatural`: no timer begins in the future, so `stopTimer` never computes a negative duration.
* `TimeTracking_proofs!OneTimer`: `Spec => []OneTimerPerUser`.  `SoloInv` says of a user no two of whose requests overlapped that one request at
  most is in flight and one timer at most runs, and that what that request found still holds (`Found`: no timer runs before its INSERT, the
  row it holds is there and as it was loaded), whatever other users did meanwhile.
* `TimeTracking_proofs!StoppedIsForGood`: `Spec => StoppedForGood`, from the same invariant: the row a save writes was not stopped or deleted since it was loaded.
  It needs besides that entries and those who hold them have users (`HaveUsers`).
* `Extras_proofs!OwnerStays`: `Spec => []OwnerIsMember`, and
  `Extras_proofs!OnlyInvitations`: `Spec => OnlyInvitationsAdmit`.  The invariant
  `MembersInv` says of a request that holds a row that it is not the owner's and that its id is not inserted
  afresh (`HoldsOthers`); of one that saves, that it holds an answer (declined, no
  token) and leaves a column out of its UPDATE only where the row has that value already, so that
  whatever the row became since its SELECT, the row it leaves is an answer (`SavedIsAnswered`).
* `Extras_proofs!OneRow`: `Spec => []OneRowPerUser`: an INSERT checks the unique index, and a save that inserts a removed row again does too.
* `Extras_proofs!EveryAcceptIsRefused`: only accepted rows have tokens
  (`TokensOfAccepted`), the part of the invariant that makes `accept` a dead branch.
* `TimeTracking_proofs!LoggedAlwaysSettles`: `Spec => []LoggedSettles`.  `LogInv` says of a task no two of whose requests overlapped that one request at
  most is for it, and of that one whether it has changed the sum already (`Kept`): until it has, the total is right; when it is about to store, what it
  stores is; and a save of the task stores the total it is.  What is needed of sums (`SumSplits`: a sum is what any of its
  elements adds and the sum of the others) would be an induction over the set; the lemmas take instead a smallest set of which
  they fail (`Smallest`: strict inclusion of finite sets is well-founded), and take an element out of it.
* `Extras_proofs!ProgressExplained`: `Spec => []ProgressIsExact`.  The inductive part is
  `FreshIsRight`: a percentage no change has overtaken is that of the checklist as it is; `Addressed` says
  that whoever is about to change a sub-task recounts afterwards.  `ProgressTyped`: the percentage is in
  0..100, from `RoundedShare` (rounding a share of at most one does not pass 100).
* `Extras_proofs!StoresAlwaysAgree`: rows and objects differ by what a request is between, died in, or the store refused.  The invariant `StoresInv` adds that a new object is its request's
  alone (`CreatesAlone`), that the object of a request that removes a row is gone (`ObjectIsGone`) and that nothing is stored under an unused name.
* `Extras_proofs!SeedingsComeOnce`: `L!Spec => []SeededOnce`.  `LabelsInv` says that the labels of a seeding under way are a part of the list up to where it
  is, and that it began with none; a start finds either none or all of them, or an interruption is noted.
* `Extras_proofs!AllConcernedAreTold`: `D!Spec => []ConcernedAreTold`.  `TalkInv` says of the request that creates a comment that what was owed is
  what it has sent and what remains (`OwedIsLeft`, a count for each user, since one may be mentioned twice), and that a comment is
  created by one request.  `DeletionsOfCommentsStay`: until saves of a comment cross, a save holds it as it is but for the text (`SavedApart`).
* `Extras_proofs!ColumnsAreAList`, `SubTasksAreAList`: the refinements of `OrderedList`, each `ASSUME OneRequest`, which says that there is one request slot;
  two that overlap do give two rows one position.  `OrderInv` says that no two rows of a parent have the same position (`Ordered`), and of the request that what it
  found still holds: a new row comes last, and a reorder is about to write the list but for one move (`Ready`, `Follows`).  Each statement then maps to a step
  of the abstract list or to a stutter: lemmas say what appending, removing and moving do to the sequence that a table sorts to, of any length.
* `Extras_proofs!PartsAreApart`: the composition behaves in each part as that part's own specification says, so that what is proved of one holds of `Extras`.
* `BoardPresence_proofs!MapIsAlwaysRooms`, `SeenAreAlwaysPresent`: the first is inductive; the second needs it, since
  followers are told of the map and the property speaks of the rooms.  `ShownIsAlwaysStored`: `ShownInv` says that a board shows a task where it is, or some request
  will tell it (`ShownOrTold`), unless another client misled the follower, and that a request that is to tell holds the row as it is now, or has crossed another (`HoldsRow`, `TellsTruth`).
* `TaskCron_proofs!FlagsStaySettled`: between its two UPDATEs a run has marked what is late and not yet cleared the
  rest (`Settled`).  `RemindersStayBounded`: `Reminded` bounds `mailed[t]` by the number of reminder runs since the window of its day opened (`Runs`), less the one
  under way that has not come to `t`; the window is two days of runs.
  `DeadlinesAreAnnounced`: `Announced` says of a task nothing excuses (`Awaits`) that it is in the first two runs of its window, that at the first its flag is right
  or detection has not passed, and that at the second the reminder has it on its list.  With one run a day the first would be the only one, and TLC shows a save that makes it miss:
  the day stored after detection, the flag still of the old one.  Hence the assumption of two runs.
* `Accounts_proofs!SettingsAlwaysStand`, `CodesAlwaysServeOnce`, `VerifiedWasAlwaysProved`, `SessionsOpenBySignIn`: one invariant `Inv` for the four, which says of
  every request that it has the fields its statement needs (`Shape`), that the entity it holds agrees with `told` wherever it may still write, or is marked
  `overtaken` (`Remembers`), that it marks verified only an address it saw proved (`Honest`), and that it carries no refresh token (`Sealed`); and of the tables, that
  addresses are unique (`EmailsUnique`), as they must be for a code to speak for one account, and that a code in the table or in a handler has not served unless it is `exposed` (`Codes`).
* `Clients_proofs!NotificationsAlwaysSettle`: `Spec => []NotificationsSettle`.  `InboxInv` says that until something disturbs the page it knows what is read but for the answers
  on their way (`KnowsRead`), and that a fetch is alone on its way and has read what there is (`FetchIsAlone`).
* `Clients_proofs!ProjectsAlwaysSettle`: `ProjectsInv` says that a page's own fetch is for it and brings what is stored, of a list the newest projects (`OwnFetch`,
  `NewestOf`), and that a page none of whose fetches is awaited shows it (`LandedIsShown`).  `CreationInv` says that a form that waits has one request (`FormWaits`), so that it makes one project and one more for each
  failure that was none, and that who is invited is a member or on the list of the job that inserts them (`JobsGoOn`).
* `Clients_proofs!ProfileAlwaysSettles`: `ProfileInv` follows a toggle from the click over the auto-save that waits for it to the database: what the page shows is waiting
  to be saved, or on its way, or stored (`PageSettles`), one save at a time (`PageSaves`), and none while the page loads (`PageLoads`).
* `Clients_proofs!DatesAlwaysSettle`: `CalendarInv` says that the fetch sent last is for the days the page shows and brings what is stored for them.  That each day of a grid then counts its
  tasks is arithmetic: a grid is an interval (`GridIsInterval`), its days are asked for in every zone (`DaysAreAskedFor`) and each counts what falls on it
  (`CellsCountTheirDays`).  `MyTasksInv` says that lists hold the tasks of the user up to their limit (`OfTheUser`); `DaysOfTasksAgree` relates the two clocks.
* `Clients_proofs!SessionAlwaysSettles`: `SessionInv` says that a layout without a user waits for its check, and that what waits or is busy has a request that will end it
  (`TabWaits`); that a tab where the token has not changed behind its back shows the user the cookie names, or has a request on its way that will bring it (`TabLearns`), which
  asks with the cookie as it is; and that localStorage holds the user of its last writer.  Wherever a tab goes it arrives so (`GoesArrives`, by way of `EnterAuthArrives` and
  `EnterUserArrives`), and what is unmounted on the way leaves the others' requests as they were (`Keeps`).
* `ProjectViews_proofs!TaskAlwaysSettles`: `Spec => []TaskSettles`.  `TaskInv` says of each list of a task's page, unless it `differs`, that it lacks one row at most, which the page
  will be told of (`ListsAgree`), that what a fetch in flight has read of it is what is stored (`TaskFetches`), and that a sub-task's box is ticked when its completion has changed since it was
  read, or a change is on its way (`TicksAgree`).
* `ProjectViews_proofs!BoardAlwaysSettles`: `Spec => []BoardSettles`.  `BoardInv` says that unless fetches overlapped one is on its way at most, that what it has read of a column is the column's first
  page as it is now, that a column that has landed lacks the one task whose answer is on its way, or nothing (`ColumnAgrees`), and that no task is shown in a column it has never been in.
* `ProjectViews_proofs!SettingsAlwaysSettle`: `Spec => []SettingsSettle`.  `SettingsInv` says that the shown columns are the stored ones and those whose removal the page has not heard of yet
  (`ColumnsAgree`, `GoneColumns`), in the same order (`InOrder`), so that two lists of the same length and rows are equal; the same of members, of whom one more is shown while a removal is on its way; and that
  a project has two columns while the page has them and no two removals were sent together (`EnoughColumns`).  That lists with the same rows in the same order are the same is a counting argument
  (`PlacesGrow`, `SameColumns`), by the pigeonhole principle and not by induction.
* `ProjectViews_proofs!AdminAlwaysSettles`: `Spec => []AdminSettles`.  Of the tables, `TablesInv` says that unless somebody else changed a row the fetch sent last, and once it has landed the table, holds what
  the database does, but for a change that was made and whose answer is on its way (`RowsAgree`), because that answer makes the page fetch again; that a page beyond the first exists unless rows went
  (`PageThere`); and that the row in the drawer is stored or is being deleted by a request that closes the drawer, and by no other (`DrawerThere`).  Of the overview, `OverviewInv` says that each figure
  read so far is off by no more changes than there were (`CountsAgree`, `TrendsAgree`; the six months partition the rows, so their sum is a count of rows), and that the projects listed have no fewer
  tasks than those left out (`TopAgrees`).  With three requests in flight TLC refuted the first version of `RowsAgree`: any landing fetch that brought what there is cleared `unseen`, also one that had been
  superseded and left no trace.  Only the fetch sent last clears it now.
* `TypeCorrect` of `BoardPresence_proofs`, `TaskCron_proofs`, `Accounts_proofs` and `TimeTracking_proofs`; `StoresTyped`, `LabelsTyped`, `TalkTyped` and `ProgressTyped` of `Extras_proofs`.

**Model-checked only.**  The liveness property `FlagsBecomeRight`, because TLAPS handles neither ENABLED nor fairness.  Every other property that a passing
run checks is a theorem.  Outside the theorems is what the assumptions of section 5 say, and the counterexamples of `restore` and `purge`, which are behaviours and need no proof.

## 5. Assumptions on the outside

PostgreSQL runs each statement atomically at READ COMMITTED and checks foreign and unique keys; a column of type `date` is compared by days.
TypeORM 0.3 behaves as `TypeOrm` states: `find` and `count` hide rows with
`deleted_at`; `save` of an entity with an id selects the row (trashed or not) and updates the
differing columns or inserts; an UPDATE or DELETE of a missing row affects nothing and is no
error.  A failed statement ends the handler with a 500 and undoes nothing before it.
socket.io delivers to a socket in the order of emission and empties the rooms of one that closes.  A browser runs an event of a page to its end before the next,
and sends with a request the cookie it holds then.

## 6. What else the code does otherwise than it says

Found while modelling; no run is about these, because the models take the code as it is.

* **Boards.** The web client sends a column's `name` (so do PROJECT_API.md:1197-1245); the DTOs have `title` and `main.ts:34-37` forbids other properties, so that adding or
  renaming a column from the settings always fails.  Columns show their first twenty tasks only, and so do the list of projects and "my tasks".
* **Sub-tasks.** The answers carry `completed`; the client and PROJECT_API.md (1984, 1993, 2034, 2113) read `isCompleted`, so that all boxes are empty
  when a page opens (`TicksAreChanges` says what they then mean).
* **Projects.** `completionPercentage` is sent and `progress` read; the priorities are counted under "critical", which the enum calls "urgent"; the project dashboard counts
  a column titled "done" and no other.  The choice of a board template is never sent.  A create that fails after its commit rolls back nothing and answers 500
  although the project is stored.  Clearing a deadline or a job title sends nothing.  Settings that could not be loaded show an empty form, whose save empties the title.
* **Invitations.** An address without an account gets a mail and, as a comment has it, is added when it registers; nothing in the code does so.
* **Profile.** The number of completed tasks is that of deleted ones.  A "weekly" digest is stored as off.
* **Sessions.** A wrong password is a 401, on which the client reloads the login page and wipes the message.  `refreshToken` is never called by a client.  Signing out ends the
  session in the client "even if API call fails" (`profile.tsx:99`), while the browser keeps its token.  A late check of the layout takes a user who has moved on to the list
  of projects.
* **Notifications.** The page reads `data.taskId`, the server stores `relatedTaskId`: a click never navigates.
* **Calendar and tasks.** The server ignores the calendar's `projectId`.  West of UTC tasks appear a day early; the last day of a grid is not asked for outside UTC; a
  change of month from a 29th to 31st skips one.  The overdue tab lists flagged tasks of anyone in the user's projects; a week includes the next Sunday in UTC.
* **Administration.** "Active Today" counts active accounts, the footers are fixed texts, "Task Completion Rate" draws tasks created under labels of hours, and the choice of a period
  changes nothing.  Failed trends are shown as six empty months; `setMonth(-5)` leaves out or doubles a month on days 29 to 31; trends of users count deleted ones.
* **One-time passwords.** The routes are documented as open and are not `@Public`.

## 7. Plan

Done: all of the modules of section 2 and the theorems of section 4.  What is left, in this order:

1. Positions of tasks in a column, which `move` stores as the client sends them, and two creations that read the same maximum.
2. Overlapping renumberings in `OrderedRows`: columns that come back, the wrong row moved.
3. Assignment of tasks to members, as a composition of `Membership` and `TaskBoard`: a removed
   member stays an assignee.
4. A composition of `BoardPresence` with a client of the gateway, when the repository has one.

## 8. Not modelled

* Activity logs are inserted by the handlers (`referenced` of `TaskBoard`) and only listed by their own service.
* Read-only queries (lists, dashboards, CSV export, `sendDailyDigests`), except where a page's property is about what they answer.
* Mail, the S3 client, logging, the HTTP framework's guards and filters, third-party token checks, and the demo of `modules/features`: stateless, or used by nothing.
* Of the clients: the trash view (its query finds nothing, see `restore`), the overview's list of recent activity with the query of activity logs that `getDashboard` makes for it, the choice of a template (discarded on the way to `/projects/new`), and the administrator's
  configuration page, a placeholder that stores nothing.
* Positions of tasks and the WIP limit.  Foreign keys of comments, sub-tasks, attachments and time entries add to what
  `referenced` holds and would only make fewer tasks removable.
