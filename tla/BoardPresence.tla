---------------------------- MODULE BoardPresence ----------------------------
(***************************************************************************)
(* The board gateway (websocket/board.gateway.ts): who is on a board, what  *)
(* the others are told of it, and what they are told of the tasks that      *)
(* tasks.service.ts changes.                                                *)
(*                                                                          *)
(* The gateway's handlers have no await: each is one step, its messages     *)
(* included, which socket.io delivers to a socket in the order they were    *)
(* emitted.  The clients of the repository open no socket; a follower here  *)
(* is a client that does what the gateway's messages are for: it shows the  *)
(* users of board:active-users, user:joined and user:left, loads the board  *)
(* when it has joined, and then applies each task event, whether a service  *)
(* sent it or another client had the gateway relay it.                      *)
(*                                                                          *)
(* A definition named X_fault, before X, is a plausible error in the code X *)
(* models; no definition uses it.                                           *)
(***************************************************************************)
EXTENDS TypeOrm, FiniteSets

CONSTANTS
    User, Socket, Project, Column, Task, Request,
    UserOf,       \* the user whose token a socket's handshake carries
    ProjectOf,    \* the project of a column
    Off           \* of a task that a board does not show

ASSUME ConstantsAssumption ==
    /\ UserOf \in [Socket -> User] /\ ProjectOf \in [Column -> Project]
    /\ Off \notin Column /\ Task # {} /\ Project # {}

VARIABLES
    sockets,      \* "closed", "open", or "expired": open, with a token that no longer verifies
    rooms,        \* socket.io: the sockets in each project's room
    activeUsers,  \* the gateway's map: the sockets it counts as present
    tasks, requests,
    \* followers: the users and the tasks each shows of each board it is on
    seen, shown,
    \* histories, which no action reads
    confused,     \* a user whose one socket left the board while another stayed
    crossed,      \* tasks saved while another request was about to save or to tell
    strayed,      \* tasks moved away from a project, which is not told
    misled        \* sockets whose last news of a task on a board was another client's, and not so

presence == <<sockets, rooms, activeUsers>>
followers == <<seen, shown>>
histories == <<confused, crossed, strayed, misled>>
vars == <<presence, tasks, requests, followers, histories>>

------------------------------------------------------------------------------

TaskRow == [row: RowState, column: Column \cup {Off}, deletedAt: {"null", "recent"}]
NoTaskRow == [row |-> "none", column |-> Off, deletedAt |-> "null"]

\* told: what the event at the end says of the task's place, if it does.
RequestState == [pc: {"idle", "insert", "select", "write", "tell"}, task: Task, entity: TaskRow,
                 plan: SUBSET DOMAIN NoTaskRow, room: Project,
                 told: {"created", "moved", "deleted", "nothing"}]

Idle == [pc |-> "idle", task |-> CHOOSE t \in Task : TRUE, entity |-> NoTaskRow, plan |-> {},
         room |-> CHOOSE p \in Project : TRUE, told |-> "nothing"]

TypeOK ==
    /\ sockets \in [Socket -> {"closed", "open", "expired"}]
    /\ rooms \in [Project -> SUBSET Socket] /\ activeUsers \in [Project -> SUBSET Socket]
    /\ tasks \in [Task -> TaskRow] /\ requests \in [Request -> RequestState]
    /\ seen \in [Socket -> [Project -> SUBSET User]]
    /\ shown \in [Socket -> [Project -> [Task -> Column \cup {Off}]]]
    /\ confused \subseteq Project \X User
    /\ crossed \subseteq Task /\ strayed \subseteq Task \X Project
    /\ misled \subseteq Socket \X Project \X Task

Nobody == [p \in Project |-> {}]
Nothing == [p \in Project |-> [t \in Task |-> Off]]

Init ==
    /\ sockets = [s \in Socket |-> "closed"]
    /\ rooms = Nobody /\ activeUsers = Nobody
    /\ tasks = [t \in Task |-> NoTaskRow]
    /\ requests = [r \in Request |-> Idle]
    /\ seen = [s \in Socket |-> Nobody] /\ shown = [s \in Socket |-> Nothing]
    /\ confused = {} /\ crossed = {} /\ strayed = {} /\ misled = {}

\* The users a board's map lists.
Present(p) == {UserOf[s] : s \in activeUsers[p]}

\* Where a board shows a task when it is loaded.
PlaceOn(p, row) == IF Visible(row) /\ ProjectOf[row.column] = p THEN row.column ELSE Off

------------------------------------------------------------------------------
(* The gateway *)

Connect(s) ==
    /\ sockets[s] = "closed"
    /\ sockets' = [sockets EXCEPT ![s] = "open"]
    /\ UNCHANGED <<rooms, activeUsers, tasks, requests, followers, histories>>

Expire(s) ==
    /\ sockets[s] = "open"
    /\ sockets' = [sockets EXCEPT ![s] = "expired"]
    /\ UNCHANGED <<rooms, activeUsers, tasks, requests, followers, histories>>

\* WsJwtGuard verifies the token of the handshake again for each message.
MayAct(s) == sockets[s] = "open"

\* What user:joined and user:left of one user do to those in the room.
Told(p, ss, users) ==
    [x \in Socket |-> IF x \in ss THEN [seen[x] EXCEPT ![p] = users[x]] ELSE seen[x]]

\* The joining client is sent the whole list.
Joined_othersOnly(s, p, present) ==
    Told(p, rooms[p] \ {s}, [x \in Socket |-> seen[x][p] \cup {UserOf[s]}])
Joined(s, p, present) ==
    Told(p, rooms[p] \cup {s}, [x \in Socket |-> IF x = s THEN present
                                                 ELSE seen[x][p] \cup {UserOf[s]}])

HandleJoinBoard(s, p) ==
    /\ MayAct(s)
    /\ rooms' = [rooms EXCEPT ![p] = @ \cup {s}]
    /\ activeUsers' = [activeUsers EXCEPT ![p] = @ \cup {s}]
    /\ seen' = Joined(s, p, Present(p) \cup {UserOf[s]})
    /\ shown' = [shown EXCEPT ![s][p] = [t \in Task |-> PlaceOn(p, tasks[t])]]
    /\ confused' = confused \ {<<p, UserOf[s]>>}
    /\ misled' = misled \ ({s} \X {p} \X Task)
    /\ UNCHANGED <<sockets, tasks, requests, crossed, strayed>>

\* What becomes of a user's presence when one socket goes.
Confuses(s, p, present) == IF UserOf[s] \in present THEN {<<p, UserOf[s]>>} ELSE {}

HandleLeaveBoard(s, p) ==
    LET left == activeUsers[p] \ {s}
    IN /\ MayAct(s)
       /\ rooms' = [rooms EXCEPT ![p] = @ \ {s}]
       /\ activeUsers' = [activeUsers EXCEPT ![p] = left]
       /\ seen' = [Told(p, rooms[p] \ {s}, [x \in Socket |-> seen[x][p] \ {UserOf[s]}])
                   EXCEPT ![s][p] = {}]
       /\ shown' = [shown EXCEPT ![s][p] = [t \in Task |-> Off]]
       /\ confused' = (confused \ {<<p, UserOf[s]>>})
                        \cup Confuses(s, p, {UserOf[x] : x \in left})
       /\ misled' = misled \ ({s} \X {p} \X Task)
       /\ UNCHANGED <<sockets, tasks, requests, crossed, strayed>>

\* The boards a closing socket is taken off: every one whose map lists it.
BoardsOf_one(s) == {p \in Project : s \in activeUsers[p] /\ p = CHOOSE q \in Project : s \in activeUsers[q]}
BoardsOf(s) == {p \in Project : s \in activeUsers[p]}

\* socket.io has taken the socket out of its rooms before.
HandleDisconnect(s) ==
    LET on == BoardsOf(s)
        others(p) == {UserOf[x] : x \in activeUsers[p] \ {s}}
    IN /\ sockets[s] # "closed"
       /\ sockets' = [sockets EXCEPT ![s] = "closed"]
       /\ rooms' = [p \in Project |-> rooms[p] \ {s}]
       /\ activeUsers' = [p \in Project |-> IF p \in on THEN activeUsers[p] \ {s} ELSE activeUsers[p]]
       /\ seen' = [x \in Socket |-> [p \in Project |->
                      IF x = s THEN {}
                      ELSE IF p \in on /\ x \in rooms[p] THEN seen[x][p] \ {UserOf[s]} ELSE seen[x][p]]]
       /\ shown' = [shown EXCEPT ![s] = Nothing]
       /\ confused' = (confused \ {<<p, UserOf[s]>> : p \in on}) \cup UNION {Confuses(s, p, others(p)) : p \in on}
       /\ misled' = misled \ ({s} \X Project \X Task)
       /\ UNCHANGED <<tasks, requests, crossed, strayed>>

\* task:move, create, update, delete and restore: what one client says is
\* passed on to all others in the room it names.  Neither whether it is in that
\* room itself nor whether what it says is so is looked at.
Relay(s, p, t, place) ==
    LET others == rooms[p] \ {s}
        told == others \X {p} \X {t}
    IN /\ MayAct(s)
       /\ shown' = [x \in Socket |-> IF x \in others THEN [shown[x] EXCEPT ![p][t] = place] ELSE shown[x]]
       /\ misled' = IF place = PlaceOn(p, tasks[t]) THEN misled \ told ELSE misled \cup told
       /\ UNCHANGED <<presence, tasks, requests, seen, confused, crossed, strayed>>

\* The map lives in memory; clients connect and join anew.
Restart ==
    /\ sockets' = [s \in Socket |-> "closed"]
    /\ rooms' = Nobody /\ activeUsers' = Nobody
    /\ requests' = [r \in Request |-> Idle]
    /\ seen' = [s \in Socket |-> Nobody] /\ shown' = [s \in Socket |-> Nothing]
    /\ confused' = {} /\ misled' = {}
    /\ UNCHANGED <<tasks, crossed, strayed>>

------------------------------------------------------------------------------
(* tasks.service.ts, as far as places of tasks and their events go *)

Becomes(r, q) == requests' = [requests EXCEPT ![r] = q]

BeginCreate(r, t, c) ==
    /\ requests[r].pc = "idle" /\ tasks[t].row = "none"
    /\ \A q \in Request : requests[q].pc = "insert" => requests[q].task # t
    /\ Becomes(r, [Idle EXCEPT !.pc = "insert", !.task = t, !.room = ProjectOf[c], !.told = "created",
                               !.entity = [row |-> "there", column |-> c, deletedAt |-> "null"]])
    /\ UNCHANGED <<presence, tasks, followers, histories>>

InsertTask(r) ==
    LET q == requests[r]
    IN /\ q.pc = "insert"
       /\ tasks' = [tasks EXCEPT ![q.task] = q.entity]
       /\ Becomes(r, [q EXCEPT !.pc = "tell"])
       /\ UNCHANGED <<presence, followers, histories>>

\* The handlers and the room each tells at its end: move that of the target
\* column, softDelete and update that of the column the task was loaded in;
\* assign and unassign tell nobody, as update of a place.
Handler(t, entity, room, told) ==
    \/ \E c \in Column : /\ entity = [tasks[t] EXCEPT !.column = c]
                         /\ room = ProjectOf[c] /\ told = "moved"
    \/ /\ entity = [tasks[t] EXCEPT !.deletedAt = "recent"]
       /\ room = ProjectOf[tasks[t].column] /\ told = "deleted"
    \/ /\ entity = tasks[t] /\ room = ProjectOf[tasks[t].column] /\ told = "nothing"

LoadTask(r, t, entity, room, told) ==
    /\ requests[r].pc = "idle" /\ Visible(tasks[t]) /\ Handler(t, entity, room, told)
    /\ Becomes(r, [pc |-> "select", task |-> t, entity |-> entity, plan |-> {},
                   room |-> room, told |-> told])
    /\ UNCHANGED <<presence, tasks, followers, histories>>

SelectTask(r) ==
    LET q == requests[r]
    IN /\ q.pc = "select"
       /\ Becomes(r, [q EXCEPT !.pc = "write", !.plan = SavePlan(q.entity, tasks[q.task])])
       /\ UNCHANGED <<presence, tasks, followers, histories>>

SavedTask(plan, entity, row) ==
    [row |-> row.row, column |-> Written("column", plan, entity, row),
     deletedAt |-> Written("deletedAt", plan, entity, row)]

WriteTask(r) ==
    LET q == requests[r]
        t == q.task
        old == tasks[t]
        new == SavedTask(q.plan, q.entity, old)
        meets == \E x \in Request \ {r} : requests[x].pc # "idle" /\ requests[x].task = t
    IN /\ q.pc = "write"
       /\ tasks' = [tasks EXCEPT ![t] = new]
       /\ Becomes(r, [q EXCEPT !.pc = "tell"])
       /\ crossed' = IF meets THEN crossed \cup {t} ELSE crossed
       /\ strayed' = {x \in strayed : x # <<t, ProjectOf[new.column]>>}
                       \cup (IF ProjectOf[new.column] # ProjectOf[old.column]
                             THEN {<<t, ProjectOf[old.column]>>} ELSE {})
       /\ UNCHANGED <<presence, followers, confused, misled>>

\* What the event makes of a follower's board.
After_movedOnly(q, place) == IF q.told = "moved" THEN q.entity.column ELSE place
After(q, place) ==
    CASE q.told \in {"created", "moved"} -> q.entity.column
      [] q.told = "deleted" -> Off
      [] OTHER -> place

\* The log and the notification come before, the recount after.
Broadcast(r) ==
    LET q == requests[r]
        p == q.room
    IN /\ q.pc = "tell"
       /\ shown' = [s \in Socket |-> IF s \in rooms[p]
                                     THEN [shown[s] EXCEPT ![p][q.task] = After(q, @)] ELSE shown[s]]
       /\ Becomes(r, Idle)
       /\ misled' = IF q.told = "nothing" THEN misled ELSE misled \ (rooms[p] \X {p} \X {q.task})
       /\ UNCHANGED <<presence, tasks, seen, confused, crossed, strayed>>

\* A statement fails; between the save and the event, nobody is told.
Abort(r) ==
    /\ requests[r].pc # "idle"
    /\ crossed' = IF requests[r].pc = "tell" THEN crossed \cup {requests[r].task} ELSE crossed
    /\ Becomes(r, Idle)
    /\ UNCHANGED <<presence, tasks, followers, confused, strayed, misled>>

------------------------------------------------------------------------------

Gateway ==
    \/ \E s \in Socket : Connect(s) \/ Expire(s) \/ HandleDisconnect(s)
    \/ \E s \in Socket, p \in Project : HandleJoinBoard(s, p) \/ HandleLeaveBoard(s, p)
    \/ \E s \in Socket, p \in Project, t \in Task, place \in Column \cup {Off} : Relay(s, p, t, place)
    \/ Restart

Begins ==
    \E r \in Request, t \in Task :
        \/ \E c \in Column : BeginCreate(r, t, c)
        \/ \E entity \in TaskRow, room \in Project, told \in {"moved", "deleted", "nothing"} :
               LoadTask(r, t, entity, room, told)

Continues ==
    \E r \in Request : InsertTask(r) \/ SelectTask(r) \/ WriteTask(r) \/ Broadcast(r) \/ Abort(r)

Next == Gateway \/ Begins \/ Continues

Spec == Init /\ [][Next]_vars

------------------------------------------------------------------------------
(* Properties *)

\* The map the gateway keeps beside socket.io's rooms lists the same sockets,
\* all of them open: join, leave, a connection that drops and a token that
\* expires while it is on a board leave the two alike.
MapIsRooms ==
    \A p \in Project : /\ activeUsers[p] = rooms[p]
                       /\ \A s \in activeUsers[p] : sockets[s] # "closed"

\* Who follows a board shows the users who are on it.  The one exception is
\* a user with two sockets on a board: when one goes user:left takes the user
\* off every other screen, until the user joins again or goes for good.
SeenArePresent ==
    \A p \in Project, u \in User : <<p, u>> \notin confused =>
        \A s \in rooms[p] : u \in seen[s][p] <=> u \in Present(p)

\* Once nobody is to be told of a task any more, who follows a board shows
\* it where the database has it, unless two saves of it crossed, a request
\* died before its event, or the task has moved to another project: the board
\* it leaves is not told.  A follower that another client has told of a place
\* that is not the stored one is wrong until a service's next event of that
\* task, or another client's that is so, or until it joins again, and no longer.
ShownIsStored ==
    \A p \in Project, t \in Task :
        (/\ t \notin crossed /\ <<t, p>> \notin strayed
         /\ \A r \in Request : requests[r].pc = "tell" => requests[r].task # t)
        => \A s \in rooms[p] : <<s, p, t>> \notin misled => shown[s][p][t] = PlaceOn(p, tasks[t])
=============================================================================
