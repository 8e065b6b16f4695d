------------------------- MODULE BoardPresence_proofs -------------------------
(***************************************************************************)
(* Theorems about BoardPresence, for any users, sockets, boards, tasks and   *)
(* number of requests in flight.                                             *)
(***************************************************************************)
EXTENDS BoardPresence, TLAPS

Saving == {"select", "write"}

\* Every task that was inserted stays in the table, in a column, and so does
\* what a request holds; one that inserts has its id for itself.
Placed ==
    /\ \A t \in Task : tasks[t].row # "none" =>
          tasks[t].row = "there" /\ tasks[t].column \in Column
    /\ \A r \in Request :
          LET q == requests[r]
          IN /\ q.pc # "idle" => q.entity.row = "there" /\ q.entity.column \in Column
             /\ q.pc \in {"select", "write", "tell"} => tasks[q.task].row = "there"
             /\ q.pc = "insert" =>
                  /\ tasks[q.task].row = "none" /\ q.entity.deletedAt = "null"
                  /\ q.told = "created" /\ q.room = ProjectOf[q.entity.column]
                  /\ \A x \in Request \ {r} : requests[x].pc # "idle" => requests[x].task # q.task

Typed == TypeOK /\ Placed

------------------------------------------------------------------------------
(* Types *)

LEMMA Rows ==
  /\ NoTaskRow \in TaskRow /\ Idle \in RequestState /\ Idle.pc = "idle"
  /\ Nobody \in [Project -> SUBSET Socket] /\ Nobody \in [Project -> SUBSET User]
  /\ Nothing \in [Project -> [Task -> Column \cup {Off}]]
  BY ConstantsAssumption
  DEF NoTaskRow, TaskRow, RowState, Idle, RequestState, Nobody, Nothing

LEMMA InitTyped == Init => Typed
  <1> SUFFICES ASSUME Init PROVE Typed
    OBVIOUS
  <1>1. TypeOK
    BY Rows DEF Init, TypeOK
  <1>2. Placed
    BY Rows DEF Init, Placed, NoTaskRow
  <1> QED
    BY <1>1, <1>2 DEF Typed

LEMMA PlaceType ==
  ASSUME NEW p \in Project, NEW row \in TaskRow
  PROVE  PlaceOn(p, row) \in Column \cup {Off}
  BY DEF PlaceOn, TaskRow

LEMMA ToldType ==
  ASSUME TypeOK, NEW p \in Project, NEW ss \in SUBSET Socket, NEW users \in [Socket -> SUBSET User]
  PROVE  Told(p, ss, users) \in [Socket -> [Project -> SUBSET User]]
  BY DEF TypeOK, Told

\* Steps that leave tasks and requests as they are keep Placed.
LEMMA GatewayTyped ==
  ASSUME Typed, Gateway
  PROVE  Typed'
  <1>1. ASSUME NEW s \in Socket, Connect(s) \/ Expire(s) PROVE TypeOK' /\ UNCHANGED <<tasks, requests>>
    BY <1>1 DEF Connect, Expire, Typed, TypeOK, followers, histories
  <1>2. ASSUME NEW s \in Socket, HandleDisconnect(s) PROVE TypeOK' /\ UNCHANGED <<tasks, requests>>
    <2>1. /\ sockets' \in [Socket -> {"closed", "open", "expired"}]
          /\ rooms' \in [Project -> SUBSET Socket] /\ activeUsers' \in [Project -> SUBSET Socket]
          /\ seen' \in [Socket -> [Project -> SUBSET User]]
      BY <1>2 DEF HandleDisconnect, Typed, TypeOK
    <2>2. shown' \in [Socket -> [Project -> [Task -> Column \cup {Off}]]]
      BY <1>2, Rows DEF HandleDisconnect, Typed, TypeOK
    <2>3. confused' \subseteq Project \X User
      <3>1. UserOf[s] \in User
        BY ConstantsAssumption
      <3>2. \A p \in Project : <<p, UserOf[s]>> \in Project \X User
        BY <3>1
      <3>3. confused' = (confused \ {<<p, UserOf[s]>> : p \in BoardsOf(s)})
                           \cup UNION {Confuses(s, p, {UserOf[x] : x \in activeUsers[p] \ {s}}) : p \in BoardsOf(s)}
        BY <1>2 DEF HandleDisconnect
      <3> QED
        BY <3>2, <3>3 DEF BoardsOf, Confuses, Typed, TypeOK
    <2> QED
      BY <1>2, <2>1, <2>2, <2>3 DEF HandleDisconnect, Typed, TypeOK
  <1>3. ASSUME NEW s \in Socket, NEW p \in Project, HandleJoinBoard(s, p)
        PROVE  TypeOK' /\ UNCHANGED <<tasks, requests>>
    <2>1. seen' \in [Socket -> [Project -> SUBSET User]]
      <3> DEFINE users == [x \in Socket |-> IF x = s THEN Present(p) \cup {UserOf[s]}
                                            ELSE seen[x][p] \cup {UserOf[s]}]
      <3>1. users \in [Socket -> SUBSET User]
        BY ConstantsAssumption DEF Present, Typed, TypeOK
      <3>2. seen' = Told(p, rooms[p] \cup {s}, users)
        BY <1>3 DEF HandleJoinBoard, Joined
      <3>3. rooms[p] \cup {s} \in SUBSET Socket
        BY DEF Typed, TypeOK
      <3> HIDE DEF users
      <3> QED
        BY <3>1, <3>2, <3>3, ToldType DEF Typed
    <2>2. shown' \in [Socket -> [Project -> [Task -> Column \cup {Off}]]]
      BY <1>3, PlaceType DEF HandleJoinBoard, Typed, TypeOK
    <2> QED
      BY <1>3, <2>1, <2>2 DEF HandleJoinBoard, Typed, TypeOK
  <1>4. ASSUME NEW s \in Socket, NEW p \in Project, HandleLeaveBoard(s, p)
        PROVE  TypeOK' /\ UNCHANGED <<tasks, requests>>
    <2>1. seen' \in [Socket -> [Project -> SUBSET User]]
      <3> DEFINE users == [x \in Socket |-> seen[x][p] \ {UserOf[s]}]
      <3>1. users \in [Socket -> SUBSET User]
        BY DEF Typed, TypeOK
      <3>2. seen' = [Told(p, rooms[p] \ {s}, users) EXCEPT ![s][p] = {}]
        BY <1>4 DEF HandleLeaveBoard
      <3>3. rooms[p] \ {s} \in SUBSET Socket
        BY DEF Typed, TypeOK
      <3> HIDE DEF users
      <3>4. Told(p, rooms[p] \ {s}, users) \in [Socket -> [Project -> SUBSET User]]
        BY <3>1, <3>3, ToldType DEF Typed
      <3> QED
        BY <3>2, <3>4
    <2>2. shown' \in [Socket -> [Project -> [Task -> Column \cup {Off}]]]
      BY <1>4 DEF HandleLeaveBoard, Typed, TypeOK
    <2>3. confused' \subseteq Project \X User
      <3>1. <<p, UserOf[s]>> \in Project \X User
        BY ConstantsAssumption
      <3>2. confused' = (confused \ {<<p, UserOf[s]>>})
                           \cup Confuses(s, p, {UserOf[x] : x \in activeUsers[p] \ {s}})
        BY <1>4 DEF HandleLeaveBoard
      <3> QED
        BY <3>1, <3>2 DEF Confuses, Typed, TypeOK
    <2> QED
      BY <1>4, <2>1, <2>2, <2>3 DEF HandleLeaveBoard, Typed, TypeOK
  <1>5. ASSUME NEW s \in Socket, NEW p \in Project, NEW t \in Task, NEW place \in Column \cup {Off},
               Relay(s, p, t, place)
        PROVE  TypeOK' /\ UNCHANGED <<tasks, requests>>
    <2>1. shown' \in [Socket -> [Project -> [Task -> Column \cup {Off}]]]
      BY <1>5 DEF Relay, Typed, TypeOK
    <2>2. misled' \subseteq Socket \X Project \X Task
      BY <1>5 DEF Relay, Typed, TypeOK
    <2> QED
      BY <1>5, <2>1, <2>2 DEF Relay, presence, Typed, TypeOK
  <1>6. CASE Restart
    <2>1. TypeOK'
      BY <1>6, Rows DEF Restart, Typed, TypeOK
    <2>2. Placed'
      <3>1. \A r \in Request : requests'[r] = Idle
        BY <1>6 DEF Restart
      <3> QED
        BY <1>6, <3>1, Rows DEF Restart, Typed, Placed
    <2> QED
      BY <2>1, <2>2 DEF Typed
  <1>7. ASSUME UNCHANGED <<tasks, requests>> PROVE Placed'
    BY <1>7 DEF Typed, Placed
  <1> QED
    BY <1>1, <1>2, <1>3, <1>4, <1>5, <1>6, <1>7 DEF Gateway, Typed

\* What a step of a request makes of the slots.
LEMMA Becoming ==
  ASSUME TypeOK, NEW r \in Request, NEW q, Becomes(r, q)
  PROVE  \A x \in Request : requests'[x] = IF x = r THEN q ELSE requests[x]
  BY DEF TypeOK, Becomes

LEMMA BeginsTyped ==
  ASSUME Typed, Begins
  PROVE  Typed'
  <1>1. PICK r \in Request, t \in Task :
            \/ \E c \in Column : BeginCreate(r, t, c)
            \/ \E entity \in TaskRow, room \in Project, told \in {"moved", "deleted", "nothing"} :
                   LoadTask(r, t, entity, room, told)
    BY DEF Begins
  <1>2. CASE \E c \in Column : BeginCreate(r, t, c)
    <2>1. PICK c \in Column : BeginCreate(r, t, c)
      BY <1>2
    <2> DEFINE q == [Idle EXCEPT !.pc = "insert", !.task = t, !.room = ProjectOf[c], !.told = "created",
                                 !.entity = [row |-> "there", column |-> c, deletedAt |-> "null"]]
    <2>2. q \in RequestState
      BY Rows, ConstantsAssumption DEF RequestState, TaskRow, RowState
    <2>3. /\ q.pc = "insert" /\ q.task = t /\ q.room = ProjectOf[c] /\ q.told = "created"
          /\ q.entity.row = "there" /\ q.entity.column = c /\ q.entity.deletedAt = "null"
      BY DEF Idle
    <2>4. requests[r].pc = "idle" /\ tasks[t].row = "none" /\ Becomes(r, q)
      BY <2>1 DEF BeginCreate
    <2>5. \A x \in Request : requests[x].pc # "idle" => requests[x].task # t
      BY <2>1, <2>4 DEF BeginCreate, Typed, TypeOK, RequestState, Placed
    <2> HIDE DEF q
    <2>6. \A x \in Request : requests'[x] = IF x = r THEN q ELSE requests[x]
      BY <2>4, Becoming DEF Typed
    <2>7. UNCHANGED <<presence, tasks, followers, histories>>
      BY <2>1 DEF BeginCreate
    <2>8. TypeOK'
      BY <2>2, <2>4, <2>7 DEF Becomes, Typed, TypeOK, presence, followers, histories
    <2>9. Placed'
      BY <2>3, <2>4, <2>5, <2>6, <2>7 DEF Typed, Placed
    <2> QED
      BY <2>8, <2>9 DEF Typed
  <1>3. CASE \E entity \in TaskRow, room \in Project, told \in {"moved", "deleted", "nothing"} :
                 LoadTask(r, t, entity, room, told)
    <2>1. PICK entity \in TaskRow, room \in Project, told \in {"moved", "deleted", "nothing"} :
                 LoadTask(r, t, entity, room, told)
      BY <1>3
    <2> DEFINE q == [pc |-> "select", task |-> t, entity |-> entity, plan |-> {},
                     room |-> room, told |-> told]
    <2>2. q \in RequestState
      BY DEF RequestState
    <2>3. /\ requests[r].pc = "idle" /\ Visible(tasks[t]) /\ Handler(t, entity, room, told)
          /\ Becomes(r, q) /\ UNCHANGED <<presence, tasks, followers, histories>>
      BY <2>1 DEF LoadTask
    <2>4. tasks[t] \in TaskRow /\ tasks[t].row = "there" /\ tasks[t].column \in Column
      BY <2>3 DEF Visible, Exists, Typed, TypeOK, Placed
    <2>5. entity.row = "there" /\ entity.column \in Column
      BY <2>3, <2>4 DEF Handler, TaskRow
    <2>6. \A x \in Request : requests'[x] = IF x = r THEN q ELSE requests[x]
      BY <2>3, Becoming DEF Typed
    <2>7. TypeOK'
      BY <2>2, <2>3 DEF Becomes, Typed, TypeOK, presence, followers, histories
    <2>8. Placed'
      BY <2>3, <2>4, <2>5, <2>6 DEF Typed, Placed
    <2> QED
      BY <2>7, <2>8 DEF Typed
  <1> QED
    BY <1>1, <1>2, <1>3

\* The statement of a save keeps the row in the table and in a column.
LEMMA SavedRow ==
  ASSUME Typed, NEW r \in Request, requests[r].pc = "write"
  PROVE  LET q == requests[r]
             new == SavedTask(q.plan, q.entity, tasks[q.task])
         IN /\ q \in RequestState /\ new \in TaskRow
            /\ new.row = "there" /\ new.column \in Column
            /\ tasks[q.task] \in TaskRow /\ tasks[q.task].row = "there" /\ tasks[q.task].column \in Column
  <1> DEFINE q == requests[r]
             old == tasks[q.task]
  <1>1. q \in RequestState /\ q.entity \in TaskRow /\ old \in TaskRow
    BY DEF Typed, TypeOK, RequestState
  <1>2. old.row = "there" /\ old.column \in Column /\ q.entity.column \in Column
    BY <1>1 DEF Typed, Placed, RequestState
  <1> QED
    BY <1>1, <1>2 DEF SavedTask, Written, TaskRow

\* A request goes on with the task it has, which it leaves in the table.
LEMMA AdvancePlaced ==
  ASSUME Typed, NEW r \in Request, NEW q, requests[r].pc # "idle",
         q.task = requests[r].task, q.entity = requests[r].entity, q.pc \in {"write", "tell"},
         \A x \in Request : requests'[x] = IF x = r THEN q ELSE requests[x],
         \A t \in Task \ {q.task} : tasks'[t] = tasks[t],
         tasks'[q.task].row = "there", tasks'[q.task].column \in Column
  PROVE  Placed'
  <1>1. \A t \in Task : tasks'[t].row # "none" => tasks'[t].row = "there" /\ tasks'[t].column \in Column
    BY DEF Typed, Placed
  <1>2. \A x \in Request : requests[x].task \in Task
    BY DEF Typed, TypeOK, RequestState
  <1>3. ASSUME NEW x \in Request, x # r
        PROVE  /\ requests[x].pc # "idle" => requests[x].entity.row = "there" /\ requests[x].entity.column \in Column
               /\ requests[x].pc \in {"select", "write", "tell"} => tasks'[requests[x].task].row = "there"
               /\ requests[x].pc = "insert" =>
                    /\ requests[x].task # q.task
                    /\ tasks'[requests[x].task].row = "none" /\ requests[x].entity.deletedAt = "null"
                    /\ requests[x].told = "created" /\ requests[x].room = ProjectOf[requests[x].entity.column]
                    /\ \A y \in Request \ {x} : requests[y].pc # "idle" => requests[y].task # requests[x].task
    BY <1>2, <1>3 DEF Typed, Placed
  <1>4. q.entity.row = "there" /\ q.entity.column \in Column
    BY DEF Typed, Placed
  <1> QED
    BY <1>1, <1>3, <1>4 DEF Placed

LEMMA ContinuesTyped ==
  ASSUME Typed, NEW r \in Request,
         InsertTask(r) \/ SelectTask(r) \/ WriteTask(r) \/ Broadcast(r) \/ Abort(r)
  PROVE  Typed'
  <1> DEFINE q == requests[r]
             t == q.task
  <1>1. q \in RequestState /\ t \in Task /\ q.entity \in TaskRow
    BY DEF Typed, TypeOK, RequestState
  <1>2. CASE InsertTask(r)
    <2>1. /\ q.pc = "insert" /\ tasks' = [tasks EXCEPT ![t] = q.entity]
          /\ Becomes(r, [q EXCEPT !.pc = "tell"]) /\ UNCHANGED <<presence, followers, histories>>
      BY <1>2 DEF InsertTask
    <2>2. \A x \in Request : requests'[x] = IF x = r THEN [q EXCEPT !.pc = "tell"] ELSE requests[x]
      BY <2>1, Becoming DEF Typed
    <2>3. TypeOK'
      BY <1>1, <2>1 DEF Becomes, Typed, TypeOK, RequestState, presence, followers, histories
    <2>4. \A x \in Task : tasks'[x] = IF x = t THEN q.entity ELSE tasks[x]
      BY <2>1 DEF Typed, TypeOK
    <2>5. q.entity.row = "there" /\ q.entity.column \in Column
      BY <2>1 DEF Typed, Placed
    <2>6. Placed'
      <3> DEFINE n == [q EXCEPT !.pc = "tell"]
      <3>1. n.task = t /\ n.entity = q.entity /\ n.pc = "tell"
        BY <1>1 DEF RequestState
      <3>2. \A x \in Request : requests'[x] = IF x = r THEN n ELSE requests[x]
        BY <2>2
      <3>3. \A x \in Task \ {n.task} : tasks'[x] = tasks[x]
        BY <2>4, <3>1
      <3>4. tasks'[n.task].row = "there" /\ tasks'[n.task].column \in Column
        BY <1>1, <2>4, <2>5, <3>1
      <3> HIDE DEF n
      <3> QED
        BY <2>1, <3>1, <3>2, <3>3, <3>4, AdvancePlaced
    <2> QED
      BY <2>3, <2>6 DEF Typed
  <1>3. CASE SelectTask(r)
    <2> DEFINE plan == SavePlan(q.entity, tasks[t])
    <2>1. /\ q.pc = "select" /\ UNCHANGED <<presence, tasks, followers, histories>>
          /\ Becomes(r, [q EXCEPT !.pc = "write", !.plan = plan])
      BY <1>3 DEF SelectTask
    <2>2. plan \in SUBSET DOMAIN NoTaskRow
      BY <1>1 DEF SavePlan, TaskRow, NoTaskRow
    <2> HIDE DEF plan
    <2>3. \A x \in Request :
             requests'[x] = IF x = r THEN [q EXCEPT !.pc = "write", !.plan = plan] ELSE requests[x]
      BY <2>1, Becoming DEF Typed
    <2>4. TypeOK'
      BY <1>1, <2>1, <2>2 DEF Becomes, Typed, TypeOK, RequestState, presence, followers, histories
    <2>5. Placed'
      <3> DEFINE n == [q EXCEPT !.pc = "write", !.plan = plan]
      <3>1. n.task = t /\ n.entity = q.entity /\ n.pc = "write"
        BY <1>1 DEF RequestState
      <3>2. tasks[t].row = "there" /\ tasks[t].column \in Column
        BY <1>1, <2>1 DEF Typed, Placed
      <3> HIDE DEF n
      <3> QED
        BY <1>1, <2>1, <2>3, <3>1, <3>2, AdvancePlaced DEF n
    <2> QED
      BY <2>4, <2>5 DEF Typed
  <1>4. CASE WriteTask(r)
    <2> DEFINE old == tasks[t]
               new == SavedTask(q.plan, q.entity, old)
    <2>1. /\ q.pc = "write" /\ tasks' = [tasks EXCEPT ![t] = new]
          /\ Becomes(r, [q EXCEPT !.pc = "tell"]) /\ UNCHANGED <<presence, followers, confused, misled>>
          /\ crossed' \subseteq crossed \cup {t}
          /\ strayed' \subseteq strayed \cup {<<t, ProjectOf[old.column]>>}
      BY <1>4 DEF WriteTask
    <2>2. /\ new \in TaskRow /\ new.row = "there" /\ new.column \in Column
          /\ old.row = "there" /\ old.column \in Column
      BY <2>1, SavedRow
    <2> HIDE DEF new
    <2>3. \A x \in Request : requests'[x] = IF x = r THEN [q EXCEPT !.pc = "tell"] ELSE requests[x]
      BY <2>1, Becoming DEF Typed
    <2>4. <<t, ProjectOf[old.column]>> \in Task \X Project
      BY <1>1, <2>2, ConstantsAssumption
    <2>5. TypeOK'
      BY <1>1, <2>1, <2>2, <2>4 DEF Becomes, Typed, TypeOK, RequestState, presence, followers
    <2>6. \A x \in Task : tasks'[x] = IF x = t THEN new ELSE tasks[x]
      BY <2>1 DEF Typed, TypeOK
    <2>7. Placed'
      <3> DEFINE n == [q EXCEPT !.pc = "tell"]
      <3>1. n.task = t /\ n.entity = q.entity /\ n.pc = "tell"
        BY <1>1 DEF RequestState
      <3>2. \A x \in Request : requests'[x] = IF x = r THEN n ELSE requests[x]
        BY <2>3
      <3>3. \A x \in Task \ {n.task} : tasks'[x] = tasks[x]
        BY <2>6, <3>1
      <3>4. tasks'[n.task].row = "there" /\ tasks'[n.task].column \in Column
        BY <1>1, <2>2, <2>6, <3>1
      <3> HIDE DEF n
      <3> QED
        BY <2>1, <3>1, <3>2, <3>3, <3>4, AdvancePlaced
    <2> QED
      BY <2>5, <2>7 DEF Typed
  <1>5. CASE Broadcast(r)
    <2>1. /\ q.pc = "tell" /\ Becomes(r, Idle)
          /\ UNCHANGED <<presence, tasks, seen, confused, crossed, strayed>> /\ misled' \subseteq misled
          /\ shown' = [s \in Socket |-> IF s \in rooms[q.room]
                          THEN [shown[s] EXCEPT ![q.room][t] = After(q, @)] ELSE shown[s]]
      BY <1>5 DEF Broadcast
    <2>2. ASSUME NEW place \in Column \cup {Off} PROVE After(q, place) \in Column \cup {Off}
      BY <1>1 DEF After, TaskRow
    <2>3. shown' \in [Socket -> [Project -> [Task -> Column \cup {Off}]]]
      BY <1>1, <2>1, <2>2 DEF Typed, TypeOK, RequestState
    <2>4. TypeOK'
      BY <2>1, <2>3, Rows DEF Becomes, Typed, TypeOK, presence
    <2>5. \A x \in Request : requests'[x] = IF x = r THEN Idle ELSE requests[x]
      BY <2>1, Becoming DEF Typed
    <2>6. Placed'
      BY <2>1, <2>5, Rows DEF Typed, Placed
    <2> QED
      BY <2>4, <2>6 DEF Typed
  <1>6. CASE Abort(r)
    <2>1. /\ Becomes(r, Idle) /\ UNCHANGED <<presence, tasks, followers, confused, strayed, misled>>
          /\ crossed' \subseteq crossed \cup {t}
      BY <1>6 DEF Abort
    <2>2. TypeOK'
      BY <1>1, <2>1, Rows DEF Becomes, Typed, TypeOK, presence, followers
    <2>3. \A x \in Request : requests'[x] = IF x = r THEN Idle ELSE requests[x]
      BY <2>1, Becoming DEF Typed
    <2>4. Placed'
      BY <2>1, <2>3, Rows DEF Typed, Placed
    <2> QED
      BY <2>2, <2>4 DEF Typed
  <1> QED
    BY <1>2, <1>3, <1>4, <1>5, <1>6

LEMMA NextTyped == Typed /\ [Next]_vars => Typed'
  <1>1. Typed /\ UNCHANGED vars => Typed'
    BY DEF vars, presence, followers, histories, Typed, TypeOK, Placed
  <1> QED
    BY <1>1, GatewayTyped, BeginsTyped, ContinuesTyped DEF Next, Continues

\* The map, the rooms, the sockets, the tables, the requests of the services and
\* what followers show keep their types.
THEOREM TypeCorrect == Spec => []TypeOK
  <1>1. Typed => TypeOK
    BY DEF Typed
  <1> QED
    BY InitTyped, NextTyped, <1>1, PTL DEF Spec

------------------------------------------------------------------------------
(* Who is on a board *)

\* Requests change neither sockets nor maps.
LEMMA RequestsKeepPresence ==
  ASSUME Begins \/ Continues \/ UNCHANGED vars
  PROVE  UNCHANGED <<presence, seen, confused>>
  BY DEF Begins, Continues, BeginCreate, LoadTask, InsertTask, SelectTask, WriteTask,
         Broadcast, Abort, vars, followers, histories

LEMMA MapKeeps ==
  ASSUME Typed, MapIsRooms, [Next]_vars
  PROVE  MapIsRooms'
  <1>1. ASSUME NEW s \in Socket, Connect(s) \/ Expire(s) PROVE MapIsRooms'
    BY <1>1 DEF Connect, Expire, Typed, TypeOK, MapIsRooms
  <1>2. ASSUME NEW s \in Socket, HandleDisconnect(s) PROVE MapIsRooms'
    BY <1>2 DEF HandleDisconnect, BoardsOf, Typed, TypeOK, MapIsRooms
  <1>3. ASSUME NEW s \in Socket, NEW p \in Project, HandleJoinBoard(s, p) \/ HandleLeaveBoard(s, p)
        PROVE  MapIsRooms'
    <2>1. /\ \A b \in Project \ {p} : rooms'[b] = rooms[b] /\ activeUsers'[b] = activeUsers[b]
          /\ \/ rooms'[p] = rooms[p] \cup {s} /\ activeUsers'[p] = activeUsers[p] \cup {s}
             \/ rooms'[p] = rooms[p] \ {s} /\ activeUsers'[p] = activeUsers[p] \ {s}
          /\ sockets[s] = "open" /\ sockets' = sockets
      BY <1>3 DEF HandleJoinBoard, HandleLeaveBoard, MayAct, Typed, TypeOK
    <2> QED
      BY <2>1 DEF MapIsRooms
  <1>4. ASSUME NEW s \in Socket, NEW p \in Project, NEW t \in Task, NEW place \in Column \cup {Off},
               Relay(s, p, t, place)
        PROVE  MapIsRooms'
    BY <1>4 DEF Relay, presence, MapIsRooms
  <1>5. CASE Restart
    BY <1>5 DEF Restart, Nobody, MapIsRooms
  <1>6. CASE Begins \/ Continues \/ UNCHANGED vars
    BY <1>6, RequestsKeepPresence DEF presence, MapIsRooms
  <1> QED
    BY <1>1, <1>2, <1>3, <1>4, <1>5, <1>6 DEF Next, Gateway

\* The map the gateway keeps lists the sockets in socket.io's rooms, all of
\* them open, for any number of sockets and boards.
THEOREM MapIsAlwaysRooms == Spec => []MapIsRooms
  <1>1. Init => MapIsRooms
    BY DEF Init, Nobody, MapIsRooms
  <1> QED
    BY InitTyped, NextTyped, <1>1, MapKeeps, PTL DEF Spec

\* One more or one less socket on a board changes who is present by its user
\* at most.
LEMMA PresentWith ==
  ASSUME TypeOK, NEW s \in Socket, NEW p \in Project, activeUsers'[p] = activeUsers[p] \cup {s}
  PROVE  Present(p)' = Present(p) \cup {UserOf[s]}
  BY DEF Present

LEMMA PresentWithout ==
  ASSUME TypeOK, NEW s \in Socket, NEW p \in Project, activeUsers'[p] = activeUsers[p] \ {s}
  PROVE  /\ Present(p)' = {UserOf[x] : x \in activeUsers[p] \ {s}}
         /\ \A u \in User \ {UserOf[s]} : u \in Present(p)' <=> u \in Present(p)
  BY DEF Present

LEMMA SeenKeeps ==
  ASSUME Typed, MapIsRooms, SeenArePresent, [Next]_vars
  PROVE  SeenArePresent'
  <1>1. ASSUME NEW s \in Socket, Connect(s) \/ Expire(s) PROVE SeenArePresent'
    BY <1>1 DEF Connect, Expire, followers, histories, SeenArePresent, Present
  <1>2. ASSUME NEW s \in Socket, NEW p \in Project, HandleJoinBoard(s, p) PROVE SeenArePresent'
    <2> DEFINE u == UserOf[s]
    <2>1. /\ \A b \in Project : rooms'[b] = IF b = p THEN rooms[p] \cup {s} ELSE rooms[b]
          /\ \A b \in Project : activeUsers'[b] = IF b = p THEN activeUsers[p] \cup {s} ELSE activeUsers[b]
          /\ confused' = confused \ {<<p, u>>}
      BY <1>2 DEF HandleJoinBoard, Typed, TypeOK
    <2>2. \A x \in Socket, b \in Project :
             seen'[x][b] = IF b # p \/ x \notin rooms[p] \cup {s} THEN seen[x][b]
                           ELSE IF x = s THEN Present(p) \cup {u} ELSE seen[x][p] \cup {u}
      BY <1>2 DEF HandleJoinBoard, Joined, Told, Typed, TypeOK
    <2>3. Present(p)' = Present(p) \cup {u} /\ \A b \in Project \ {p} : Present(b)' = Present(b)
      BY <2>1, PresentWith DEF Typed, Present
    <2>4. \A b \in Project : rooms[b] \subseteq Socket
      BY DEF Typed, TypeOK
    <2>5. ASSUME NEW b \in Project, NEW v \in User, <<b, v>> \notin confused', NEW x \in rooms'[b]
          PROVE  v \in seen'[x][b] <=> v \in Present(b)'
      <3>1. x \in Socket /\ (x \in rooms[b] \/ (b = p /\ x = s))
        BY <1>2, <2>1, <2>4, <2>5
      <3>2. <<b, v>> \notin confused \/ (b = p /\ v = u)
        BY <2>1, <2>5
      <3>3. CASE b # p
        <4>1. <<b, v>> \notin confused /\ x \in rooms[b] /\ seen'[x][b] = seen[x][b]
          BY <2>2, <3>1, <3>2, <3>3
        <4> QED
          BY <2>3, <3>3, <4>1 DEF SeenArePresent
      <3>4. CASE b = p /\ x = s
        BY <2>2, <2>3, <3>1, <3>4
      <3>5. CASE b = p /\ x # s
        <4>1. x \in rooms[p] /\ seen'[x][p] = seen[x][p] \cup {u}
          BY <2>2, <3>1, <3>5
        <4> QED
          BY <2>3, <3>2, <3>5, <4>1 DEF SeenArePresent
      <3> QED
        BY <3>3, <3>4, <3>5
    <2> QED
      BY <2>5 DEF SeenArePresent
  <1>3. ASSUME NEW s \in Socket, NEW p \in Project, HandleLeaveBoard(s, p) PROVE SeenArePresent'
    <2> DEFINE u == UserOf[s]
               others == {UserOf[x] : x \in activeUsers[p] \ {s}}
    <2>1. /\ \A b \in Project : rooms'[b] = IF b = p THEN rooms[p] \ {s} ELSE rooms[b]
          /\ \A b \in Project : activeUsers'[b] = IF b = p THEN activeUsers[p] \ {s} ELSE activeUsers[b]
          /\ confused' = (confused \ {<<p, u>>}) \cup Confuses(s, p, others)
      BY <1>3 DEF HandleLeaveBoard, Typed, TypeOK
    <2>2. \A x \in Socket, b \in Project : x # s =>
             seen'[x][b] = IF b # p \/ x \notin rooms[p] THEN seen[x][b] ELSE seen[x][p] \ {u}
      BY <1>3 DEF HandleLeaveBoard, Told, Typed, TypeOK
    <2>3. \A b \in Project : b # p => seen'[s][b] = seen[s][b]
      BY <1>3 DEF HandleLeaveBoard, Told, Typed, TypeOK
    <2>4. /\ Present(p)' = others /\ \A b \in Project \ {p} : Present(b)' = Present(b)
          /\ \A v \in User \ {u} : v \in Present(p)' <=> v \in Present(p)
      BY <2>1, PresentWithout DEF Typed, Present
    <2>5. \A b \in Project : rooms[b] \subseteq Socket
      BY DEF Typed, TypeOK
    <2>6. \A b \in Project, v \in User :
             <<b, v>> \notin confused' => <<b, v>> \notin confused \/ (b = p /\ v = u)
      BY <2>1
    <2>7. <<p, u>> \notin confused' => u \notin others
      BY <2>1 DEF Confuses
    <2> HIDE DEF others
    <2>8. ASSUME NEW b \in Project, NEW v \in User, <<b, v>> \notin confused', NEW x \in rooms'[b]
          PROVE  v \in seen'[x][b] <=> v \in Present(b)'
      <3>1. x \in rooms[b] /\ x \in Socket /\ (b = p => x # s)
        BY <2>1, <2>5, <2>8
      <3>2. CASE b # p
        <4>1. <<b, v>> \notin confused /\ seen'[x][b] = seen[x][b]
          BY <2>2, <2>3, <2>6, <2>8, <3>1, <3>2
        <4> QED
          BY <2>4, <3>1, <3>2, <4>1 DEF SeenArePresent
      <3>3. CASE b = p /\ v = u
        BY <2>2, <2>4, <2>7, <2>8, <3>1, <3>3
      <3>4. CASE b = p /\ v # u
        BY <2>2, <2>4, <2>6, <2>8, <3>1, <3>4 DEF SeenArePresent
      <3> QED
        BY <3>2, <3>3, <3>4
    <2> QED
      BY <2>8 DEF SeenArePresent
  <1>4. ASSUME NEW s \in Socket, HandleDisconnect(s) PROVE SeenArePresent'
    <2> DEFINE u == UserOf[s]
               others(b) == {UserOf[x] : x \in activeUsers[b] \ {s}}
    <2>1. /\ \A b \in Project : rooms'[b] = rooms[b] \ {s} /\ activeUsers'[b] = activeUsers[b] \ {s}
          /\ confused' = (confused \ {<<b, u>> : b \in BoardsOf(s)})
                           \cup UNION {Confuses(s, b, others(b)) : b \in BoardsOf(s)}
      BY <1>4 DEF HandleDisconnect, BoardsOf, Typed, TypeOK
    <2>2. \A x \in Socket, b \in Project : x # s =>
             seen'[x][b] = IF b \in BoardsOf(s) /\ x \in rooms[b] THEN seen[x][b] \ {u} ELSE seen[x][b]
      BY <1>4 DEF HandleDisconnect
    <2>3. /\ \A b \in Project : Present(b)' = others(b)
          /\ \A b \in Project : \A v \in User \ {u} : v \in Present(b)' <=> v \in Present(b)
      BY <2>1, PresentWithout DEF Typed
    <2>4. \A b \in Project \ BoardsOf(s) : activeUsers'[b] = activeUsers[b] /\ Present(b)' = Present(b)
      BY <2>1 DEF BoardsOf, Present
    <2>5. \A b \in Project : rooms[b] \subseteq Socket
      BY DEF Typed, TypeOK
    <2>6. \A b \in Project, v \in User :
             <<b, v>> \notin confused' => <<b, v>> \notin confused \/ (b \in BoardsOf(s) /\ v = u)
      BY <2>1
    <2>7. \A b \in BoardsOf(s) : <<b, u>> \notin confused' => u \notin others(b)
      BY <2>1 DEF Confuses
    <2>8. ASSUME NEW b \in Project, NEW v \in User, <<b, v>> \notin confused', NEW x \in rooms'[b]
          PROVE  v \in seen'[x][b] <=> v \in Present(b)'
      <3>1. x \in rooms[b] /\ x \in Socket /\ x # s
        BY <2>1, <2>5, <2>8
      <3>2. CASE b \in BoardsOf(s) /\ v = u
        BY <2>2, <2>3, <2>7, <2>8, <3>1, <3>2
      <3>3. CASE b \in BoardsOf(s) /\ v # u
        BY <2>2, <2>3, <2>6, <2>8, <3>1, <3>3 DEF SeenArePresent
      <3>4. CASE b \notin BoardsOf(s)
        <4>1. <<b, v>> \notin confused /\ seen'[x][b] = seen[x][b] /\ Present(b)' = Present(b)
          BY <2>2, <2>4, <2>6, <2>8, <3>1, <3>4
        <4> QED
          BY <3>1, <4>1 DEF SeenArePresent
      <3> QED
        BY <3>2, <3>3, <3>4
    <2> QED
      BY <2>8 DEF SeenArePresent
  <1>5. ASSUME NEW s \in Socket, NEW p \in Project, NEW t \in Task, NEW place \in Column \cup {Off},
               Relay(s, p, t, place)
        PROVE  SeenArePresent'
    BY <1>5 DEF Relay, presence, SeenArePresent, Present
  <1>6. CASE Restart
    BY <1>6 DEF Restart, Nobody, SeenArePresent
  <1>7. CASE Begins \/ Continues \/ UNCHANGED vars
    BY <1>7, RequestsKeepPresence DEF presence, SeenArePresent, Present
  <1> QED
    BY <1>1, <1>2, <1>3, <1>4, <1>5, <1>6, <1>7 DEF Next, Gateway

\* Who follows a board shows the users who are on it, but for a user one of
\* whose several sockets has left: user:left does not count sockets.
THEOREM SeenAreAlwaysPresent == Spec => []SeenArePresent
  <1>1. Init => MapIsRooms /\ SeenArePresent
    BY DEF Init, Nobody, MapIsRooms, SeenArePresent
  <1> QED
    BY InitTyped, NextTyped, <1>1, MapKeeps, SeenKeeps, PTL DEF Spec

------------------------------------------------------------------------------
(* What followers show of the tasks *)

\* A request about to say of task t that its place on board p has changed.
Telling(r, t, p) ==
    LET q == requests[r]
    IN q.pc = "tell" /\ q.task = t /\ q.room = p /\ q.told # "nothing"

\* As long as no two saves of its task cross, a request that saves holds what
\* its handler made of the row as it still is ...
HoldsRow(r) ==
    LET q == requests[r]
    IN q.pc \in Saving /\ q.task \notin crossed =>
         /\ Visible(tasks[q.task]) /\ Handler(q.task, q.entity, q.room, q.told)
         /\ q.pc = "write" => q.plan = SavePlan(q.entity, tasks[q.task])

\* ... and the event it sends at the end is the only one to come, and true.
TellsTruth(r) ==
    LET q == requests[r]
    IN q.pc = "tell" /\ q.task \notin crossed =>
         /\ \A x \in Request \ {r} : requests[x].pc = "tell" => requests[x].task # q.task
         /\ q.told # "nothing" =>
              \A place \in Column \cup {Off} : After(q, place) = PlaceOn(q.room, tasks[q.task])

StrayedLeft ==
    \A t \in Task, p \in Project :
        <<t, p>> \in strayed => tasks[t].row = "there" /\ ProjectOf[tasks[t].column] # p

ShownOrTold ==
    \A t \in Task, p \in Project : t \notin crossed /\ <<t, p>> \notin strayed =>
        \A s \in rooms[p] : \/ <<s, p, t>> \in misled
                            \/ shown[s][p][t] = PlaceOn(p, tasks[t])
                            \/ \E r \in Request : Telling(r, t, p)

ShownInv ==
    /\ StrayedLeft /\ ShownOrTold
    /\ \A r \in Request : HoldsRow(r) /\ TellsTruth(r)

\* Joining loads the board, a relay that is not so misleads whom it reaches, and
\* a restart empties the rooms.
LEMMA GatewayShows ==
  ASSUME Typed, ShownInv, Gateway
  PROVE  ShownInv'
  <1>1. CASE Restart
    <2>1. \A r \in Request : requests'[r].pc = "idle"
      BY <1>1, Rows DEF Restart
    <2>2. \A p \in Project : rooms'[p] = {}
      BY <1>1 DEF Restart, Nobody
    <2>3. StrayedLeft'
      BY <1>1 DEF Restart, ShownInv, StrayedLeft
    <2> QED
      BY <2>1, <2>2, <2>3 DEF ShownInv, ShownOrTold, HoldsRow, TellsTruth, Saving
  <1>2. ASSUME UNCHANGED <<tasks, requests, crossed, strayed>>,
               \A t \in Task, p \in Project : \A s \in rooms'[p] :
                  \/ <<s, p, t>> \in misled'
                  \/ shown'[s][p][t] = PlaceOn(p, tasks[t])
                  \/ s \in rooms[p] /\ shown'[s][p][t] = shown[s][p][t] /\ <<s, p, t>> \notin misled
        PROVE  ShownInv'
    <2>1. \A r \in Request : HoldsRow(r)' /\ TellsTruth(r)'
      <3>1. \A u, entity, room, told : Handler(u, entity, room, told)' <=> Handler(u, entity, room, told)
        BY <1>2 DEF Handler
      <3>2. \A u, b : /\ Visible(tasks[u])' <=> Visible(tasks[u])
                      /\ PlaceOn(b, tasks[u])' = PlaceOn(b, tasks[u])
        BY <1>2 DEF PlaceOn, Visible, Exists
      <3>3. \A q, place : After(q, place)' = After(q, place)
        BY DEF After
      <3>4. \A r \in Request : HoldsRow(r)'
        BY <1>2, <3>1, <3>2 DEF ShownInv, HoldsRow, Saving
      <3>5. \A r \in Request : TellsTruth(r)'
        BY <1>2, <3>2, <3>3 DEF ShownInv, TellsTruth
      <3> QED
        BY <3>4, <3>5
    <2>2. \A r \in Request, t \in Task, p \in Project : Telling(r, t, p)' <=> Telling(r, t, p)
      BY <1>2 DEF Telling
    <2>3. \A t \in Task, p \in Project : PlaceOn(p, tasks[t])' = PlaceOn(p, tasks[t])
      BY <1>2 DEF PlaceOn, Visible, Exists
    <2>4. StrayedLeft'
      BY <1>2 DEF ShownInv, StrayedLeft
    <2>5. ShownOrTold'
      BY <1>2, <2>2, <2>3 DEF ShownInv, ShownOrTold
    <2> QED
      BY <2>1, <2>4, <2>5 DEF ShownInv
  <1>3. ASSUME NEW s \in Socket, Connect(s) \/ Expire(s) PROVE ShownInv'
    BY <1>2, <1>3 DEF Connect, Expire, followers, histories
  <1>4. ASSUME NEW s \in Socket, HandleDisconnect(s) PROVE ShownInv'
    <2>1. /\ UNCHANGED <<tasks, requests, crossed, strayed>>
          /\ \A p \in Project : rooms'[p] = rooms[p] \ {s}
          /\ \A x \in Socket \ {s} : shown'[x] = shown[x]
          /\ \A x \in Socket \ {s}, b \in Project, u \in Task : <<x, b, u>> \in misled => <<x, b, u>> \in misled'
      BY <1>4 DEF HandleDisconnect, Typed, TypeOK
    <2>2. \A p \in Project : rooms[p] \subseteq Socket
      BY DEF Typed, TypeOK
    <2> QED
      BY <1>2, <2>1, <2>2
  <1>5. ASSUME NEW s \in Socket, NEW p \in Project, HandleJoinBoard(s, p) PROVE ShownInv'
    <2>1. /\ UNCHANGED <<tasks, requests, crossed, strayed>>
          /\ \A b \in Project : rooms'[b] = IF b = p THEN rooms[p] \cup {s} ELSE rooms[b]
          /\ \A x \in Socket, b \in Project :
                shown'[x][b] = IF x = s /\ b = p THEN [t \in Task |-> PlaceOn(p, tasks[t])] ELSE shown[x][b]
          /\ \A x \in Socket, b \in Project, u \in Task :
                (x # s \/ b # p) /\ <<x, b, u>> \in misled => <<x, b, u>> \in misled'
      BY <1>5 DEF HandleJoinBoard, Typed, TypeOK
    <2>2. \A b \in Project : rooms'[b] \subseteq Socket
      BY <2>1 DEF Typed, TypeOK
    <2>3. ASSUME NEW u \in Task, NEW b \in Project, NEW x \in rooms'[b]
          PROVE  \/ <<x, b, u>> \in misled'
                 \/ shown'[x][b][u] = PlaceOn(b, tasks[u])
                 \/ x \in rooms[b] /\ shown'[x][b][u] = shown[x][b][u] /\ <<x, b, u>> \notin misled
      <3>1. CASE x = s /\ b = p
        BY <2>1, <2>2, <2>3, <3>1
      <3>2. CASE ~(x = s /\ b = p)
        <4>1. /\ x \in rooms[b] /\ shown'[x][b] = shown[x][b]
              /\ <<x, b, u>> \in misled => <<x, b, u>> \in misled'
          BY <2>1, <2>2, <2>3, <3>2
        <4> QED
          BY <4>1
      <3> QED
        BY <3>1, <3>2
    <2> QED
      BY <1>2, <2>1, <2>3
  <1>6. ASSUME NEW s \in Socket, NEW p \in Project, HandleLeaveBoard(s, p) PROVE ShownInv'
    <2>1. /\ UNCHANGED <<tasks, requests, crossed, strayed>>
          /\ \A b \in Project : rooms'[b] = IF b = p THEN rooms[p] \ {s} ELSE rooms[b]
          /\ \A x \in Socket, b \in Project : x # s \/ b # p => shown'[x][b] = shown[x][b]
          /\ \A x \in Socket, b \in Project, u \in Task :
                (x # s \/ b # p) /\ <<x, b, u>> \in misled => <<x, b, u>> \in misled'
      BY <1>6 DEF HandleLeaveBoard, Typed, TypeOK
    <2>2. \A b \in Project : rooms[b] \subseteq Socket
      BY DEF Typed, TypeOK
    <2> QED
      BY <1>2, <2>1, <2>2
  <1>7. ASSUME NEW s \in Socket, NEW p \in Project, NEW t \in Task, NEW place \in Column \cup {Off},
               Relay(s, p, t, place)
        PROVE  ShownInv'
    <2> DEFINE told == (rooms[p] \ {s}) \X {p} \X {t}
    <2>1. /\ UNCHANGED <<tasks, requests, crossed, strayed>> /\ rooms' = rooms
          /\ misled' = IF place = PlaceOn(p, tasks[t]) THEN misled \ told ELSE misled \cup told
          /\ \A x \in Socket, b \in Project, u \in Task :
                shown'[x][b][u] = IF x \in rooms[p] \ {s} /\ b = p /\ u = t THEN place ELSE shown[x][b][u]
      BY <1>7 DEF Relay, presence, Typed, TypeOK
    <2>2. \A b \in Project : rooms[b] \subseteq Socket
      BY DEF Typed, TypeOK
    <2>3. ASSUME NEW u \in Task, NEW b \in Project, NEW x \in rooms'[b]
          PROVE  \/ <<x, b, u>> \in misled'
                 \/ shown'[x][b][u] = PlaceOn(b, tasks[u])
                 \/ x \in rooms[b] /\ shown'[x][b][u] = shown[x][b][u] /\ <<x, b, u>> \notin misled
      <3>1. CASE x \in rooms[p] \ {s} /\ b = p /\ u = t
        <4>1. <<x, b, u>> \in told /\ shown'[x][b][u] = place
          BY <2>1, <2>2, <2>3, <3>1
        <4> QED
          BY <2>1, <3>1, <4>1
      <3>2. CASE ~(x \in rooms[p] \ {s} /\ b = p /\ u = t)
        <4>1. <<x, b, u>> \notin told /\ shown'[x][b][u] = shown[x][b][u]
          BY <2>1, <2>2, <2>3, <3>2
        <4> QED
          BY <2>1, <2>3, <4>1
      <3> QED
        BY <3>1, <3>2
    <2> QED
      BY <1>2, <2>1, <2>3
  <1> QED
    BY <1>1, <1>3, <1>4, <1>5, <1>6, <1>7 DEF Gateway

\* What is still to be said of the tasks a step leaves alone stays to be said,
\* when only requests on task t change.
LEMMA OthersShow ==
  ASSUME Typed, ShownInv, NEW t \in Task, NEW r \in Request,
         \A x \in Request \ {r} : requests'[x] = requests[x],
         requests[r].pc # "idle" => requests[r].task = t,
         requests'[r].pc # "idle" => requests'[r].task = t,
         \A u \in Task \ {t} : tasks'[u] = tasks[u],
         UNCHANGED <<rooms, misled>>,
         \A u \in Task \ {t} : u \in crossed' <=> u \in crossed,
         \A u \in Task \ {t}, p \in Project : <<u, p>> \in strayed' <=> <<u, p>> \in strayed,
         \A u \in Task \ {t}, p \in Project, s \in Socket : shown'[s][p][u] = shown[s][p][u]
  PROVE  /\ \A u \in Task \ {t}, p \in Project : <<u, p>> \in strayed' =>
                tasks'[u].row = "there" /\ ProjectOf[tasks'[u].column] # p
         /\ \A u \in Task \ {t}, p \in Project : u \notin crossed' /\ <<u, p>> \notin strayed' =>
                \A s \in rooms'[p] : \/ <<s, p, u>> \in misled'
                                     \/ shown'[s][p][u] = PlaceOn(p, tasks'[u])
                                     \/ \E x \in Request : Telling(x, u, p)'
         /\ \A x \in Request \ {r} : requests[x].task # t => HoldsRow(x)' /\ TellsTruth(x)'
  <1>1. \A x \in Request, u \in Task \ {t}, p \in Project : Telling(x, u, p) => Telling(x, u, p)'
    BY DEF Telling
  <1>2. \A p \in Project : rooms[p] \subseteq Socket
    BY DEF Typed, TypeOK
  <1>3. \A u \in Task \ {t}, p \in Project : u \notin crossed' /\ <<u, p>> \notin strayed' =>
            \A s \in rooms'[p] : \/ <<s, p, u>> \in misled'
                                 \/ shown'[s][p][u] = PlaceOn(p, tasks'[u])
                                 \/ \E x \in Request : Telling(x, u, p)'
    BY <1>1, <1>2 DEF ShownInv, ShownOrTold
  <1>4. \A u \in Task \ {t}, p \in Project : <<u, p>> \in strayed' =>
            tasks'[u].row = "there" /\ ProjectOf[tasks'[u].column] # p
    BY DEF ShownInv, StrayedLeft
  <1>5. ASSUME NEW x \in Request \ {r}, requests[x].task # t
        PROVE  HoldsRow(x)' /\ TellsTruth(x)'
    <2> DEFINE u == requests[x].task
    <2>1. u \in Task \ {t} /\ requests'[x] = requests[x] /\ tasks'[u] = tasks[u]
          /\ (u \in crossed' <=> u \in crossed)
      BY <1>5 DEF Typed, TypeOK, RequestState
    <2>2. HoldsRow(x) /\ TellsTruth(x)
      BY DEF ShownInv
    <2>3. HoldsRow(x)'
      BY <2>1, <2>2 DEF HoldsRow, Handler, Visible, Exists, SavePlan
    <2>4. \A y \in Request \ {x} : requests'[y].pc = "tell" => requests'[y].task # u
             \/ ~(requests[x].pc = "tell" /\ u \notin crossed)
      BY <1>5, <2>1, <2>2 DEF TellsTruth
    <2>5. TellsTruth(x)'
      BY <2>1, <2>2, <2>4 DEF TellsTruth, After, PlaceOn, Visible, Exists
    <2> QED
      BY <2>3, <2>5
  <1> QED
    BY <1>3, <1>4, <1>5

\* A step after which only the slot of one request differs.
LEMMA QuietShows ==
  ASSUME Typed, ShownInv, NEW r \in Request, NEW q,
         \A x \in Request : requests'[x] = IF x = r THEN q ELSE requests[x],
         UNCHANGED <<tasks, rooms, shown, strayed, misled>>, crossed \subseteq crossed',
         q.pc # "tell", requests[r].pc = "tell" => requests[r].task \in crossed',
         HoldsRow(r)'
  PROVE  ShownInv'
  <1>1. \A x \in Request, t \in Task, p \in Project :
           t \notin crossed' /\ Telling(x, t, p) => Telling(x, t, p)'
    BY DEF Telling
  <1>2. StrayedLeft' /\ ShownOrTold'
    <2>1. \A t \in Task, p \in Project : PlaceOn(p, tasks[t])' = PlaceOn(p, tasks[t])
      BY DEF PlaceOn, Visible, Exists
    <2> QED
      BY <1>1, <2>1 DEF ShownInv, StrayedLeft, ShownOrTold
  <1>3. ASSUME NEW x \in Request, x # r PROVE HoldsRow(x)' /\ TellsTruth(x)'
    <2>1. requests'[x] = requests[x] /\ HoldsRow(x) /\ TellsTruth(x)
      BY <1>3 DEF ShownInv
    <2>2. HoldsRow(x)'
      BY <2>1 DEF HoldsRow, Handler, Visible, Exists, SavePlan
    <2>3. TellsTruth(x)'
      BY <2>1 DEF TellsTruth, After, PlaceOn, Visible, Exists
    <2> QED
      BY <2>2, <2>3
  <1>4. TellsTruth(r)'
    BY DEF TellsTruth
  <1> QED
    BY <1>2, <1>3, <1>4 DEF ShownInv

LEMMA BeginsShow ==
  ASSUME Typed, ShownInv, Begins
  PROVE  ShownInv'
  <1>1. PICK r \in Request, t \in Task :
            \/ \E c \in Column : BeginCreate(r, t, c)
            \/ \E entity \in TaskRow, room \in Project, told \in {"moved", "deleted", "nothing"} :
                   LoadTask(r, t, entity, room, told)
    BY DEF Begins
  <1>2. CASE \E c \in Column : BeginCreate(r, t, c)
    <2>1. PICK c \in Column : BeginCreate(r, t, c)
      BY <1>2
    <2> DEFINE q == [Idle EXCEPT !.pc = "insert", !.task = t, !.room = ProjectOf[c], !.told = "created",
                                 !.entity = [row |-> "there", column |-> c, deletedAt |-> "null"]]
    <2>2. q.pc = "insert" /\ requests[r].pc = "idle" /\ Becomes(r, q)
          /\ UNCHANGED <<tasks, rooms, shown, strayed, misled, crossed>>
      BY <2>1 DEF BeginCreate, Idle, presence, followers, histories
    <2> HIDE DEF q
    <2>3. \A x \in Request : requests'[x] = IF x = r THEN q ELSE requests[x]
      BY <2>2, Becoming DEF Typed
    <2>4. HoldsRow(r)'
      BY <2>2, <2>3 DEF HoldsRow, Saving
    <2> QED
      BY <2>2, <2>3, <2>4, QuietShows
  <1>3. CASE \E entity \in TaskRow, room \in Project, told \in {"moved", "deleted", "nothing"} :
                 LoadTask(r, t, entity, room, told)
    <2>1. PICK entity \in TaskRow, room \in Project, told \in {"moved", "deleted", "nothing"} :
                 LoadTask(r, t, entity, room, told)
      BY <1>3
    <2> DEFINE q == [pc |-> "select", task |-> t, entity |-> entity, plan |-> {},
                     room |-> room, told |-> told]
    <2>2. /\ requests[r].pc = "idle" /\ Visible(tasks[t]) /\ Handler(t, entity, room, told)
          /\ Becomes(r, q) /\ UNCHANGED <<tasks, rooms, shown, strayed, misled, crossed>>
      BY <2>1 DEF LoadTask, presence, followers, histories
    <2>3. \A x \in Request : requests'[x] = IF x = r THEN q ELSE requests[x]
      BY <2>2, Becoming DEF Typed
    <2>4. HoldsRow(r)'
      BY <2>2, <2>3 DEF HoldsRow, Saving, Handler, Visible, Exists
    <2> QED
      BY <2>2, <2>3, <2>4, QuietShows
  <1> QED
    BY <1>1, <1>2, <1>3

LEMMA SelectShows ==
  ASSUME Typed, ShownInv, NEW r \in Request, SelectTask(r)
  PROVE  ShownInv'
  <1> DEFINE q == requests[r]
             n == [q EXCEPT !.pc = "write", !.plan = SavePlan(q.entity, tasks[q.task])]
  <1>1. q \in RequestState
    BY DEF Typed, TypeOK
  <1>2. q.pc = "select" /\ Becomes(r, n) /\ UNCHANGED <<tasks, rooms, shown, strayed, misled, crossed>>
    BY DEF SelectTask, presence, followers, histories
  <1>3. /\ n.pc = "write" /\ n.plan = SavePlan(q.entity, tasks[q.task]) /\ n.task = q.task
        /\ n.entity = q.entity /\ n.room = q.room /\ n.told = q.told
    BY <1>1 DEF RequestState
  <1> HIDE DEF n
  <1>4. \A x \in Request : requests'[x] = IF x = r THEN n ELSE requests[x]
    BY <1>2, Becoming DEF Typed
  <1>5. HoldsRow(r)
    BY DEF ShownInv
  <1>6. HoldsRow(r)'
    <2>1. \A t, entity, room, told : Handler(t, entity, room, told)' <=> Handler(t, entity, room, told)
      BY <1>2 DEF Handler
    <2>2. \A t : Visible(tasks[t])' <=> Visible(tasks[t])
      BY <1>2 DEF Visible, Exists
    <2>3. requests'[r] = n
      BY <1>4
    <2> QED
      BY <1>2, <1>3, <1>5, <2>1, <2>2, <2>3 DEF HoldsRow, Saving
  <1> QED
    BY <1>2, <1>3, <1>4, <1>6, QuietShows

LEMMA AbortShows ==
  ASSUME Typed, ShownInv, NEW r \in Request, Abort(r)
  PROVE  ShownInv'
  <1>1. /\ Becomes(r, Idle) /\ UNCHANGED <<tasks, rooms, shown, strayed, misled>> /\ crossed \subseteq crossed'
        /\ requests[r].pc = "tell" => requests[r].task \in crossed'
    BY DEF Abort, presence, followers
  <1>2. \A x \in Request : requests'[x] = IF x = r THEN Idle ELSE requests[x]
    BY <1>1, Becoming DEF Typed
  <1>3. HoldsRow(r)'
    BY <1>2, Rows DEF HoldsRow, Saving
  <1> QED
    BY <1>1, <1>2, <1>3, Rows, QuietShows

LEMMA InsertShows ==
  ASSUME Typed, ShownInv, NEW r \in Request, InsertTask(r)
  PROVE  ShownInv'
  <1> DEFINE q == requests[r]
             t == q.task
             n == [q EXCEPT !.pc = "tell"]
  <1>1. q \in RequestState /\ t \in Task
    BY DEF Typed, TypeOK, RequestState
  <1>2. /\ q.pc = "insert" /\ tasks' = [tasks EXCEPT ![t] = q.entity] /\ Becomes(r, n)
        /\ UNCHANGED <<rooms, shown, crossed, strayed, misled>>
    BY DEF InsertTask, presence, followers, histories
  <1>3. n.pc = "tell" /\ n.task = t /\ n.entity = q.entity /\ n.room = q.room /\ n.told = q.told
    BY <1>1 DEF RequestState
  <1> HIDE DEF n
  <1>4. \A x \in Request : requests'[x] = IF x = r THEN n ELSE requests[x]
    BY <1>2, Becoming DEF Typed
  <1>5. \A u \in Task : tasks'[u] = IF u = t THEN q.entity ELSE tasks[u]
    BY <1>2 DEF Typed, TypeOK
  <1>6. /\ tasks[t].row = "none" /\ q.entity.row = "there" /\ q.entity.deletedAt = "null"
        /\ q.told = "created" /\ q.room = ProjectOf[q.entity.column]
        /\ \A x \in Request \ {r} : requests[x].pc # "idle" => requests[x].task # t
    BY <1>2 DEF Typed, Placed
  <1>7. \A p \in Project : <<t, p>> \notin strayed
    BY <1>1, <1>6 DEF ShownInv, StrayedLeft
  <1>8. /\ \A u \in Task \ {t}, p \in Project : <<u, p>> \in strayed' =>
              tasks'[u].row = "there" /\ ProjectOf[tasks'[u].column] # p
        /\ \A u \in Task \ {t}, p \in Project : u \notin crossed' /\ <<u, p>> \notin strayed' =>
              \A s \in rooms'[p] : \/ <<s, p, u>> \in misled'
                                 \/ shown'[s][p][u] = PlaceOn(p, tasks'[u])
                                   \/ \E x \in Request : Telling(x, u, p)'
        /\ \A x \in Request \ {r} : requests[x].task # t => HoldsRow(x)' /\ TellsTruth(x)'
    BY <1>1, <1>2, <1>3, <1>4, <1>5, OthersShow
  <1>9. ASSUME NEW u \in Task, u = t, NEW p \in Project, NEW s \in rooms'[p], u \notin crossed'
        PROVE  <<s, p, u>> \in misled' \/ shown'[s][p][u] = PlaceOn(p, tasks'[u]) \/ Telling(r, u, p)'
    <2>1. CASE p = q.room
      <3>1. requests'[r] = n
        BY <1>4
      <3> QED
        BY <1>3, <1>6, <1>9, <2>1, <3>1 DEF Telling
    <2>2. CASE p # q.room
      <3>1. \A x \in Request : ~Telling(x, u, p)
        BY <1>2, <1>6, <1>9 DEF Telling
      <3>2. <<s, p, u>> \in misled \/ shown[s][p][u] = PlaceOn(p, tasks[u])
        BY <1>2, <1>7, <1>9, <3>1 DEF ShownInv, ShownOrTold
      <3>3. PlaceOn(p, tasks[u]) = Off /\ PlaceOn(p, tasks'[u]) = Off
        BY <1>5, <1>6, <1>9, <2>2 DEF PlaceOn, Visible, Exists
      <3> QED
        BY <1>2, <3>2, <3>3
    <2> QED
      BY <2>1, <2>2
  <1>10. HoldsRow(r)'
    BY <1>3, <1>4 DEF HoldsRow, Saving
  <1>11. TellsTruth(r)'
    <2>1. \A place \in Column \cup {Off} : After(n, place) = PlaceOn(n.room, tasks'[t])
      BY <1>1, <1>3, <1>5, <1>6 DEF After, PlaceOn, Visible, Exists
    <2>2. \A x \in Request \ {r} : requests'[x].pc = "tell" => requests'[x].task # t
      BY <1>4, <1>6
    <2>3. requests'[r] = n
      BY <1>4
    <2>4. \A place \in Column \cup {Off} : After(requests'[r], place) = PlaceOn(requests'[r].room, tasks'[t])
      BY <2>1, <2>3
    <2> QED
      BY <1>3, <2>2, <2>3, <2>4 DEF TellsTruth, After, PlaceOn, Visible, Exists
  <1>12. ASSUME NEW x \in Request, x # r PROVE HoldsRow(x)' /\ TellsTruth(x)'
    <2>1. CASE requests[x].pc = "idle"
      BY <1>4, <1>12, <2>1 DEF HoldsRow, TellsTruth, Saving
    <2>2. CASE requests[x].pc # "idle"
      BY <1>6, <1>8, <1>12, <2>2
    <2> QED
      BY <2>1, <2>2
  <1>13. StrayedLeft'
    BY <1>2, <1>7, <1>8 DEF StrayedLeft
  <1>14. ShownOrTold'
    <2>1. \A u, p : PlaceOn(p, tasks[u])' = PlaceOn(p, tasks'[u])
      BY DEF PlaceOn, Visible, Exists
    <2>2. ASSUME NEW u \in Task, NEW p \in Project, u \notin crossed', <<u, p>> \notin strayed',
                 NEW s \in rooms'[p]
          PROVE  \/ <<s, p, u>> \in misled' \/ shown'[s][p][u] = PlaceOn(p, tasks'[u])
                 \/ \E x \in Request : Telling(x, u, p)'
      <3>1. CASE u = t
        BY <1>9, <2>2, <3>1
      <3>2. CASE u # t
        BY <1>8, <2>2, <3>2
      <3> QED
        BY <3>1, <3>2
    <2> QED
      BY <2>1, <2>2 DEF ShownOrTold
  <1> QED
    BY <1>10, <1>11, <1>12, <1>13, <1>14 DEF ShownInv

LEMMA WriteShows ==
  ASSUME Typed, ShownInv, NEW r \in Request, WriteTask(r)
  PROVE  ShownInv'
  <1> DEFINE q == requests[r]
             t == q.task
             old == tasks[t]
             new == SavedTask(q.plan, q.entity, old)
             n == [q EXCEPT !.pc = "tell"]
             meets == \E x \in Request \ {r} : requests[x].pc # "idle" /\ requests[x].task = t
  <1>1. q \in RequestState /\ t \in Task /\ q.entity \in TaskRow
    BY DEF Typed, TypeOK, RequestState
  <1>2. /\ q.pc = "write" /\ tasks' = [tasks EXCEPT ![t] = new] /\ Becomes(r, n)
        /\ crossed' = IF meets THEN crossed \cup {t} ELSE crossed
        /\ strayed' = {x \in strayed : x # <<t, ProjectOf[new.column]>>}
                         \cup (IF ProjectOf[new.column] # ProjectOf[old.column]
                               THEN {<<t, ProjectOf[old.column]>>} ELSE {})
        /\ UNCHANGED <<rooms, shown, misled>>
    BY DEF WriteTask, presence, followers
  <1>3. n.pc = "tell" /\ n.task = t /\ n.entity = q.entity /\ n.room = q.room /\ n.told = q.told
    BY <1>1 DEF RequestState
  <1>4. /\ new \in TaskRow /\ new.row = "there" /\ new.column \in Column
        /\ old \in TaskRow /\ old.row = "there" /\ old.column \in Column
    BY <1>2, SavedRow
  \* Whoever saved last without crossing another leaves what it holds.
  <1>5. t \notin crossed' =>
           /\ new = q.entity /\ Visible(old) /\ Handler(t, q.entity, q.room, q.told)
           /\ \A x \in Request \ {r} : requests[x].pc # "idle" => requests[x].task # t
    <2>1. HoldsRow(r)
      BY DEF ShownInv
    <2>2. ASSUME q.plan = SavePlan(q.entity, old) PROVE new = q.entity
      <3>1. DOMAIN q.entity = {"row", "column", "deletedAt"}
        BY <1>1 DEF TaskRow
      <3>2. \A f \in {"row", "column", "deletedAt"} : Written(f, q.plan, q.entity, old) = q.entity[f]
        BY <1>4, <2>2, <3>1 DEF SavePlan, Written, Exists
      <3>3. new = [row |-> old.row, column |-> q.entity.column, deletedAt |-> q.entity.deletedAt]
        BY <3>2 DEF SavedTask
      <3>4. q.entity.row = "there"
        BY <1>2 DEF Typed, Placed
      <3> QED
        BY <1>1, <1>4, <3>3, <3>4 DEF TaskRow
    <2> HIDE DEF new
    <2>3. t \notin crossed' => ~meets /\ t \notin crossed
      BY <1>2
    <2> QED
      BY <1>2, <2>1, <2>2, <2>3 DEF HoldsRow, Saving
  <1> HIDE DEF n, new
  <1>6. requests'[r] = n /\ \A x \in Request \ {r} : requests'[x] = requests[x]
    BY <1>2, Becoming DEF Typed
  <1>7. \A u \in Task : tasks'[u] = IF u = t THEN new ELSE tasks[u]
    BY <1>2 DEF Typed, TypeOK
  <1>8. /\ \A u \in Task \ {t}, p \in Project : <<u, p>> \in strayed' =>
              tasks'[u].row = "there" /\ ProjectOf[tasks'[u].column] # p
        /\ \A u \in Task \ {t}, p \in Project : u \notin crossed' /\ <<u, p>> \notin strayed' =>
              \A s \in rooms'[p] : \/ <<s, p, u>> \in misled'
                                 \/ shown'[s][p][u] = PlaceOn(p, tasks'[u])
                                   \/ \E x \in Request : Telling(x, u, p)'
        /\ \A x \in Request \ {r} : requests[x].task # t => HoldsRow(x)' /\ TellsTruth(x)'
    <2>1. \A u \in Task \ {t} : tasks'[u] = tasks[u]
      BY <1>7
    <2>2. \A u \in Task \ {t} : u \in crossed' <=> u \in crossed
      BY <1>2
    <2>3. \A u \in Task \ {t}, p \in Project : <<u, p>> \in strayed' <=> <<u, p>> \in strayed
      BY <1>2
    <2>4. UNCHANGED <<rooms, misled>> /\ \A u \in Task \ {t}, p \in Project, s \in Socket : shown'[s][p][u] = shown[s][p][u]
      BY <1>2
    <2>5. requests'[r].task = t
      BY <1>3, <1>6
    <2> HIDE DEF meets, q
    <2> QED
      BY <1>1, <1>6, <2>1, <2>2, <2>3, <2>4, <2>5, OthersShow DEF q
  \* Boards other than the one that is told show the task no more than before.
  <1>9. ASSUME NEW u \in Task, u = t, NEW p \in Project, NEW s \in rooms'[p],
               u \notin crossed', <<u, p>> \notin strayed'
        PROVE  <<s, p, u>> \in misled' \/ shown'[s][p][u] = PlaceOn(p, tasks'[u]) \/ Telling(r, u, p)'
    <2>1. CASE p = q.room /\ q.told # "nothing"
      BY <1>3, <1>6, <1>9, <2>1 DEF Telling
    <2>2. CASE p # q.room \/ q.told = "nothing"
      <3>1. \A x \in Request : ~Telling(x, u, p)
        BY <1>2, <1>5, <1>9 DEF Telling
      <3>2. u \notin crossed
        BY <1>2, <1>9
      <3>3. <<u, p>> \notin strayed
        <4>1. CASE p = ProjectOf[new.column] /\ <<u, p>> \in strayed
          <5>1. p # ProjectOf[old.column]
            BY <1>9, <4>1 DEF ShownInv, StrayedLeft
          <5>2. q.told # "nothing" /\ p = q.room
            BY <1>4, <1>5, <1>9, <4>1, <5>1 DEF Handler, TaskRow
          <5> QED
            BY <2>2, <5>2
        <4> QED
          BY <1>2, <1>9, <4>1
      <3>4. <<s, p, u>> \in misled \/ shown[s][p][u] = PlaceOn(p, tasks[u])
        BY <1>2, <1>9, <3>1, <3>2, <3>3 DEF ShownInv, ShownOrTold
      <3>5. PlaceOn(p, new) = PlaceOn(p, old)
        <4>1. CASE new = old
          BY <4>1
        <4>2. CASE q.told = "moved"
          <5>1. /\ ProjectOf[new.column] = q.room /\ p # q.room
                /\ ProjectOf[old.column] # ProjectOf[new.column] => ProjectOf[old.column] # p
            BY <1>2, <1>4, <1>5, <1>9, <2>2, <4>2 DEF Handler, TaskRow
          <5> QED
            BY <5>1 DEF PlaceOn
        <4>3. CASE q.told = "deleted"
          <5>1. ProjectOf[old.column] = q.room /\ p # q.room /\ new.deletedAt = "recent"
            BY <1>4, <1>5, <1>9, <2>2, <4>3 DEF Handler, TaskRow
          <5> QED
            BY <5>1 DEF PlaceOn, Visible
        <4> QED
          BY <1>5, <1>9, <4>1, <4>2, <4>3 DEF Handler
      <3> QED
        BY <1>2, <1>7, <1>9, <3>4, <3>5
    <2> QED
      BY <2>1, <2>2
  <1>10. HoldsRow(r)'
    BY <1>3, <1>6 DEF HoldsRow, Saving
  <1>11. TellsTruth(r)'
    <2>1. CASE t \in crossed'
      BY <1>3, <1>6, <2>1 DEF TellsTruth
    <2>2. CASE t \notin crossed'
      <3>1. \A x \in Request \ {r} : requests'[x].pc = "tell" => requests'[x].task # t
        BY <1>5, <1>6, <2>2
      <3>2. q.told # "nothing" => \A place \in Column \cup {Off} : After(n, place) = PlaceOn(n.room, new)
        BY <1>3, <1>4, <1>5, <2>2 DEF After, PlaceOn, Visible, Exists, Handler, TaskRow
      <3>3. \A u, p : PlaceOn(p, tasks[u])' = PlaceOn(p, tasks'[u])
        BY DEF PlaceOn, Visible, Exists
      <3>4. \A x, place : After(x, place)' = After(x, place)
        BY DEF After
      <3>5. tasks'[t] = new
        BY <1>1, <1>7
      <3> QED
        BY <1>3, <1>6, <3>1, <3>2, <3>3, <3>4, <3>5 DEF TellsTruth
    <2> QED
      BY <2>1, <2>2
  <1>12. ASSUME NEW x \in Request, x # r PROVE HoldsRow(x)' /\ TellsTruth(x)'
    <2>1. CASE requests[x].pc = "idle" \/ (t \in crossed' /\ requests[x].task = t)
      BY <1>6, <1>12, <2>1 DEF HoldsRow, TellsTruth, Saving
    <2>2. CASE requests[x].pc # "idle" /\ requests[x].task # t
      BY <1>8, <1>12, <2>2
    <2>3. requests[x].pc = "idle" \/ requests[x].task # t \/ t \in crossed'
      BY <1>5, <1>12
    <2> QED
      BY <2>1, <2>2, <2>3
  <1>13. StrayedLeft'
    <2>1. ASSUME NEW u \in Task, NEW p \in Project, <<u, p>> \in strayed'
          PROVE  tasks'[u].row = "there" /\ ProjectOf[tasks'[u].column] # p
      <3>1. CASE u # t
        BY <1>8, <2>1, <3>1
      <3>2. CASE u = t
        <4>1. tasks'[u] = new /\ p # ProjectOf[new.column]
          BY <1>2, <1>7, <2>1, <3>2
        <4> QED
          BY <1>4, <4>1
      <3> QED
        BY <3>1, <3>2
    <2> QED
      BY <2>1 DEF StrayedLeft
  <1>14. ShownOrTold'
    <2>1. \A u, p : PlaceOn(p, tasks[u])' = PlaceOn(p, tasks'[u])
      BY DEF PlaceOn, Visible, Exists
    <2>2. ASSUME NEW u \in Task, NEW p \in Project, u \notin crossed', <<u, p>> \notin strayed',
                 NEW s \in rooms'[p]
          PROVE  \/ <<s, p, u>> \in misled' \/ shown'[s][p][u] = PlaceOn(p, tasks'[u])
                 \/ \E x \in Request : Telling(x, u, p)'
      <3>1. CASE u = t
        BY <1>9, <2>2, <3>1
      <3>2. CASE u # t
        BY <1>8, <2>2, <3>2
      <3> QED
        BY <3>1, <3>2
    <2> QED
      BY <2>1, <2>2 DEF ShownOrTold
  <1> QED
    BY <1>10, <1>11, <1>12, <1>13, <1>14 DEF ShownInv

LEMMA BroadcastShows ==
  ASSUME Typed, ShownInv, NEW r \in Request, Broadcast(r)
  PROVE  ShownInv'
  <1> DEFINE q == requests[r]
             t == q.task
             p == q.room
  <1>1. q \in RequestState /\ t \in Task /\ p \in Project
    BY DEF Typed, TypeOK, RequestState
  <1>2. /\ q.pc = "tell" /\ Becomes(r, Idle) /\ UNCHANGED <<tasks, rooms, crossed, strayed>>
        /\ misled' = IF q.told = "nothing" THEN misled ELSE misled \ (rooms[p] \X {p} \X {t})
        /\ shown' = [s \in Socket |-> IF s \in rooms[p] THEN [shown[s] EXCEPT ![p][t] = After(q, @)] ELSE shown[s]]
    BY DEF Broadcast, presence
  <1>3. requests'[r] = Idle /\ \A x \in Request \ {r} : requests'[x] = requests[x]
    BY <1>2, Becoming DEF Typed
  <1>4. TellsTruth(r) /\ \A b \in Project : rooms[b] \subseteq Socket
    BY DEF ShownInv, Typed, TypeOK
  <1>5. \A s \in Socket, b \in Project, u \in Task :
           shown'[s][b][u] = IF b = p /\ u = t /\ s \in rooms[p] THEN After(q, shown[s][p][t]) ELSE shown[s][b][u]
    BY <1>1, <1>2 DEF Typed, TypeOK
  <1>6. \A u, b : PlaceOn(b, tasks[u])' = PlaceOn(b, tasks[u])
    BY <1>2 DEF PlaceOn, Visible, Exists
  <1>7. ASSUME NEW u \in Task, NEW b \in Project, u \notin crossed, <<u, b>> \notin strayed, NEW s \in rooms[b]
        PROVE  \/ <<s, b, u>> \in misled' \/ shown'[s][b][u] = PlaceOn(b, tasks[u])
               \/ \E x \in Request : Telling(x, u, b)'
    <2>1. \/ <<s, b, u>> \in misled
          \/ shown[s][b][u] = PlaceOn(b, tasks[u])
          \/ \E x \in Request : Telling(x, u, b)
      BY <1>7 DEF ShownInv, ShownOrTold
    <2>2. CASE b = p /\ u = t /\ q.told # "nothing"
      <3>1. shown[s][p][t] \in Column \cup {Off}
        BY <1>1, <1>4, <1>7, <2>2 DEF Typed, TypeOK
      <3> QED
        BY <1>2, <1>4, <1>5, <1>7, <2>2, <3>1 DEF TellsTruth
    <2>3. CASE b = p /\ u = t /\ q.told = "nothing"
      <3>1. \A x \in Request : ~Telling(x, u, b)
        BY <1>2, <1>4, <1>7, <2>3 DEF TellsTruth, Telling
      <3>2. After(q, shown[s][p][t]) = shown[s][p][t]
        BY <2>3 DEF After
      <3>3. shown'[s][b][u] = shown[s][b][u]
        <4>1. s \in Socket
          BY <1>4, <1>7
        <4> QED
          BY <1>5, <1>7, <2>3, <3>2, <4>1
      <3>4. misled' = misled
        BY <1>2, <2>3
      <3> QED
        BY <2>1, <3>1, <3>3, <3>4
    <2>4. CASE ~(b = p /\ u = t)
      <3>1. shown'[s][b][u] = shown[s][b][u] /\ (<<s, b, u>> \in misled => <<s, b, u>> \in misled')
        BY <1>2, <1>4, <1>5, <1>7, <2>4
      <3>2. ASSUME NEW x \in Request, Telling(x, u, b) PROVE Telling(x, u, b)'
        <4>1. x # r
          BY <2>4, <3>2 DEF Telling
        <4> QED
          BY <1>3, <3>2, <4>1 DEF Telling
      <3> QED
        BY <2>1, <3>1, <3>2
    <2> QED
      BY <2>2, <2>3, <2>4
  <1>8. ShownOrTold'
    BY <1>2, <1>6, <1>7 DEF ShownOrTold
  <1>9. StrayedLeft'
    BY <1>2 DEF ShownInv, StrayedLeft
  <1>10. HoldsRow(r)' /\ TellsTruth(r)'
    BY <1>3, Rows DEF HoldsRow, TellsTruth, Saving
  <1>11. ASSUME NEW x \in Request, x # r PROVE HoldsRow(x)' /\ TellsTruth(x)'
    <2>1. requests'[x] = requests[x] /\ HoldsRow(x) /\ TellsTruth(x)
      BY <1>3, <1>11 DEF ShownInv
    <2>2. \A u, entity, room, told : Handler(u, entity, room, told)' <=> Handler(u, entity, room, told)
      BY <1>2 DEF Handler
    <2>3. \A u : Visible(tasks[u])' <=> Visible(tasks[u])
      BY <1>2 DEF Visible, Exists
    <2>4. HoldsRow(x)'
      BY <1>2, <2>1, <2>2, <2>3 DEF HoldsRow, Saving
    <2>5. \A y, place : After(y, place)' = After(y, place)
      BY DEF After
    <2>6. \A y \in Request : requests'[y].pc = "tell" => requests'[y] = requests[y]
      BY <1>3, Rows
    <2>7. TellsTruth(x)'
      BY <1>2, <1>6, <2>1, <2>5, <2>6 DEF TellsTruth
    <2> QED
      BY <2>4, <2>7
  <1> QED
    BY <1>8, <1>9, <1>10, <1>11 DEF ShownInv

LEMMA ShownKeeps == Typed /\ ShownInv /\ [Next]_vars => ShownInv'
  <1>1. Typed /\ ShownInv /\ UNCHANGED vars => ShownInv'
    <2> SUFFICES ASSUME ShownInv, UNCHANGED vars PROVE ShownInv'
      OBVIOUS
    <2>1. UNCHANGED <<tasks, requests, rooms, shown, crossed, strayed, misled>>
      BY DEF vars, presence, followers, histories
    <2>2. \A u, entity, room, told : Handler(u, entity, room, told)' <=> Handler(u, entity, room, told)
      BY <2>1 DEF Handler
    <2>3. \A u, b : /\ Visible(tasks[u])' <=> Visible(tasks[u])
                    /\ PlaceOn(b, tasks[u])' = PlaceOn(b, tasks[u])
      BY <2>1 DEF PlaceOn, Visible, Exists
    <2>4. \A x, u, b : Telling(x, u, b)' <=> Telling(x, u, b)
      BY <2>1 DEF Telling
    <2>5. \A q, place : After(q, place)' = After(q, place)
      BY DEF After
    <2>6. \A r \in Request : HoldsRow(r)'
      BY <2>1, <2>2, <2>3 DEF ShownInv, HoldsRow, Saving
    <2>7. \A r \in Request : TellsTruth(r)'
      BY <2>1, <2>3, <2>5 DEF ShownInv, TellsTruth
    <2>8. StrayedLeft' /\ ShownOrTold'
      BY <2>1, <2>3, <2>4 DEF ShownInv, StrayedLeft, ShownOrTold
    <2> QED
      BY <2>6, <2>7, <2>8 DEF ShownInv
  <1> QED
    BY <1>1, GatewayShows, BeginsShow, InsertShows, SelectShows, WriteShows, BroadcastShows, AbortShows
    DEF Next, Continues

\* Once nobody is to be told of a task any more, every follower of a board
\* shows it where the database has it, unless two of its saves crossed, a
\* request died before its event, or the task went to another project; but for
\* followers whom another client last told of a place that is not the stored one.
THEOREM ShownIsAlwaysStored == Spec => []ShownIsStored
  <1>1. Init => ShownInv
    BY Rows DEF Init, Nobody, ShownInv, StrayedLeft, ShownOrTold, HoldsRow, TellsTruth, Saving
  <1>2. ShownInv => ShownIsStored
    BY DEF ShownInv, ShownOrTold, Telling, ShownIsStored
  <1> QED
    BY InitTyped, NextTyped, <1>1, <1>2, ShownKeeps, PTL DEF Spec
=============================================================================
