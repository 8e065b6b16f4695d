------------------------------- MODULE TaskPage -------------------------------
(* The page of one task in one tab: its sub-tasks, its comments and its time  *)
(* entries, which are fetched last, after the page is shown.  The page adds   *)
(* to each list, ticks sub-tasks before it knows the answer, and moves the    *)
(* task to the trash.  A request is served by the backend at one moment and   *)
(* its answer arrives at another or never.                                    *)
EXTENDS Naturals, Sequences, FiniteSets

CONSTANTS
    Item,        \* rows of the three lists
    Request,     \* slots for requests in flight
    Nothing

List == {"subtasks", "comments", "times"}

VARIABLES
    stored,      \* the rows of each list in the database, in the order of its answer
    done,        \* sub-tasks with SubTask.completed
    deleted,     \* the task is in the trash
    running,     \* a timer of the user runs
    open,        \* the tab shows the page
    shown,       \* the rows of each list on the page
    ticked,      \* sub-tasks with isCompleted, which no answer of the backend has
    loading, error,
    loaded,      \* task: it has arrived
    adding,      \* addingSubTask, sendingComment
    toggling,    \* togglingSubtask
    deleting,
    requests,
    doneAtRead,  \* history: done when the sub-tasks were read
    changed,     \* history: others changed a list since the page began to fetch
    differs,     \* history: lists of which an answer was lost, or came after a row was added
    astray       \* history: an answer to a tick was lost

server == <<stored, done, deleted, running>>
view == <<open, shown, ticked, loading, error, loaded, adding, toggling, deleting>>
history == <<doneAtRead, changed, differs, astray>>
vars == <<server, view, requests, history>>

Nil == [l \in List |-> <<>>]

\* A fetch has read the lists in its "got".
Idle == [kind |-> "none", pc |-> "idle", list |-> "times", item |-> Nothing, got |-> Nil,
         left |-> {}, ok |-> FALSE]

TypeOK ==
    /\ stored \in [List -> Seq(Item)] /\ shown \in [List -> Seq(Item)]
    /\ done \in SUBSET Item /\ ticked \in SUBSET Item /\ doneAtRead \in SUBSET Item
    /\ \A b \in {deleted, running, open, loading, error, loaded, deleting, changed, astray} :
          b \in BOOLEAN
    /\ adding \in SUBSET List /\ differs \in SUBSET List
    /\ toggling \in Item \cup {Nothing}
    /\ requests \in [Request -> [kind : {"none", "load", "times", "add", "toggle", "delete"},
                                 pc : {"idle", "sent", "served"}, list : List,
                                 item : Item \cup {Nothing}, got : [List -> Seq(Item)],
                                 left : SUBSET (List \cup {"task"}), ok : BOOLEAN]]

Free(r) == requests' = [requests EXCEPT ![r] = Idle]

Begun == [Idle EXCEPT !.kind = "load", !.pc = "sent", !.left = {"task", "subtasks", "comments"}]

Init ==
    /\ stored \in [List -> {<<>>} \cup {<<i>> : i \in Item}]
    /\ \A l, m \in List : l # m => stored[l] = <<>> \/ stored[l] # stored[m]
    /\ done \in SUBSET {stored["subtasks"][i] : i \in DOMAIN stored["subtasks"]}
    /\ deleted = FALSE /\ running \in BOOLEAN
    /\ open = TRUE /\ shown = Nil /\ ticked = {}
    /\ loading = TRUE /\ error = FALSE /\ loaded = FALSE
    /\ adding = {} /\ toggling = Nothing /\ deleting = FALSE
    /\ \E r \in Request : requests = [s \in Request |-> IF s = r THEN Begun ELSE Idle]
    /\ doneAtRead = {} /\ changed = FALSE /\ differs = {} /\ astray = FALSE

------------------------------------------------------------------------------
(* fetchTaskData. *)

\* The page that replaces the task when it did not arrive.
Retry(r) ==
    /\ open /\ error /\ ~loaded /\ ~loading /\ requests[r].pc = "idle"
    /\ requests' = [requests EXCEPT ![r] = Begun]
    /\ loading' = TRUE /\ error' = FALSE
    /\ changed' = FALSE /\ differs' = {} /\ doneAtRead' = {}
    /\ UNCHANGED <<server, open, shown, ticked, loaded, adding, toggling, deleting, astray>>

\* One of the requests of a fetch is served.  Lists of a task in the trash are
\* refused, as is the task.
Read(r, what) ==
    /\ what \in requests[r].left /\ ~deleted
    /\ requests' = [requests EXCEPT ![r].left = @ \ {what},
          ![r].got = IF what \in List THEN [@ EXCEPT ![what] = stored[what]] ELSE @]
    /\ doneAtRead' = IF what = "subtasks" THEN done ELSE doneAtRead
    /\ UNCHANGED <<server, view, changed, differs, astray>>

\* A list that does not arrive is shown empty.
Miss(r, what) ==
    /\ what \in requests[r].left \cap List
    /\ requests' = [requests EXCEPT ![r].left = @ \ {what}]
    /\ differs' = differs \cup {what}
    /\ UNCHANGED <<server, view, doneAtRead, changed, astray>>

MissTask(r) ==
    /\ "task" \in requests[r].left
    /\ Free(r)
    /\ error' = TRUE /\ loading' = FALSE
    /\ UNCHANGED <<server, open, shown, ticked, loaded, adding, toggling, deleting, history>>

\* The page is shown, and the time entries are fetched.
LandTask(r) ==
    /\ requests[r].kind = "load" /\ requests[r].left = {}
    /\ loaded' = TRUE /\ loading' = FALSE
    /\ shown' = [requests[r].got EXCEPT !["times"] = shown["times"]]
    /\ ticked' = {}
    /\ requests' = [requests EXCEPT ![r] =
          [Idle EXCEPT !.kind = "times", !.pc = "sent", !.left = {"times"}]]
    /\ UNCHANGED <<server, open, error, adding, toggling, deleting, history>>

LandTimes(r) ==
    /\ requests[r].kind = "times" /\ requests[r].left = {}
    /\ shown' = [shown EXCEPT !["times"] = requests[r].got["times"]]
    /\ Free(r)
    /\ UNCHANGED <<server, open, ticked, loading, error, loaded, adding, toggling, deleting,
                   history>>

------------------------------------------------------------------------------
(* What the page sends. *)

Page == open /\ loaded /\ ~loading

\* A sub-task has a box to tick.
TickOffered(i) == \E k \in DOMAIN shown["subtasks"] : shown["subtasks"][k] = i

\* The fields for a sub-task and a comment are disabled while one is added, the
\* button that starts a timer never is.
AddOffered(list) == Page /\ list \notin adding

Send(r, q) == requests[r].pc = "idle" /\ requests' = [requests EXCEPT ![r] = q]

\* addSubTask, handleSendComment, handleStartTimer; only the last may be sent
\* again before its answer.
Add(r, list) ==
    /\ AddOffered(list)
    /\ Send(r, [Idle EXCEPT !.kind = "add", !.pc = "sent", !.list = list])
    /\ adding' = adding \cup ({list} \ {"times"})
    /\ differs' = IF list = "times" /\ \E s \in Request : requests[s].kind = "times"
                  THEN differs \cup {list} ELSE differs
    /\ UNCHANGED <<server, open, shown, ticked, loading, error, loaded, toggling, deleting,
                   doneAtRead, changed, astray>>

Flip(set, i) == IF i \in set THEN set \ {i} ELSE set \cup {i}

ToggleSubTask(r, i) ==
    /\ Page /\ toggling = Nothing
    /\ TickOffered(i)
    /\ toggling' = i /\ ticked' = Flip(ticked, i)
    /\ Send(r, [Idle EXCEPT !.kind = "toggle", !.pc = "sent", !.item = i])
    /\ UNCHANGED <<server, open, shown, loading, error, loaded, adding, deleting, history>>

HandleDelete(r) ==
    /\ Page /\ ~deleting /\ deleting' = TRUE
    /\ Send(r, [Idle EXCEPT !.kind = "delete", !.pc = "sent"])
    /\ UNCHANGED <<server, open, shown, ticked, loading, error, loaded, adding, toggling,
                   history>>

------------------------------------------------------------------------------
(* What the backend does.                                                     *)

New(i) == \A l \in List : \A k \in DOMAIN stored[l] : stored[l][k] # i

\* The newest time entry comes first, new sub-tasks and comments last.
With(list, rows, i) == IF list = "times" THEN <<i>> \o rows ELSE Append(rows, i)

\* A timer is refused while another one runs.
ServeAdd(r, i) ==
    LET q == requests[r]
        accepted == ~deleted /\ (q.list = "times" => ~running)
    IN /\ q.kind = "add" /\ q.pc = "sent" /\ New(i)
       /\ requests' = [requests EXCEPT ![r].pc = "served", ![r].ok = accepted, ![r].item = i]
       /\ stored' = IF accepted THEN [stored EXCEPT ![q.list] = With(q.list, @, i)] ELSE stored
       /\ running' = (running \/ (accepted /\ q.list = "times"))
       /\ UNCHANGED <<done, deleted, view, history>>

\* toggle finds a sub-task in whatever task it is.
ServeToggle(r) ==
    /\ requests[r].kind = "toggle" /\ requests[r].pc = "sent"
    /\ requests' = [requests EXCEPT ![r].pc = "served", ![r].ok = TRUE]
    /\ done' = Flip(done, requests[r].item)
    /\ UNCHANGED <<stored, deleted, running, view, history>>

ServeDelete(r) ==
    /\ requests[r].kind = "delete" /\ requests[r].pc = "sent"
    /\ requests' = [requests EXCEPT ![r].pc = "served", ![r].ok = ~deleted]
    /\ deleted' = TRUE
    /\ UNCHANGED <<stored, done, running, view, history>>

\* Another user.
Others ==
    /\ \/ /\ \E l \in List, i \in Item :
                ~deleted /\ New(i) /\ stored' = [stored EXCEPT ![l] = With(l, @, i)]
          /\ UNCHANGED <<done, deleted>>
       \/ /\ \E k \in DOMAIN stored["subtasks"] : done' = Flip(done, stored["subtasks"][k])
          /\ UNCHANGED <<stored, deleted>>
       \/ ~deleted /\ deleted' = TRUE /\ UNCHANGED <<stored, done>>
    /\ changed' = TRUE
    /\ UNCHANGED <<running, view, requests, doneAtRead, differs, astray>>

------------------------------------------------------------------------------
(* The answers.                                                               *)

LandAdd(r) ==
    LET q == requests[r]
    IN /\ q.kind = "add" /\ q.pc = "served" /\ q.ok
       /\ shown' = [shown EXCEPT ![q.list] = With(q.list, @, q.item)]
       /\ adding' = adding \ {q.list}
       /\ Free(r)
       /\ UNCHANGED <<server, open, ticked, loading, error, loaded, toggling, deleting, history>>

LandToggle(r) ==
    /\ requests[r].kind = "toggle" /\ requests[r].pc = "served"
    /\ toggling' = Nothing
    /\ Free(r)
    /\ UNCHANGED <<server, open, shown, ticked, loading, error, loaded, adding, deleting, history>>

\* navigate(-1)
LandDelete(r) ==
    /\ requests[r].kind = "delete" /\ requests[r].pc = "served" /\ requests[r].ok
    /\ open' = FALSE
    /\ requests' = [s \in Request |-> Idle]
    /\ UNCHANGED <<server, shown, ticked, loading, error, loaded, adding, toggling, deleting,
                   history>>

\* A plausible error in the operator that follows, which no definition uses.
Reverted_unticked(i) == ticked \ {i}

Reverted(i) == Flip(ticked, i)

\* The request was refused, or its answer never comes, whether served or not.
Fail(r) ==
    LET q == requests[r]
    IN /\ q.kind \in {"add", "toggle", "delete"}
       /\ Free(r)
       /\ adding' = IF q.kind = "add" THEN adding \ {q.list} ELSE adding
       /\ deleting' = (deleting /\ q.kind # "delete")
       /\ IF q.kind = "toggle"
          THEN toggling' = Nothing /\ ticked' = Reverted(q.item) /\ UNCHANGED error
          ELSE error' = TRUE /\ UNCHANGED <<toggling, ticked>>
       /\ differs' = IF q.kind = "add" /\ q.pc = "served" /\ q.ok
                     THEN differs \cup {q.list} ELSE differs
       /\ astray' = (astray \/ (q.kind = "toggle" /\ q.pc = "served"))
       /\ UNCHANGED <<server, open, shown, loading, loaded, doneAtRead, changed>>

------------------------------------------------------------------------------

Next ==
    \/ Others
    \/ \E r \in Request :
        \/ Retry(r) \/ MissTask(r) \/ LandTask(r) \/ LandTimes(r)
        \/ \E what \in requests[r].left : Read(r, what) \/ Miss(r, what)
        \/ \E list \in List : Add(r, list)
        \/ \E i \in Item : ToggleSubTask(r, i) \/ ServeAdd(r, i)
        \/ HandleDelete(r) \/ ServeToggle(r) \/ ServeDelete(r)
        \/ LandAdd(r) \/ LandToggle(r) \/ LandDelete(r) \/ Fail(r)

Spec == Init /\ [][Next]_vars

------------------------------------------------------------------------------

AtRest == Page /\ \A r \in Request : requests[r].pc = "idle"

\* task-detail.tsx: a page at rest shows the stored rows of each list, each once
\* and in the order of the backend, unless others changed a list, an answer of
\* the list was lost, or a timer was started before the time entries arrived.
ShowsTheTask ==
    AtRest /\ ~changed => \A l \in List \ differs : shown[l] = stored[l]

\* toggleSubTask: a sub-task on a page at rest is ticked when its completion is
\* not the one the page read, because the answers call it completed and not
\* isCompleted; unless others changed it or the answer to a tick was lost.
TicksAreChanges ==
    AtRest /\ ~changed /\ ~astray =>
        \A k \in DOMAIN shown["subtasks"] :
            LET i == shown["subtasks"][k]
            IN (i \in ticked) = ((i \in done) # (i \in doneAtRead))

TaskSettles == ShowsTheTask /\ TicksAreChanges
=============================================================================
