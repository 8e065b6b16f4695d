-------------------------------- MODULE Labels --------------------------------
(***************************************************************************)
(* Labels: the system's own, seeded when the server starts, those of a      *)
(* project (labels.service.ts), and the labels of tasks (addLabel and       *)
(* removeLabel of tasks.service.ts).                                        *)
(*                                                                          *)
(* Seeding counts the system labels and inserts all of them when there is   *)
(* none; an insert that fails ends it with a warning.  The server listens   *)
(* after it.  The table task_labels has a unique index on (task, label) and *)
(* a foreign key to each.                                                   *)
(*                                                                          *)
(* A definition named X_fault, before X, is a plausible error in the code X *)
(* models; no definition uses it.                                           *)
(***************************************************************************)
EXTENDS Naturals, Sequences

CONSTANTS
    SystemLabels,     \* the list SYSTEM_LABELS of names
    Custom,           \* ids of project labels
    Task, Request, Nothing

VARIABLES
    boot,             \* "count", "seed", "up", or "down"
    next,             \* the index in SystemLabels of the insert to come
    seeded,           \* how many rows with isSystem there are of each name
    custom,           \* labels of projects
    taskLabels,       \* pairs of a task and a project label in task_labels
    requests,
    \* a history: was a seeding ended after its first insert and before its last
    interrupted

vars == <<boot, next, seeded, custom, taskLabels, requests, interrupted>>

------------------------------------------------------------------------------

Name == {SystemLabels[i] : i \in DOMAIN SystemLabels}

RequestState == [pc: {"idle", "remove", "insert", "take"},
                 task: Task \cup {Nothing}, label: Custom \cup {Nothing}]
Idle == [pc |-> "idle", task |-> Nothing, label |-> Nothing]

TypeOK ==
    /\ boot \in {"count", "seed", "up", "down"} /\ next \in 1 .. Len(SystemLabels) + 1
    /\ seeded \in [Name -> Nat] /\ custom \subseteq Custom
    /\ taskLabels \subseteq Task \X Custom
    /\ requests \in [Request -> RequestState] /\ interrupted \in BOOLEAN

Init ==
    /\ boot = "count" /\ next = 1 /\ seeded = [n \in Name |-> 0]
    /\ custom = {} /\ taskLabels = {} /\ requests = [r \in Request |-> Idle]
    /\ interrupted = FALSE

Goes(r, pc, t, l) == requests' = [requests EXCEPT ![r] = [pc |-> pc, task |-> t, label |-> l]]
Ends(r) == requests' = [requests EXCEPT ![r] = Idle]

------------------------------------------------------------------------------
(* onModuleInit *)

Missing_incomplete == \E n \in Name : seeded[n] = 0
Missing == \A n \in Name : seeded[n] = 0

CountSystemLabels ==
    /\ boot = "count"
    /\ boot' = IF Missing THEN "seed" ELSE "up"
    /\ next' = 1
    /\ UNCHANGED <<seeded, custom, taskLabels, requests, interrupted>>

InsertSystemLabel ==
    /\ boot = "seed"
    /\ seeded' = [seeded EXCEPT ![SystemLabels[next]] = @ + 1]
    /\ next' = next + 1
    /\ boot' = IF next = Len(SystemLabels) THEN "up" ELSE "seed"
    /\ UNCHANGED <<custom, taskLabels, requests, interrupted>>

\* Caught: the server starts with the labels there are.
InsertFails ==
    /\ boot = "seed" /\ boot' = "up"
    /\ interrupted' = (interrupted \/ next > 1)
    /\ UNCHANGED <<next, seeded, custom, taskLabels, requests>>

Down ==
    /\ boot # "down" /\ boot' = "down"
    /\ interrupted' = (interrupted \/ (boot = "seed" /\ next > 1))
    /\ requests' = [r \in Request |-> Idle]
    /\ UNCHANGED <<next, seeded, custom, taskLabels>>

Restart ==
    /\ boot = "down" /\ boot' = "count"
    /\ UNCHANGED <<next, seeded, custom, taskLabels, requests, interrupted>>

------------------------------------------------------------------------------
(* Requests, once the server is up *)

\* create of labels.service.ts is one insert.
CreateLabel(l) ==
    /\ boot = "up" /\ l \notin custom
    /\ custom' = custom \cup {l}
    /\ UNCHANGED <<boot, next, seeded, taskLabels, requests, interrupted>>

\* delete loads the label, which must not be the system's; the DELETE fails
\* on the foreign key when a task has the label.
LoadToDelete(r, l) ==
    /\ boot = "up" /\ requests[r].pc = "idle" /\ l \in custom
    /\ Goes(r, "remove", Nothing, l)
    /\ UNCHANGED <<boot, next, seeded, custom, taskLabels, interrupted>>

IsReferenced(l) == \E t \in Task : <<t, l>> \in taskLabels

RemoveLabel(r) ==
    LET l == requests[r].label
    IN /\ requests[r].pc = "remove"
       /\ custom' = IF IsReferenced(l) THEN custom ELSE custom \ {l}
       /\ Ends(r)
       /\ UNCHANGED <<boot, next, seeded, taskLabels, interrupted>>

\* addLabel: task and label are there, the pair is not.
CheckDuplicate(r, t, l) ==
    /\ boot = "up" /\ requests[r].pc = "idle" /\ l \in custom /\ <<t, l>> \notin taskLabels
    /\ Goes(r, "insert", t, l)
    /\ UNCHANGED <<boot, next, seeded, custom, taskLabels, interrupted>>

\* The INSERT fails on the index when the pair is there by now, and on the
\* foreign key when the label is gone.
InsertTaskLabel(r) ==
    LET q == requests[r]
    IN /\ requests[r].pc = "insert"
       /\ taskLabels' = IF q.label \in custom THEN taskLabels \cup {<<q.task, q.label>>} ELSE taskLabels
       /\ Ends(r)
       /\ UNCHANGED <<boot, next, seeded, custom, interrupted>>

FindTaskLabel(r, t, l) ==
    /\ boot = "up" /\ requests[r].pc = "idle" /\ <<t, l>> \in taskLabels
    /\ Goes(r, "take", t, l)
    /\ UNCHANGED <<boot, next, seeded, custom, taskLabels, interrupted>>

RemoveTaskLabel(r) ==
    /\ requests[r].pc = "take"
    /\ taskLabels' = taskLabels \ {<<requests[r].task, requests[r].label>>}
    /\ Ends(r)
    /\ UNCHANGED <<boot, next, seeded, custom, interrupted>>

Next ==
    \/ CountSystemLabels \/ InsertSystemLabel \/ InsertFails \/ Down \/ Restart
    \/ \E l \in Custom : CreateLabel(l)
    \/ \E r \in Request :
         \/ RemoveLabel(r) \/ InsertTaskLabel(r) \/ RemoveTaskLabel(r)
         \/ \E l \in Custom : LoadToDelete(r, l)
         \/ \E t \in Task, l \in Custom : CheckDuplicate(r, t, l) \/ FindTaskLabel(r, t, l)

Spec == Init /\ [][Next]_vars

------------------------------------------------------------------------------
(* Properties *)

\* However often the server starts, each system label is there once when it
\* is up, or a seeding was interrupted half-way: then the labels it did not
\* reach never come, but none comes twice.
SeededOnce ==
    /\ \A n \in Name : seeded[n] <= 1
    /\ boot = "up" /\ ~interrupted => \A n \in Name : seeded[n] = 1 \/ Missing
=============================================================================
