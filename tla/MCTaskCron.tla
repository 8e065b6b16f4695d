------------------------------ MODULE MCTaskCron ------------------------------
EXTENDS TaskCron

CONSTANT Mover   \* a slot used in half of the behaviours, for requests that save what they loaded

\* "alone": one request at a time; the process may die.  "pair": a request
\* overlaps moves of the task; due days are one day or none.
VARIABLE mix

Pair(q) ==
    /\ q.entity.due \in {NoDay, 1} /\ q.entity.assignee # Nobody
    /\ q.pc # "idle" /\ q.pc # "insert" => q.entity.deletedAt = "null"

MCNext ==
    /\ Next /\ UNCHANGED mix
    /\ mix = "alone" => requests'[Mover].pc = "idle"
    /\ mix = "pair" =>
         /\ up'
         /\ \A r \in Request : requests'[r].pc # "idle" => Pair(requests'[r])
         /\ requests'[Mover].pc # "insert"
         /\ requests[Mover].pc = "idle" /\ requests'[Mover].pc # "idle" =>
                requests'[Mover].entity = tasks[requests'[Mover].task]

MCInit == Init /\ mix \in {"alone", "pair"}

MCSpec ==
    /\ MCInit
    /\ [][MCNext]_<<vars, mix>> /\ WF_vars(Detects) /\ WF_vars(Restart)
=============================================================================
