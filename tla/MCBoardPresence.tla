--------------------------- MODULE MCBoardPresence ---------------------------
EXTENDS BoardPresence, TLC

CONSTANTS a1, a2, b1, ua, ub, todo, other, p1, p2

MCUserOf == a1 :> ua @@ a2 :> ua @@ b1 :> ub
MCProjectOf == [c \in Column |-> IF c = other THEN p2 ELSE p1]

\* "people": three sockets on two boards, no task is changed and no client
\* says that one was.  "work": two sockets, one of which is on one board only,
\* requests on a task and relays; no token expires.
VARIABLE mix

MCNext ==
    /\ Next /\ UNCHANGED mix
    /\ mix = "people" => misled' = {} /\ \A r \in Request : requests'[r].pc = "idle"
    /\ mix = "work" => /\ sockets'[a2] = "closed" /\ b1 \notin rooms'[p2]
                       /\ \A s \in Socket : sockets'[s] # "expired"

MCInit == Init /\ mix \in {"people", "work"}

MCSpec == MCInit /\ [][MCNext]_<<vars, mix>>

Symmetry == Permutations(Request)
=============================================================================
