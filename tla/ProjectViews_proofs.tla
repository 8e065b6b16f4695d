------------------------- MODULE ProjectViews_proofs -------------------------
(***************************************************************************)
(* Theorems about the pages of one project of Clients -- a task, the board *)
(* and the settings -- and about the tables and the overview of the        *)
(* administrator, for any ids, lists and people, and any number of         *)
(* requests in flight.  The steps of the other pages leave theirs alone.   *)
(***************************************************************************)
EXTENDS Clients, Functions, TLAPS, FunctionTheorems, FiniteSetTheorems, SequenceTheorems

------------------------------------------------------------------------------

\* A function on an initial part of the numbers is a sequence.
LEMMA MapIsSeq ==
  ASSUME NEW S, NEW n \in Nat, NEW f \in [1 .. n -> S]
  PROVE  f \in Seq(S) /\ Len(f) = n /\ DOMAIN f = 1 .. n
  OBVIOUS

------------------------------------------------------------------------------
(* The page of a task                                                         *)

RowsOf(list) == {list[k] : k \in DOMAIN list}
Fetched == {"task", "subtasks", "comments"}

TaskRequests == [kind : {"none", "load", "times", "add", "toggle", "delete"},
                 pc : {"idle", "sent", "served"}, list : OneTask!List,
                 item : ListItem \cup {None}, got : [OneTask!List -> Seq(ListItem)],
                 left : SUBSET (OneTask!List \cup {"task"}), ok : BOOLEAN]

TaskTyped ==
    /\ stored \in [OneTask!List -> Seq(ListItem)] /\ shown \in [OneTask!List -> Seq(ListItem)]
    /\ running \in BOOLEAN /\ loaded \in BOOLEAN /\ loading \in BOOLEAN /\ open \in BOOLEAN
    /\ adding \in SUBSET OneTask!List /\ differs \in SUBSET OneTask!List
    /\ requests \in [Request -> TaskRequests]

\* What a request of each kind has still to find out.
TaskShape(q) ==
    /\ q.kind = "none" <=> q.pc = "idle"
    /\ q.kind \in {"load", "times"} => q.pc = "sent"
    /\ q.left \subseteq (CASE q.kind = "load" -> Fetched [] q.kind = "times" -> {"times"} [] OTHER -> {})
    /\ q.kind = "toggle" \/ (q.kind = "add" /\ q.pc = "served") => q.item \in ListItem

\* The page fetches once, then its time entries, and sends nothing before; of
\* sub-tasks, comments and ticks it sends one at a time.
TaskWaits(r) ==
    LET q == requests[r]
    IN /\ q.kind = "load" => loading
       /\ q.kind \notin {"none", "load"} => loaded
       /\ q.kind = "add" /\ q.list # "times" => q.list \in adding
       /\ q.kind = "toggle" => toggling = q.item /\ q.item \in RowsOf(shown["subtasks"])
       /\ \A s \in Request \ {r} :
             requests[s].kind = q.kind => /\ q.kind \notin {"load", "times", "toggle"}
                                          /\ q.kind = "add" /\ q.list # "times" => requests[s].list # q.list

\* The row of an added one is stored, and the page was not told yet.
Unheard(r, list) ==
    requests[r].kind = "add" /\ requests[r].list = list /\ requests[r].pc = "served" /\ requests[r].ok

\* What the page and its requests know of the sub-tasks exists.
TaskKnows ==
    /\ ticked \subseteq RowsOf(shown["subtasks"])
    /\ RowsOf(shown["subtasks"]) \cup done \cup doneAtRead \subseteq RowsOf(stored["subtasks"])
    /\ \A r \in Request : /\ requests[r].kind = "load" => RowsOf(requests[r].got["subtasks"]) \subseteq RowsOf(stored["subtasks"])
                          /\ Unheard(r, "subtasks") =>
                                /\ requests[r].item \in RowsOf(stored["subtasks"])
                                /\ requests[r].item \notin RowsOf(shown["subtasks"]) \cup doneAtRead
                                /\ requests[r].item \in done => changed

\* A fetch holds what is stored of each list it has read.
TaskFetches(r) ==
    LET q == requests[r]
    IN /\ q.kind = "load" /\ ~changed =>
             /\ \A l \in {"subtasks", "comments"} \ (q.left \cup differs) : q.got[l] = stored[l]
             /\ \A i \in RowsOf(q.got["subtasks"]) : i \in done <=> i \in doneAtRead
       /\ q.kind = "times" /\ "times" \notin differs =>
             /\ ~changed /\ q.left = {} => q.got["times"] = stored["times"]
             /\ \A s \in Request : ~(requests[s].kind = "add" /\ requests[s].list = "times")

\* Of each list the page lacks a row it will be told of, or nothing.
ListsAgree(l) ==
    /\ \A r \in Request : Unheard(r, l) =>
          /\ stored[l] = OneTask!With(l, shown[l], requests[r].item)
          /\ \A s \in Request : Unheard(s, l) => s = r
    /\ (\A r \in Request : ~Unheard(r, l)) => shown[l] = stored[l]

TicksSent(i) == \E r \in Request : requests[r].kind = "toggle" /\ requests[r].pc = "sent" /\ requests[r].item = i

\* A tick is a change since the sub-tasks were read, or one on its way.
TicksAgree ==
    \A i \in RowsOf(shown["subtasks"]) :
        i \in ticked <=> (TicksSent(i) <=> (i \in done <=> i \in doneAtRead))

TaskInv ==
    /\ TaskTyped
    /\ \A r \in Request : TaskShape(requests[r]) /\ TaskWaits(r) /\ TaskFetches(r)
    /\ loading => ~loaded
    /\ ~loaded => shown = OneTask!Nil /\ ticked = {}
    /\ TaskKnows
    /\ \A r \in Request : Unheard(r, "times") => running
    /\ open /\ loaded /\ ~changed =>
          /\ \A l \in OneTask!List \ differs :
                (l = "times" => \A r \in Request : requests[r].kind # "times") => ListsAgree(l)
          /\ ~astray => TicksAgree
    /\ ~open => \A r \in Request : requests[r] = OneTask!Idle

\* Of the operators on rows.
LEMMA WithRow ==
  ASSUME NEW l \in OneTask!List, NEW list \in Seq(ListItem), NEW i \in ListItem
  PROVE  /\ OneTask!With(l, list, i) \in Seq(ListItem)
         /\ RowsOf(OneTask!With(l, list, i)) = RowsOf(list) \cup {i}
  <1>1. CASE l = "times"
    <2>1. /\ <<i>> \o list \in Seq(ListItem) /\ Len(<<i>> \o list) = Len(list) + 1
          /\ \A k \in 1 .. Len(list) + 1 : (<<i>> \o list)[k] = IF k = 1 THEN i ELSE list[k - 1]
      BY ConcatProperties
    <2>2. RowsOf(<<i>> \o list) = RowsOf(list) \cup {i}
      <3>1. RowsOf(<<i>> \o list) \subseteq RowsOf(list) \cup {i}
        BY <2>1 DEF RowsOf
      <3>2. \A k \in 1 .. Len(list) : (<<i>> \o list)[k + 1] = list[k] /\ k + 1 \in 1 .. Len(list) + 1
        BY <2>1
      <3>3. ASSUME NEW x \in RowsOf(list) PROVE x \in RowsOf(<<i>> \o list)
        <4>1. PICK k \in 1 .. Len(list) : x = list[k]
          BY DEF RowsOf
        <4>2. DOMAIN (<<i>> \o list) = 1 .. Len(list) + 1
          BY <2>1
        <4> QED
          BY <3>2, <4>1, <4>2 DEF RowsOf
      <3>4. i \in RowsOf(<<i>> \o list)
        BY <2>1 DEF RowsOf
      <3> QED
        BY <3>1, <3>3, <3>4
    <2> QED
      BY <1>1, <2>1, <2>2 DEF OneTask!With
  <1>2. CASE l # "times"
    <2>1. /\ Append(list, i) \in Seq(ListItem) /\ Len(Append(list, i)) = Len(list) + 1
          /\ \A k \in 1 .. Len(list) : Append(list, i)[k] = list[k]
          /\ Append(list, i)[Len(list) + 1] = i
      BY AppendProperties
    <2>2. RowsOf(Append(list, i)) = RowsOf(list) \cup {i}
      BY <2>1 DEF RowsOf
    <2> QED
      BY <1>2, <2>1, <2>2 DEF OneTask!With
  <1> QED
    BY <1>1, <1>2

LEMMA TaskLists ==
  /\ OneTask!List = {"subtasks", "comments", "times"}
  /\ OneTask!Nil \in [OneTask!List -> Seq(ListItem)]
  /\ \A l \in OneTask!List : OneTask!Nil[l] = <<>> /\ RowsOf(OneTask!Nil[l]) = {}
  BY DEF OneTask!List, OneTask!Nil, RowsOf

\* An idle slot, and those that were sent.
LEMMA TaskIdle ==
  /\ OneTask!Idle \in TaskRequests
  /\ OneTask!Idle.kind = "none" /\ OneTask!Idle.pc = "idle" /\ OneTask!Idle.left = {}
  BY TaskLists DEF OneTask!Idle, TaskRequests, OneTask!List

LEMMA TaskBegun ==
  /\ OneTask!Begun \in TaskRequests
  /\ OneTask!Begun.kind = "load" /\ OneTask!Begun.pc = "sent" /\ OneTask!Begun.left = Fetched
  /\ OneTask!Begun.got = OneTask!Nil
  BY TaskLists, TaskIdle DEF OneTask!Begun, OneTask!Idle, TaskRequests, OneTask!List, Fetched

LEMMA TaskSends ==
  /\ \A l \in OneTask!List :
        LET q == [OneTask!Idle EXCEPT !.kind = "add", !.pc = "sent", !.list = l]
        IN q \in TaskRequests /\ q.kind = "add" /\ q.pc = "sent" /\ q.list = l /\ q.left = {}
  /\ \A i \in ListItem :
        LET q == [OneTask!Idle EXCEPT !.kind = "toggle", !.pc = "sent", !.item = i]
        IN q \in TaskRequests /\ q.kind = "toggle" /\ q.pc = "sent" /\ q.item = i /\ q.left = {}
  /\ LET q == [OneTask!Idle EXCEPT !.kind = "delete", !.pc = "sent"]
     IN q \in TaskRequests /\ q.kind = "delete" /\ q.pc = "sent" /\ q.left = {}
  /\ LET q == [OneTask!Idle EXCEPT !.kind = "times", !.pc = "sent", !.left = {"times"}]
     IN q \in TaskRequests /\ q.kind = "times" /\ q.pc = "sent" /\ q.left = {"times"}
  BY TaskLists, TaskIdle DEF OneTask!Idle, TaskRequests, OneTask!List

LEMMA TaskSlot ==
  ASSUME TaskTyped, NEW r \in Request, NEW q \in TaskRequests, requests' = [requests EXCEPT ![r] = q]
  PROVE  /\ requests' \in [Request -> TaskRequests] /\ requests'[r] = q
         /\ \A s \in Request \ {r} : requests'[s] = requests[s]
  BY DEF TaskTyped

\* What a list lacks, and what is ticked, only depends on some of the state.
LEMMA ListsStay ==
  ASSUME NEW r \in Request, NEW l, ListsAgree(l), \A s \in Request \ {r} : requests'[s] = requests[s],
         ~Unheard(r, l), ~Unheard(r, l)', stored'[l] = stored[l], shown'[l] = shown[l]
  PROVE  ListsAgree(l)'
  <1>1. \A s \in Request : Unheard(s, l)' <=> Unheard(s, l)
    BY DEF Unheard
  <1>2. \A s \in Request : Unheard(s, l) => requests'[s] = requests[s]
    OBVIOUS
  <1> QED
    BY <1>1, <1>2 DEF ListsAgree

LEMMA TicksStay ==
  ASSUME NEW r \in Request, TicksAgree, \A s \in Request \ {r} : requests'[s] = requests[s],
         requests[r].kind # "toggle" \/ requests[r].pc # "sent", requests'[r].kind # "toggle" \/ requests'[r].pc # "sent",
         shown'["subtasks"] = shown["subtasks"], UNCHANGED <<ticked, done, doneAtRead>>
  PROVE  TicksAgree'
  <1>1. \A i : TicksSent(i)' <=> TicksSent(i)
    BY DEF TicksSent
  <1> QED
    BY <1>1 DEF TicksAgree

LEMMA InitTask == OneTask!Init => TaskInv
  <1> SUFFICES ASSUME OneTask!Init PROVE TaskInv
    OBVIOUS
  <1>1. PICK r \in Request : requests = [s \in Request |-> IF s = r THEN OneTask!Begun ELSE OneTask!Idle]
    BY DEF OneTask!Init
  <1>2. /\ \A s \in Request : requests[s] = OneTask!Idle \/ (s = r /\ requests[s] = OneTask!Begun)
        /\ requests \in [Request -> TaskRequests]
    BY <1>1, TaskIdle, TaskBegun
  <1>3. /\ stored \in [OneTask!List -> Seq(ListItem)] /\ shown = OneTask!Nil /\ running \in BOOLEAN
        /\ adding = {} /\ ticked = {} /\ loading /\ ~loaded /\ open /\ ~error /\ doneAtRead = {} /\ ~changed /\ differs = {} /\ ~astray
        /\ loading \in BOOLEAN /\ loaded \in BOOLEAN /\ open \in BOOLEAN
        /\ done \subseteq RowsOf(stored["subtasks"])
    <2>1. {<<>>} \cup {<<i>> : i \in ListItem} \subseteq Seq(ListItem)
      <3>1. ASSUME NEW i \in ListItem PROVE <<i>> \in Seq(ListItem)
        OBVIOUS
      <3>2. <<>> \in Seq(ListItem)
        OBVIOUS
      <3> QED
        BY <3>1, <3>2, Zenon
    <2>2. stored \in [OneTask!List -> {<<>>} \cup {<<i>> : i \in ListItem}]
      BY DEF OneTask!Init
    <2>3. stored \in [OneTask!List -> Seq(ListItem)]
      BY <2>1, <2>2
    <2> QED
      BY <2>3 DEF OneTask!Init, RowsOf
  <1>4. TaskTyped
    BY <1>2, <1>3, TaskLists DEF TaskTyped
  <1>5. ASSUME NEW s \in Request
        PROVE  TaskShape(requests[s]) /\ TaskWaits(s) /\ TaskFetches(s)
    <2>1. TaskShape(requests[s])
      BY <1>2, TaskIdle, TaskBegun DEF TaskShape, Fetched
    <2>2. TaskWaits(s)
      BY <1>2, <1>3, TaskIdle, TaskBegun DEF TaskWaits
    <2>3. TaskFetches(s)
      BY <1>2, <1>3, TaskIdle, TaskBegun, TaskLists DEF TaskFetches, Fetched
    <2> QED
      BY <2>1, <2>2, <2>3
  <1>6. \A s \in Request, l \in OneTask!List : ~Unheard(s, l)
    BY <1>2, TaskIdle, TaskBegun DEF Unheard
  <1>7. TaskKnows
    BY <1>2, <1>3, <1>6, TaskIdle, TaskBegun, TaskLists DEF TaskKnows
  <1> QED
    BY <1>3, <1>4, <1>5, <1>6, <1>7, TaskLists DEF TaskInv

LEMMA RetryKeepsTask ==
  ASSUME TaskInv, NEW r \in Request, OneTask!Retry(r)
  PROVE  TaskInv'
  <1>1. /\ open /\ error /\ ~loaded /\ ~loading /\ requests[r].pc = "idle"
        /\ requests' = [requests EXCEPT ![r] = OneTask!Begun]
        /\ loading' = TRUE /\ changed' = FALSE /\ differs' = {} /\ doneAtRead' = {}
        /\ UNCHANGED <<stored, done, deleted, running, open, shown, ticked, loaded, adding, toggling, deleting, astray>>
    BY DEF OneTask!Retry, OneTask!server
  <1>2. /\ requests' \in [Request -> TaskRequests] /\ requests'[r] = OneTask!Begun
        /\ \A s \in Request \ {r} : requests'[s] = requests[s]
    BY <1>1, TaskSlot, TaskBegun DEF TaskInv
  <1>3. \A s \in Request : requests[s].kind = "none"
    BY <1>1 DEF TaskInv, TaskWaits
  <1>4. TaskTyped'
    BY <1>1, <1>2 DEF TaskInv, TaskTyped
  <1>5. \A s \in Request : \A l : ~Unheard(s, l)'
    BY <1>2, <1>3, TaskBegun DEF Unheard
  <1>6. shown = OneTask!Nil /\ ticked = {}
    BY <1>1 DEF TaskInv
  <1>7. ASSUME NEW s \in Request
        PROVE  (TaskShape(requests[s]) /\ TaskWaits(s) /\ TaskFetches(s))'
    <2>1. CASE s = r
      <3>1. TaskShape(requests[s])'
        BY <1>2, <2>1, TaskBegun DEF TaskShape, Fetched
      <3>2. TaskWaits(s)'
        BY <1>1, <1>2, <1>3, <2>1, TaskBegun DEF TaskWaits
      <3>3. TaskFetches(s)'
        BY <1>2, <2>1, TaskBegun, TaskLists DEF TaskFetches, Fetched
      <3> QED
        BY <3>1, <3>2, <3>3
    <2>2. CASE s # r
      <3>1. requests'[s] = requests[s] /\ requests[s].kind = "none" /\ TaskShape(requests[s])
        BY <1>2, <1>3, <2>2 DEF TaskInv
      <3>2. TaskWaits(s)'
        BY <3>1, <1>2, <2>2, <1>3, TaskBegun DEF TaskWaits
      <3> QED
        BY <3>1, <3>2 DEF TaskFetches
    <2> QED
      BY <2>1, <2>2
  <1>8. TaskKnows'
    BY <1>1, <1>2, <1>3, <1>5, <1>6, TaskBegun, TaskLists DEF TaskInv, TaskKnows
  <1> QED
    BY <1>1, <1>4, <1>5, <1>7, <1>8 DEF TaskInv

\* One of the requests of a fetch is served, or not.
LEMMA ReadKeepsTask ==
  ASSUME TaskInv, NEW r \in Request, NEW what \in requests[r].left, OneTask!Read(r, what)
  PROVE  TaskInv'
  <1> DEFINE q == requests[r]
             g == IF what \in OneTask!List THEN [q.got EXCEPT ![what] = stored[what]] ELSE q.got
  <1>1. /\ requests' = [requests EXCEPT ![r] = [q EXCEPT !.left = q.left \ {what}, !.got = g]]
        /\ doneAtRead' = IF what = "subtasks" THEN done ELSE doneAtRead
        /\ UNCHANGED <<stored, done, deleted, running, open, shown, ticked, loading, error, loaded, adding,
                       toggling, deleting, changed, differs, astray>>
    BY DEF OneTask!Read, OneTask!server, OneTask!view, TaskInv, TaskTyped
  <1>2. PICK n : n = [q EXCEPT !.left = q.left \ {what}, !.got = g]
    OBVIOUS
  <1>3. q \in TaskRequests /\ TaskShape(q) /\ TaskWaits(r) /\ TaskFetches(r)
    BY DEF TaskInv, TaskTyped
  <1>4. q.kind \in {"load", "times"} /\ q.pc = "sent" /\ (what \in OneTask!List \/ what = "task")
    BY <1>3 DEF TaskShape, TaskRequests
  <1>5. g \in [OneTask!List -> Seq(ListItem)]
    BY <1>3 DEF TaskRequests, TaskInv, TaskTyped
  <1>6. /\ n \in TaskRequests /\ n.kind = q.kind /\ n.pc = q.pc /\ n.left = q.left \ {what} /\ n.got = g
        /\ n.list = q.list /\ n.item = q.item /\ n.ok = q.ok
    BY <1>2, <1>3, <1>5 DEF TaskRequests
  <1>7. /\ requests' \in [Request -> TaskRequests] /\ requests'[r] = n
        /\ \A s \in Request \ {r} : requests'[s] = requests[s]
    BY <1>1, <1>2, <1>6, TaskSlot DEF TaskInv
  <1> HIDE DEF q, g
  <1>8. TaskTyped'
    BY <1>1, <1>7 DEF TaskInv, TaskTyped
  <1>9. \A s \in Request : \A l : (Unheard(s, l)' <=> Unheard(s, l)) /\ requests'[s].item = requests[s].item
    BY <1>4, <1>6, <1>7 DEF Unheard, q
  <1>10. q.kind = "times" => what = "times"
    BY <1>3 DEF TaskShape, q
  <1>11. ASSUME NEW s \in Request
         PROVE  (TaskShape(requests[s]) /\ TaskWaits(s))'
    <2>1. TaskShape(requests[s])'
      BY <1>3, <1>6, <1>7 DEF TaskShape, TaskInv
    <2>2. \A t \in Request : requests'[t].kind = requests[t].kind /\ requests'[t].list = requests[t].list
                             /\ requests'[t].item = requests[t].item
      BY <1>6, <1>7 DEF q
    <2>3. TaskWaits(s)'
      BY <1>1, <2>2 DEF TaskWaits, TaskInv
    <2> QED
      BY <2>1, <2>3
  <1>12. ASSUME NEW s \in Request
         PROVE  TaskFetches(s)'
    <2>1. \A t \in Request : requests'[t].kind = requests[t].kind /\ requests'[t].list = requests[t].list
      BY <1>6, <1>7 DEF q
    <2>2. CASE s = r
      <3>1. ASSUME q.kind = "load", ~changed
            PROVE  /\ \A l \in {"subtasks", "comments"} \ (n.left \cup differs) : n.got[l] = stored[l]
                   /\ \A i \in RowsOf(n.got["subtasks"]) : i \in done <=> i \in doneAtRead'
        <4>1. /\ \A l \in {"subtasks", "comments"} \ (q.left \cup differs) : q.got[l] = stored[l]
              /\ \A i \in RowsOf(q.got["subtasks"]) : i \in done <=> i \in doneAtRead
          BY <1>3, <3>1 DEF TaskFetches, q
        <4>2. \A l \in OneTask!List : g[l] = IF l = what THEN stored[l] ELSE q.got[l]
          BY <1>3 DEF g, TaskRequests
        <4> QED
          BY <4>1, <4>2, <1>1, <1>6, TaskLists
      <3>2. ASSUME q.kind = "times", "times" \notin differs
            PROVE  ~changed => n.got["times"] = stored["times"]
        BY <1>3, <1>4, <1>6, <1>10, <3>2, TaskLists DEF g, TaskRequests
      <3>3. q.kind = "times" /\ "times" \notin differs =>
               \A t \in Request : ~(requests[t].kind = "add" /\ requests[t].list = "times")
        BY <1>3 DEF TaskFetches, q
      <3> QED
        BY <1>1, <1>6, <1>7, <2>1, <2>2, <3>1, <3>2, <3>3 DEF TaskFetches
    <2>3. CASE s # r
      <3>1. requests'[s] = requests[s] /\ TaskFetches(s) /\ TaskWaits(s)
        BY <1>7, <2>3 DEF TaskInv
      <3>2. what = "subtasks" => requests[s].kind # "load"
        BY <1>3, <1>4, <1>10, <2>3, <3>1 DEF TaskWaits, q
      <3> QED
        BY <1>1, <2>1, <3>1, <3>2 DEF TaskFetches
    <2> QED
      BY <2>2, <2>3
  <1>13. q.kind = "load" => loading /\ ~loaded
    BY <1>3 DEF TaskWaits, TaskInv, q
  <1>14. TaskKnows'
    <2>1. RowsOf(stored["subtasks"]) = RowsOf(stored["subtasks"])'
      BY <1>1
    <2>2. q.kind = "load" => \A s \in Request : ~Unheard(s, "subtasks")
      BY <1>13 DEF TaskInv, TaskWaits, Unheard
    <2>3. what = "subtasks" => q.kind = "load"
      BY <1>4, <1>10
    <2>4. q.kind = "load" => RowsOf(n.got["subtasks"]) \subseteq RowsOf(stored["subtasks"])
      <3>1. q.kind = "load" => RowsOf(q.got["subtasks"]) \subseteq RowsOf(stored["subtasks"])
        BY DEF TaskInv, TaskKnows, q
      <3>2. g["subtasks"] = IF "subtasks" = what THEN stored["subtasks"] ELSE q.got["subtasks"]
        BY <1>3, TaskLists DEF g, TaskRequests
      <3> QED
        BY <1>6, <3>1, <3>2
    <2>5. \A s \in Request : requests'[s].kind = "load" => RowsOf(requests'[s].got["subtasks"]) \subseteq RowsOf(stored["subtasks"])
      BY <1>6, <1>7, <2>4 DEF TaskInv, TaskKnows
    <2> QED
      BY <1>1, <1>9, <2>2, <2>3, <2>5 DEF TaskInv, TaskKnows
  <1>15. ASSUME NEW l \in OneTask!List, ListsAgree(l)
         PROVE  ListsAgree(l)'
    BY <1>1, <1>9, <1>15 DEF ListsAgree
  <1>16. \A s \in Request : requests'[s].kind = requests[s].kind
    BY <1>6, <1>7 DEF q
  <1>17. loaded => doneAtRead' = doneAtRead
    BY <1>1, <1>4, <1>10, <1>13
  <1>18. TicksAgree /\ loaded => TicksAgree'
    BY <1>1, <1>4, <1>6, <1>7, <1>17, TicksStay DEF q
  <1>19. open
    BY <1>4, TaskIdle DEF TaskInv, q
  <1> QED
    BY <1>1, <1>8, <1>9, <1>11, <1>12, <1>14, <1>15, <1>16, <1>18, <1>19 DEF TaskInv

LEMMA MissKeepsTask ==
  ASSUME TaskInv, NEW r \in Request, NEW what, OneTask!Miss(r, what)
  PROVE  TaskInv'
  <1> DEFINE q == requests[r]
  <1>1. /\ what \in q.left /\ what \in OneTask!List
        /\ requests' = [requests EXCEPT ![r] = [q EXCEPT !.left = q.left \ {what}]]
        /\ differs' = differs \cup {what}
        /\ UNCHANGED <<stored, done, deleted, running, open, shown, ticked, loading, error, loaded, adding,
                       toggling, deleting, changed, doneAtRead, astray>>
    BY DEF OneTask!Miss, OneTask!server, OneTask!view, TaskInv, TaskTyped
  <1>2. PICK n : n = [q EXCEPT !.left = q.left \ {what}]
    OBVIOUS
  <1>3. q \in TaskRequests /\ TaskShape(q) /\ TaskWaits(r) /\ TaskFetches(r)
    BY DEF TaskInv, TaskTyped
  <1>4. q.kind \in {"load", "times"} /\ q.pc = "sent"
    BY <1>1, <1>3 DEF TaskShape, TaskRequests
  <1>5. /\ n \in TaskRequests /\ n.kind = q.kind /\ n.pc = q.pc /\ n.left = q.left \ {what} /\ n.got = q.got
        /\ n.list = q.list /\ n.item = q.item /\ n.ok = q.ok
    BY <1>2, <1>3 DEF TaskRequests
  <1>6. /\ requests' \in [Request -> TaskRequests] /\ requests'[r] = n
        /\ \A s \in Request \ {r} : requests'[s] = requests[s]
    BY <1>1, <1>2, <1>5, TaskSlot DEF TaskInv
  <1> HIDE DEF q
  <1>7. \A s \in Request : /\ requests'[s].kind = requests[s].kind /\ requests'[s].pc = requests[s].pc
                           /\ requests'[s].list = requests[s].list /\ requests'[s].item = requests[s].item
                           /\ requests'[s].ok = requests[s].ok /\ requests'[s].got = requests[s].got
    BY <1>5, <1>6 DEF q
  <1>8. TaskTyped'
    BY <1>1, <1>6 DEF TaskInv, TaskTyped
  <1>9. \A s \in Request : \A l : Unheard(s, l)' <=> Unheard(s, l)
    BY <1>7 DEF Unheard
  <1>10. ASSUME NEW s \in Request
         PROVE  (TaskShape(requests[s]) /\ TaskWaits(s) /\ TaskFetches(s))'
    <2>1. TaskShape(requests[s])'
      BY <1>3, <1>5, <1>6 DEF TaskShape, TaskInv
    <2>2. TaskWaits(s)'
      BY <1>1, <1>7 DEF TaskWaits, TaskInv
    <2>3. requests'[s].left = IF s = r THEN requests[s].left \ {what} ELSE requests[s].left
      BY <1>5, <1>6 DEF q
    <2>4. TaskFetches(s)
      BY DEF TaskInv
    <2>5. what = "times" => q.kind = "times"
      BY <1>1, <1>3, <1>4 DEF TaskShape, Fetched
    <2>6. q.kind = "times" => what = "times"
      BY <1>1, <1>3 DEF TaskShape
    <2>7. TaskFetches(s)'
      BY <1>1, <1>7, <2>3, <2>4, <2>6 DEF TaskFetches, q
    <2> QED
      BY <2>1, <2>2, <2>7
  <1>11. TaskKnows'
    BY <1>1, <1>7, <1>9 DEF TaskInv, TaskKnows
  <1>12. ASSUME NEW l \in OneTask!List, ListsAgree(l)
         PROVE  ListsAgree(l)'
    BY <1>1, <1>7, <1>9, <1>12 DEF ListsAgree
  <1>13. TicksAgree => TicksAgree'
    BY <1>1, <1>4, <1>5, <1>6, TicksStay DEF q
  <1>14. open
    BY <1>4, TaskIdle DEF TaskInv, q
  <1> QED
    BY <1>1, <1>7, <1>8, <1>9, <1>10, <1>11, <1>12, <1>13, <1>14 DEF TaskInv

LEMMA MissTaskKeepsTask ==
  ASSUME TaskInv, NEW r \in Request, OneTask!MissTask(r)
  PROVE  TaskInv'
  <1>1. /\ "task" \in requests[r].left
        /\ requests' = [requests EXCEPT ![r] = OneTask!Idle]
        /\ loading' = FALSE
        /\ UNCHANGED <<stored, done, deleted, running, open, shown, ticked, loaded, adding,
                       toggling, deleting, doneAtRead, changed, differs, astray>>
    BY DEF OneTask!MissTask, OneTask!server, OneTask!history, OneTask!Free
  <1>2. /\ requests' \in [Request -> TaskRequests] /\ requests'[r] = OneTask!Idle
        /\ \A s \in Request \ {r} : requests'[s] = requests[s]
    BY <1>1, TaskSlot, TaskIdle DEF TaskInv
  <1>3. TaskShape(requests[r]) /\ TaskWaits(r)
    BY DEF TaskInv
  <1>4. requests[r].kind = "load" /\ ~loaded
    BY <1>1, <1>3 DEF TaskShape, TaskWaits, TaskInv
  <1>5. \A s \in Request : requests'[s].kind = "none"
    BY <1>2, <1>4, TaskIdle DEF TaskInv, TaskWaits
  <1>6. TaskTyped'
    BY <1>1, <1>2 DEF TaskInv, TaskTyped
  <1>7. \A s \in Request : TaskShape(requests'[s])
    BY <1>2, TaskIdle DEF TaskShape, TaskInv
  <1>8. \A s \in Request : (TaskShape(requests[s]) /\ TaskWaits(s) /\ TaskFetches(s))'
    BY <1>5, <1>7 DEF TaskWaits, TaskFetches
  <1>9. \A s \in Request : \A l : ~Unheard(s, l)'
    BY <1>5 DEF Unheard
  <1>10. TaskKnows'
    BY <1>1, <1>5, <1>9 DEF TaskInv, TaskKnows
  <1> QED
    BY <1>1, <1>2, <1>4, <1>6, <1>8, <1>9, <1>10 DEF TaskInv

\* The lists arrive and the page is shown.
LEMMA LandTaskKeepsTask ==
  ASSUME TaskInv, NEW r \in Request, OneTask!LandTask(r)
  PROVE  TaskInv'
  <1> DEFINE q == requests[r]
             n == [OneTask!Idle EXCEPT !.kind = "times", !.pc = "sent", !.left = {"times"}]
  <1>1. /\ q.kind = "load" /\ q.left = {} /\ loaded' = TRUE /\ loading' = FALSE
        /\ shown' = [q.got EXCEPT !["times"] = shown["times"]] /\ ticked' = {}
        /\ requests' = [requests EXCEPT ![r] = n]
        /\ UNCHANGED <<stored, done, deleted, running, open, error, adding,
                       toggling, deleting, doneAtRead, changed, differs, astray>>
    BY DEF OneTask!LandTask, OneTask!server, OneTask!history
  <1>2. n \in TaskRequests /\ n.kind = "times" /\ n.pc = "sent" /\ n.left = {"times"}
    BY TaskSends
  <1>3. /\ requests' \in [Request -> TaskRequests] /\ requests'[r] = n
        /\ \A s \in Request \ {r} : requests'[s] = requests[s]
    BY <1>1, <1>2, TaskSlot DEF TaskInv
  <1>4. q \in TaskRequests /\ TaskFetches(r) /\ TaskWaits(r)
    BY DEF TaskInv, TaskTyped
  <1>5. ~loaded /\ shown = OneTask!Nil
    BY <1>1, <1>4 DEF TaskInv, TaskWaits
  <1>6. \A s \in Request \ {r} : requests'[s].kind = "none"
    BY <1>1, <1>3, <1>5 DEF TaskInv, TaskWaits
  <1>7. /\ shown' \in [OneTask!List -> Seq(ListItem)]
        /\ shown'["subtasks"] = q.got["subtasks"] /\ shown'["comments"] = q.got["comments"]
    BY <1>1, <1>4, <1>5, TaskLists DEF TaskRequests
  <1> HIDE DEF q, n
  <1>8. TaskTyped'
    BY <1>1, <1>3, <1>7 DEF TaskInv, TaskTyped
  <1>9. \A s \in Request : \A l : ~Unheard(s, l)'
    BY <1>2, <1>3, <1>6 DEF Unheard
  <1>10. ASSUME NEW s \in Request
         PROVE  (TaskShape(requests[s]) /\ TaskWaits(s) /\ TaskFetches(s))'
    <2>1. CASE s = r
      <3>1. TaskShape(requests[s])'
        BY <1>2, <1>3, <2>1 DEF TaskShape
      <3>2. TaskWaits(s)'
        BY <1>1, <1>2, <1>3, <1>6, <2>1 DEF TaskWaits
      <3>3. TaskFetches(s)'
        BY <1>2, <1>3, <1>6, <2>1 DEF TaskFetches
      <3> QED
        BY <3>1, <3>2, <3>3
    <2>2. CASE s # r
      <3>1. requests'[s] = requests[s] /\ requests[s].kind = "none" /\ TaskShape(requests[s])
        BY <1>3, <1>6, <2>2 DEF TaskInv
      <3>2. TaskWaits(s)'
        BY <3>1, <1>2, <1>3, <2>2, <1>6 DEF TaskWaits
      <3> QED
        BY <3>1, <3>2 DEF TaskFetches
    <2> QED
      BY <2>1, <2>2
  <1>11. TaskKnows'
    <2>1. RowsOf(q.got["subtasks"]) \subseteq RowsOf(stored["subtasks"])
      BY <1>1 DEF TaskInv, TaskKnows, q
    <2> QED
      BY <1>1, <1>2, <1>3, <1>6, <1>7, <1>9, <2>1 DEF TaskInv, TaskKnows
  <1>12. ASSUME ~changed
         PROVE  /\ \A l \in {"subtasks", "comments"} \ differs : ListsAgree(l)'
                /\ TicksAgree'
    <2>1. /\ \A l \in {"subtasks", "comments"} \ differs : q.got[l] = stored[l]
          /\ \A i \in RowsOf(q.got["subtasks"]) : i \in done <=> i \in doneAtRead
      BY <1>1, <1>4, <1>12 DEF TaskFetches, q
    <2>2. \A i : ~TicksSent(i)'
      BY <1>2, <1>3, <1>6 DEF TicksSent
    <2>3. \A l \in {"subtasks", "comments"} \ differs : ListsAgree(l)'
      BY <1>1, <1>7, <1>9, <2>1 DEF ListsAgree
    <2>4. ASSUME NEW i \in RowsOf(shown'["subtasks"])
          PROVE  i \in ticked' <=> (TicksSent(i)' <=> (i \in done <=> i \in doneAtRead))
      <3>1. i \notin ticked' /\ ~TicksSent(i)' /\ (i \in done <=> i \in doneAtRead)
        BY <1>1, <1>7, <2>1, <2>2, <2>4
      <3> QED
        BY <3>1
    <2> QED
      BY <1>1, <2>3, <2>4 DEF TicksAgree
  <1>13. requests'[r].kind = "times" /\ open
    BY <1>1, <1>2, <1>3, TaskIdle DEF TaskInv, q
  <1> QED
    BY <1>1, <1>8, <1>9, <1>10, <1>11, <1>12, <1>13, TaskLists DEF TaskInv

LEMMA LandTimesKeepsTask ==
  ASSUME TaskInv, NEW r \in Request, OneTask!LandTimes(r)
  PROVE  TaskInv'
  <1> DEFINE q == requests[r]
  <1>1. /\ q.kind = "times" /\ q.left = {}
        /\ shown' = [shown EXCEPT !["times"] = q.got["times"]]
        /\ requests' = [requests EXCEPT ![r] = OneTask!Idle]
        /\ UNCHANGED <<stored, done, deleted, running, open, ticked, loading, error, loaded, adding,
                       toggling, deleting, doneAtRead, changed, differs, astray>>
    BY DEF OneTask!LandTimes, OneTask!server, OneTask!history, OneTask!Free
  <1>2. /\ requests' \in [Request -> TaskRequests] /\ requests'[r] = OneTask!Idle
        /\ \A s \in Request \ {r} : requests'[s] = requests[s]
    BY <1>1, TaskSlot, TaskIdle DEF TaskInv
  <1>3. q \in TaskRequests /\ TaskFetches(r) /\ TaskWaits(r)
    BY DEF TaskInv, TaskTyped
  <1>4. /\ shown' \in [OneTask!List -> Seq(ListItem)]
        /\ shown'["subtasks"] = shown["subtasks"] /\ shown'["comments"] = shown["comments"]
        /\ shown'["times"] = q.got["times"]
    BY <1>1, <1>3, TaskLists DEF TaskRequests, TaskInv, TaskTyped
  <1>5. TaskTyped'
    BY <1>1, <1>2, <1>4 DEF TaskInv, TaskTyped
  <1>6. \A s \in Request : \A l : (Unheard(s, l)' <=> Unheard(s, l)) /\ (Unheard(s, l) => requests'[s] = requests[s])
    BY <1>1, <1>2, TaskIdle DEF Unheard
  <1>7. loaded /\ ~loading /\ open
    BY <1>1, <1>3, TaskIdle DEF TaskInv, TaskWaits
  <1>8. ASSUME NEW s \in Request
        PROVE  (TaskShape(requests[s]) /\ TaskWaits(s) /\ TaskFetches(s))'
    <2>1. CASE s = r
      BY <1>2, <2>1, TaskIdle DEF TaskShape, TaskWaits, TaskFetches
    <2>2. CASE s # r
      <3>1. requests'[s] = requests[s] /\ TaskShape(requests[s]) /\ TaskWaits(s) /\ TaskFetches(s)
        BY <1>2, <2>2 DEF TaskInv
      <3>2. TaskWaits(s)'
        BY <3>1, <1>1, <1>2, <1>4, TaskIdle DEF TaskWaits
      <3>3. TaskFetches(s)'
        BY <3>1, <1>1, <1>2, TaskIdle DEF TaskFetches
      <3> QED
        BY <3>1, <3>2, <3>3
    <2> QED
      BY <2>1, <2>2
  <1>9. TaskKnows'
    BY <1>1, <1>2, <1>4, <1>6, TaskIdle DEF TaskInv, TaskKnows
  <1>10. ASSUME ~changed, "times" \notin differs
         PROVE  ListsAgree("times")'
    <2>1. q.got["times"] = stored["times"]
      BY <1>1, <1>3, <1>10 DEF TaskFetches
    <2>2. \A s \in Request : ~Unheard(s, "times")
      BY <1>1, <1>3, <1>10 DEF TaskFetches, Unheard
    <2> QED
      BY <1>1, <1>4, <1>6, <2>1, <2>2 DEF ListsAgree
  <1>11. ASSUME NEW l \in {"subtasks", "comments"}, ListsAgree(l)
         PROVE  ListsAgree(l)'
    BY <1>1, <1>4, <1>6, <1>11 DEF ListsAgree
  <1>12. TicksAgree => TicksAgree'
    BY <1>1, <1>2, <1>4, TaskIdle, TicksStay
  <1>13. open /\ loaded /\ ~changed =>
          /\ \A l \in OneTask!List \ differs : ListsAgree(l)'
          /\ ~astray => TicksAgree'
    BY <1>10, <1>11, <1>12, TaskLists DEF TaskInv
  <1> QED
    BY <1>1, <1>5, <1>6, <1>7, <1>8, <1>9, <1>13, TaskLists DEF TaskInv

\* Something is sent.
LEMMA AddKeepsTask ==
  ASSUME TaskInv, NEW r \in Request, NEW list \in OneTask!List, OneTask!Add(r, list)
  PROVE  TaskInv'
  <1> DEFINE n == [OneTask!Idle EXCEPT !.kind = "add", !.pc = "sent", !.list = list]
  <1>1. /\ open /\ loaded /\ ~loading /\ list \notin adding /\ requests[r].pc = "idle"
        /\ requests' = [requests EXCEPT ![r] = n]
        /\ adding' = adding \cup ({list} \ {"times"})
        /\ differs' = IF list = "times" /\ \E s \in Request : requests[s].kind = "times"
                      THEN differs \cup {list} ELSE differs
        /\ UNCHANGED <<stored, done, deleted, running, open, shown, ticked, loading, error, loaded,
                       toggling, deleting, doneAtRead, changed, astray>>
    BY DEF OneTask!Add, OneTask!AddOffered, OneTask!Page, OneTask!Send, OneTask!server
  <1>2. n \in TaskRequests /\ n.kind = "add" /\ n.pc = "sent" /\ n.list = list /\ n.left = {}
    BY TaskSends
  <1> HIDE DEF n
  <1>3. /\ requests' \in [Request -> TaskRequests] /\ requests'[r] = n
        /\ \A s \in Request \ {r} : requests'[s] = requests[s]
    BY <1>1, <1>2, TaskSlot DEF TaskInv
  <1>4. requests[r].kind = "none"
    BY <1>1 DEF TaskInv, TaskShape
  <1>5. adding' \in SUBSET OneTask!List /\ differs' \in SUBSET OneTask!List /\ differs \subseteq differs'
    BY <1>1 DEF TaskInv, TaskTyped
  <1>6. TaskTyped'
    BY <1>1, <1>3, <1>5 DEF TaskInv, TaskTyped
  <1>7. \A s \in Request : \A l : /\ Unheard(s, l)' <=> Unheard(s, l)
                                  /\ Unheard(s, l) => requests'[s] = requests[s]
    BY <1>2, <1>3, <1>4 DEF Unheard
  <1>8. ASSUME NEW s \in Request
        PROVE  (TaskShape(requests[s]) /\ TaskWaits(s) /\ TaskFetches(s))'
    <2>1. CASE s = r
      <3>1. TaskShape(requests[s])' /\ TaskFetches(s)'
        BY <1>2, <1>3, <2>1 DEF TaskShape, TaskFetches
      <3>2. \A t \in Request \ {r} : requests[t].kind = "add" /\ list # "times" => requests[t].list # list
        BY <1>1 DEF TaskInv, TaskWaits
      <3>3. TaskWaits(s)'
        BY <1>1, <1>2, <1>3, <2>1, <3>2 DEF TaskWaits
      <3> QED
        BY <3>1, <3>3
    <2>2. CASE s # r
      <3>1. requests'[s] = requests[s] /\ TaskShape(requests[s]) /\ TaskWaits(s) /\ TaskFetches(s)
        BY <1>3, <2>2 DEF TaskInv
      <3>2. requests[s].kind = "add" /\ requests[s].list # "times" => requests[s].list # list
        BY <1>1, <3>1 DEF TaskWaits
      <3>3. TaskWaits(s)'
        BY <3>1, <3>2, <1>1, <1>2, <1>3 DEF TaskWaits
      <3>4. requests[s].kind = "times" /\ "times" \notin differs' => list # "times"
        BY <1>1
      <3>5. requests[s].kind # "load"
        BY <1>1, <3>1 DEF TaskWaits
      <3>6. TaskFetches(s)'
        BY <3>1, <3>4, <3>5, <1>1, <1>2, <1>3, <1>5 DEF TaskFetches
      <3> QED
        BY <3>1, <3>3, <3>6
    <2> QED
      BY <2>1, <2>2
  <1>9. TaskKnows'
    BY <1>1, <1>2, <1>3, <1>7 DEF TaskInv, TaskKnows
  <1>10. \A l : ListsAgree(l) => ListsAgree(l)'
    BY <1>1, <1>7 DEF ListsAgree
  <1>11. TicksAgree => TicksAgree'
    BY <1>1, <1>2, <1>3, <1>4, TicksStay
  <1>12. (\A s \in Request : requests'[s].kind # "times") => \A s \in Request : requests[s].kind # "times"
    BY <1>3, <1>4
  <1> QED
    BY <1>1, <1>5, <1>6, <1>7, <1>8, <1>9, <1>10, <1>11, <1>12 DEF TaskInv

LEMMA HandleDeleteKeepsTask ==
  ASSUME TaskInv, NEW r \in Request, OneTask!HandleDelete(r)
  PROVE  TaskInv'
  <1> DEFINE n == [OneTask!Idle EXCEPT !.kind = "delete", !.pc = "sent"]
  <1>1. /\ open /\ loaded /\ ~loading /\ requests[r].pc = "idle"
        /\ requests' = [requests EXCEPT ![r] = n]
        /\ UNCHANGED <<stored, done, deleted, running, open, shown, ticked, loading, error, loaded, adding,
                       toggling, doneAtRead, changed, differs, astray>>
    BY DEF OneTask!HandleDelete, OneTask!Page, OneTask!Send, OneTask!server, OneTask!history
  <1>2. n \in TaskRequests /\ n.kind = "delete" /\ n.pc = "sent" /\ n.left = {}
    BY TaskSends
  <1> HIDE DEF n
  <1>3. /\ requests' \in [Request -> TaskRequests] /\ requests'[r] = n
        /\ \A s \in Request \ {r} : requests'[s] = requests[s]
    BY <1>1, <1>2, TaskSlot DEF TaskInv
  <1>4. requests[r].kind = "none"
    BY <1>1 DEF TaskInv, TaskShape
  <1>5. TaskTyped'
    BY <1>1, <1>3 DEF TaskInv, TaskTyped
  <1>6. \A s \in Request : \A l : /\ Unheard(s, l)' <=> Unheard(s, l)
                                  /\ Unheard(s, l) => requests'[s] = requests[s]
    BY <1>2, <1>3, <1>4 DEF Unheard
  <1>7. ASSUME NEW s \in Request
        PROVE  (TaskShape(requests[s]) /\ TaskWaits(s) /\ TaskFetches(s))'
    <2>1. CASE s = r
      BY <1>1, <1>2, <1>3, <2>1 DEF TaskShape, TaskFetches, TaskWaits
    <2>2. CASE s # r
      <3>1. requests'[s] = requests[s] /\ TaskShape(requests[s]) /\ TaskWaits(s) /\ TaskFetches(s)
        BY <1>3, <2>2 DEF TaskInv
      <3>2. TaskWaits(s)'
        BY <3>1, <1>1, <1>2, <1>3 DEF TaskWaits
      <3>3. TaskFetches(s)'
        BY <3>1, <1>1, <1>2, <1>3 DEF TaskFetches
      <3> QED
        BY <3>1, <3>2, <3>3
    <2> QED
      BY <2>1, <2>2
  <1>8. TaskKnows'
    BY <1>1, <1>2, <1>3, <1>6 DEF TaskInv, TaskKnows
  <1>9. \A l : ListsAgree(l) => ListsAgree(l)'
    BY <1>1, <1>6 DEF ListsAgree
  <1>10. TicksAgree => TicksAgree'
    BY <1>1, <1>2, <1>3, <1>4, TicksStay
  <1>11. (\A s \in Request : requests'[s].kind # "times") => \A s \in Request : requests[s].kind # "times"
    BY <1>3, <1>4
  <1> QED
    BY <1>1, <1>5, <1>6, <1>7, <1>8, <1>9, <1>10, <1>11 DEF TaskInv

\* A box is ticked before the answer is known.
LEMMA ToggleSubTaskKeepsTask ==
  ASSUME TaskInv, NEW r \in Request, NEW i \in ListItem, OneTask!ToggleSubTask(r, i)
  PROVE  TaskInv'
  <1> DEFINE n == [OneTask!Idle EXCEPT !.kind = "toggle", !.pc = "sent", !.item = i]
  <1>1. /\ open /\ loaded /\ ~loading /\ requests[r].pc = "idle" /\ toggling = None
        /\ i \in RowsOf(shown["subtasks"])
        /\ toggling' = i /\ ticked' = OneTask!Flip(ticked, i)
        /\ requests' = [requests EXCEPT ![r] = n]
        /\ UNCHANGED <<stored, done, deleted, running, open, shown, loading, error, loaded, adding,
                       deleting, doneAtRead, changed, differs, astray>>
    BY DEF OneTask!ToggleSubTask, OneTask!TickOffered, OneTask!Page, OneTask!Send, OneTask!server, OneTask!history, RowsOf
  <1>2. n \in TaskRequests /\ n.kind = "toggle" /\ n.pc = "sent" /\ n.item = i /\ n.left = {}
    BY TaskSends
  <1> HIDE DEF n
  <1>3. /\ requests' \in [Request -> TaskRequests] /\ requests'[r] = n
        /\ \A s \in Request \ {r} : requests'[s] = requests[s]
    BY <1>1, <1>2, TaskSlot DEF TaskInv
  <1>4. requests[r].kind = "none"
    BY <1>1 DEF TaskInv, TaskShape
  <1>5. \A s \in Request : requests[s].kind # "toggle"
    BY <1>1, ClientsAssumption DEF TaskInv, TaskWaits, TaskShape
  <1>6. TaskTyped'
    BY <1>1, <1>3 DEF TaskInv, TaskTyped
  <1>7. \A s \in Request : \A l : /\ Unheard(s, l)' <=> Unheard(s, l)
                                  /\ Unheard(s, l) => requests'[s] = requests[s]
    BY <1>2, <1>3, <1>4 DEF Unheard
  <1>8. ASSUME NEW s \in Request
        PROVE  (TaskShape(requests[s]) /\ TaskWaits(s) /\ TaskFetches(s))'
    <2>1. CASE s = r
      BY <1>1, <1>2, <1>3, <1>5, <2>1 DEF TaskShape, TaskFetches, TaskWaits
    <2>2. CASE s # r
      <3>1. requests'[s] = requests[s] /\ TaskShape(requests[s]) /\ TaskWaits(s) /\ TaskFetches(s)
        BY <1>3, <2>2 DEF TaskInv
      <3>2. TaskWaits(s)'
        BY <3>1, <1>1, <1>2, <1>3, <1>5 DEF TaskWaits
      <3>3. TaskFetches(s)'
        BY <3>1, <1>1, <1>2, <1>3 DEF TaskFetches
      <3> QED
        BY <3>1, <3>2, <3>3
    <2> QED
      BY <2>1, <2>2
  <1>9. TaskKnows'
    <2>1. ticked' \subseteq RowsOf(shown'["subtasks"])
      BY <1>1 DEF TaskInv, TaskKnows, OneTask!Flip
    <2> QED
      BY <1>1, <1>2, <1>3, <1>7, <2>1 DEF TaskInv, TaskKnows
  <1>10. \A l : ListsAgree(l) => ListsAgree(l)'
    BY <1>1, <1>7 DEF ListsAgree
  <1>11. ASSUME TicksAgree PROVE TicksAgree'
    <2>1. /\ \A j : ~TicksSent(j)
          /\ \A j : TicksSent(j)' <=> j = i
      BY <1>2, <1>3, <1>5 DEF TicksSent
    <2>2. \A j : j \in ticked' <=> IF j = i THEN i \notin ticked ELSE j \in ticked
      BY <1>1 DEF OneTask!Flip
    <2>3. \A j \in RowsOf(shown["subtasks"]) : j \in ticked <=> ~(j \in done <=> j \in doneAtRead)
      BY <1>11, <2>1 DEF TicksAgree
    <2> QED
      BY <1>1, <2>1, <2>2, <2>3 DEF TicksAgree
  <1>12. (\A s \in Request : requests'[s].kind # "times") => \A s \in Request : requests[s].kind # "times"
    BY <1>3, <1>4
  <1> QED
    BY <1>1, <1>6, <1>7, <1>8, <1>9, <1>10, <1>11, <1>12 DEF TaskInv

\* A request is served.
LEMMA ServeAddKeepsTask ==
  ASSUME TaskInv, NEW r \in Request, NEW i \in ListItem, OneTask!ServeAdd(r, i)
  PROVE  TaskInv'
  <1> DEFINE q == requests[r]
             accepted == ~deleted /\ (q.list = "times" => ~running)
  <1>1. q \in TaskRequests /\ TaskShape(q) /\ TaskWaits(r) /\ TaskFetches(r) /\ q.list \in OneTask!List
    BY DEF TaskInv, TaskTyped, TaskRequests
  <1>2. PICK n : n = [q EXCEPT !.pc = "served", !.ok = accepted, !.item = i]
    OBVIOUS
  <1>3. /\ q.kind = "add" /\ q.pc = "sent" /\ OneTask!New(i)
        /\ requests' = [requests EXCEPT ![r] = n]
        /\ stored' = IF accepted THEN [stored EXCEPT ![q.list] = OneTask!With(q.list, stored[q.list], i)] ELSE stored
        /\ running' = (running \/ (accepted /\ q.list = "times"))
        /\ UNCHANGED <<done, deleted, open, shown, ticked, loading, error, loaded, adding,
                       toggling, deleting, doneAtRead, changed, differs, astray>>
    BY <1>2 DEF OneTask!ServeAdd, OneTask!view, OneTask!history, TaskInv, TaskTyped
  <1>4. /\ n \in TaskRequests /\ n.pc = "served" /\ (n.ok <=> accepted) /\ n.item = i
        /\ n.kind = "add" /\ n.list = q.list /\ n.left = q.left /\ n.got = q.got
    BY <1>1, <1>2, <1>3 DEF TaskRequests
  <1>5. /\ requests' \in [Request -> TaskRequests] /\ requests'[r] = n
        /\ \A s \in Request \ {r} : requests'[s] = requests[s]
    BY <1>3, <1>4, TaskSlot DEF TaskInv
  <1>6. /\ stored' \in [OneTask!List -> Seq(ListItem)]
        /\ \A l \in OneTask!List : stored'[l] = IF accepted /\ l = q.list THEN OneTask!With(l, stored[l], i) ELSE stored[l]
        /\ \A l \in OneTask!List : RowsOf(stored'[l]) = IF accepted /\ l = q.list THEN RowsOf(stored[l]) \cup {i} ELSE RowsOf(stored[l])
    <2>1. stored \in [OneTask!List -> Seq(ListItem)]
      BY DEF TaskInv, TaskTyped
    <2>2. \A l \in OneTask!List : /\ OneTask!With(l, stored[l], i) \in Seq(ListItem)
                                  /\ RowsOf(OneTask!With(l, stored[l], i)) = RowsOf(stored[l]) \cup {i}
      BY <2>1, WithRow
    <2> HIDE DEF accepted, q
    <2> QED
      BY <1>1, <1>3, <2>1, <2>2
  <1>7. \A l \in OneTask!List : i \notin RowsOf(stored[l])
    BY <1>3 DEF OneTask!New, RowsOf
  <1> HIDE DEF q, accepted
  <1>8. TaskTyped'
    BY <1>3, <1>5, <1>6 DEF TaskInv, TaskTyped
  <1>9. \A s \in Request : requests'[s].kind = requests[s].kind /\ requests'[s].list = requests[s].list
    BY <1>3, <1>4, <1>5 DEF q
  <1>10. /\ \A s \in Request \ {r} : \A l : Unheard(s, l)' <=> Unheard(s, l)
         /\ \A l : ~Unheard(r, l) /\ (Unheard(r, l)' <=> l = q.list /\ accepted)
    BY <1>3, <1>4, <1>5 DEF Unheard, q
  <1>11. loaded /\ ~loading /\ \A s \in Request : requests[s].kind # "load"
    BY <1>1, <1>3 DEF TaskInv, TaskWaits, q
  <1>12. ASSUME NEW s \in Request
         PROVE  (TaskShape(requests[s]) /\ TaskWaits(s) /\ TaskFetches(s))'
    <2>1. CASE s = r
      BY <1>1, <1>3, <1>4, <1>5, <1>9, <2>1 DEF TaskShape, TaskFetches, TaskWaits, q
    <2>2. CASE s # r
      <3>1. requests'[s] = requests[s] /\ TaskShape(requests[s]) /\ TaskWaits(s) /\ TaskFetches(s)
        BY <1>5, <2>2 DEF TaskInv
      <3>2. TaskWaits(s)'
        BY <3>1, <1>3, <1>9 DEF TaskWaits
      <3>3. requests[s].kind = "times" /\ "times" \notin differs => q.list # "times"
        BY <1>3, <3>1 DEF TaskFetches, q
      <3>4. TaskFetches(s)'
        BY <3>1, <3>3, <1>3, <1>6, <1>9, <1>11, TaskLists DEF TaskFetches
      <3> QED
        BY <3>1, <3>2, <3>4
    <2> QED
      BY <2>1, <2>2
  <1>13. TaskKnows'
    <2>1. RowsOf(stored["subtasks"]) \subseteq RowsOf(stored'["subtasks"])
      BY <1>6, TaskLists
    <2>2. i \notin RowsOf(shown["subtasks"]) \cup doneAtRead \cup done \/ i \in RowsOf(stored["subtasks"])
      BY DEF TaskInv, TaskKnows
    <2>3. i \notin RowsOf(stored["subtasks"])
      BY <1>7, TaskLists
    <2>4. \A s \in Request : Unheard(s, "subtasks")' =>
             /\ requests'[s].item \in RowsOf(stored'["subtasks"])
             /\ requests'[s].item \notin RowsOf(shown["subtasks"]) \cup doneAtRead
             /\ requests'[s].item \in done => changed
      BY <1>4, <1>5, <1>6, <1>10, <2>1, <2>2, <2>3, TaskLists DEF TaskInv, TaskKnows
    <2> QED
      BY <1>3, <1>9, <1>11, <2>1, <2>4 DEF TaskInv, TaskKnows
  <1>14. \A s \in Request : Unheard(s, "times")' => running'
    BY <1>3, <1>10 DEF TaskInv
  <1>15. ASSUME NEW l \in OneTask!List, ListsAgree(l)
         PROVE  ListsAgree(l)'
    <2>1. CASE l = q.list /\ accepted
      <3>1. \A s \in Request : ~Unheard(s, l)
        <4>1. CASE l = "times"
          BY <4>1, <2>1 DEF TaskInv, accepted
        <4>2. CASE l # "times"
          BY <4>2, <2>1, <1>1, <1>3, <1>10 DEF TaskWaits, Unheard, q
        <4> QED
          BY <4>1, <4>2
      <3>2. shown[l] = stored[l]
        BY <3>1, <1>15 DEF ListsAgree
      <3>3. \A s \in Request : Unheard(s, l)' <=> s = r
        BY <3>1, <2>1, <1>10
      <3> QED
        BY <1>3, <1>4, <1>5, <1>6, <2>1, <3>2, <3>3 DEF ListsAgree
    <2>2. CASE ~(l = q.list /\ accepted)
      <3>1. stored'[l] = stored[l] /\ shown' = shown /\ ~Unheard(r, l) /\ ~Unheard(r, l)'
        BY <1>3, <1>6, <1>10, <2>2
      <3> QED
        BY <1>5, <1>15, <3>1, ListsStay
    <2> QED
      BY <2>1, <2>2
  <1>16. TicksAgree => TicksAgree'
    BY <1>3, <1>4, <1>5, TicksStay DEF q
  <1> QED
    BY <1>3, <1>8, <1>9, <1>11, <1>12, <1>13, <1>14, <1>15, <1>16, TaskIdle, <1>1 DEF TaskInv, q

LEMMA ServeDeleteKeepsTask ==
  ASSUME TaskInv, NEW r \in Request, OneTask!ServeDelete(r)
  PROVE  TaskInv'
  <1> DEFINE q == requests[r]
  <1>2. q \in TaskRequests /\ TaskShape(q) /\ TaskWaits(r) /\ TaskFetches(r) /\ q.item \in ListItem \cup {None}
    BY DEF TaskInv, TaskTyped, TaskRequests
  <1>3. PICK n : n = [q EXCEPT !.pc = "served", !.ok = ~deleted]
    OBVIOUS
  <1>4. /\ q.kind = "delete" /\ q.pc = "sent"
        /\ requests' = [requests EXCEPT ![r] = n]
        /\ UNCHANGED <<stored, done, running, open, shown, ticked, loading, error, loaded, adding,
                       toggling, deleting, doneAtRead, changed, differs, astray>>
    BY <1>3 DEF OneTask!ServeDelete, OneTask!view, OneTask!history, TaskInv, TaskTyped
  <1>5. /\ n \in TaskRequests /\ n.pc = "served" /\ n.item = q.item
        /\ n.kind = q.kind /\ n.list = q.list /\ n.left = q.left /\ n.got = q.got
    BY <1>2, <1>3 DEF TaskRequests
  <1>6. /\ requests' \in [Request -> TaskRequests] /\ requests'[r] = n
        /\ \A s \in Request \ {r} : requests'[s] = requests[s]
    BY <1>4, <1>5, TaskSlot DEF TaskInv
  <1> HIDE DEF q
  <1>7. TaskTyped'
    BY <1>4, <1>6 DEF TaskInv, TaskTyped
  <1>8. \A s \in Request : /\ requests'[s].kind = requests[s].kind /\ requests'[s].list = requests[s].list
                           /\ requests'[s].item = requests[s].item
    BY <1>5, <1>6 DEF q
  <1>9. \A s \in Request : \A l : Unheard(s, l)' <=> Unheard(s, l)
    BY <1>4, <1>5, <1>6 DEF Unheard, q
  <1>10. ASSUME NEW s \in Request
         PROVE  (TaskShape(requests[s]) /\ TaskWaits(s) /\ TaskFetches(s))'
    <2>1. CASE s = r
      BY <1>2, <1>4, <1>5, <1>6, <1>8, <2>1 DEF TaskShape, TaskFetches, TaskWaits, q
    <2>2. CASE s # r
      <3>1. requests'[s] = requests[s] /\ TaskShape(requests[s]) /\ TaskWaits(s) /\ TaskFetches(s)
        BY <1>6, <2>2 DEF TaskInv
      <3>2. TaskWaits(s)'
        BY <3>1, <1>4, <1>8 DEF TaskWaits
      <3>3. TaskFetches(s)'
        BY <3>1, <1>4, <1>8 DEF TaskFetches
      <3> QED
        BY <3>1, <3>2, <3>3
    <2> QED
      BY <2>1, <2>2
  <1>11. TaskKnows'
    <2>1. \A s \in Request : requests'[s].kind = "load" => requests'[s] = requests[s]
      BY <1>4, <1>5, <1>6 DEF q
    <2> QED
      BY <1>4, <1>8, <1>9, <2>1 DEF TaskInv, TaskKnows
  <1>12. ASSUME NEW l \in OneTask!List, ListsAgree(l)
         PROVE  ListsAgree(l)'
    BY <1>4, <1>8, <1>9, <1>12 DEF ListsAgree
  <1>13. TicksAgree => TicksAgree'
    BY <1>4, <1>5, <1>6, TicksStay DEF q
  <1>14. open
    BY <1>4, TaskIdle DEF TaskInv, q
  <1> QED
    BY <1>4, <1>7, <1>8, <1>9, <1>10, <1>11, <1>12, <1>13, <1>14 DEF TaskInv

\* A tick is served: what was on its way is done.
LEMMA ServeToggleKeepsTask ==
  ASSUME TaskInv, NEW r \in Request, OneTask!ServeToggle(r)
  PROVE  TaskInv'
  <1> DEFINE q == requests[r]
  <1>1. q \in TaskRequests /\ TaskShape(q) /\ TaskWaits(r) /\ TaskFetches(r) /\ q.item \in ListItem \cup {None}
    BY DEF TaskInv, TaskTyped, TaskRequests
  <1>2. PICK n : n = [q EXCEPT !.pc = "served", !.ok = TRUE]
    OBVIOUS
  <1>3. /\ q.kind = "toggle" /\ q.pc = "sent"
        /\ requests' = [requests EXCEPT ![r] = n]
        /\ done' = OneTask!Flip(done, q.item)
        /\ UNCHANGED <<stored, deleted, running, open, shown, ticked, loading, error, loaded, adding,
                       toggling, deleting, doneAtRead, changed, differs, astray>>
    BY <1>2 DEF OneTask!ServeToggle, OneTask!view, OneTask!history, TaskInv, TaskTyped
  <1>4. /\ n \in TaskRequests /\ n.pc = "served" /\ n.item = q.item
        /\ n.kind = q.kind /\ n.list = q.list /\ n.left = q.left /\ n.got = q.got
    BY <1>1, <1>2 DEF TaskRequests
  <1>5. /\ requests' \in [Request -> TaskRequests] /\ requests'[r] = n
        /\ \A s \in Request \ {r} : requests'[s] = requests[s]
    BY <1>3, <1>4, TaskSlot DEF TaskInv
  <1> HIDE DEF q
  <1>6. TaskTyped'
    BY <1>3, <1>5 DEF TaskInv, TaskTyped
  <1>7. \A s \in Request : /\ requests'[s].kind = requests[s].kind /\ requests'[s].list = requests[s].list
                           /\ requests'[s].item = requests[s].item
    BY <1>4, <1>5 DEF q
  <1>8. \A s \in Request : \A l : Unheard(s, l)' <=> Unheard(s, l)
    BY <1>3, <1>4, <1>5 DEF Unheard, q
  <1>9. loaded /\ ~loading /\ \A s \in Request : requests[s].kind # "load"
    BY <1>1, <1>3 DEF TaskInv, TaskWaits, q
  <1>10. ASSUME NEW s \in Request
         PROVE  (TaskShape(requests[s]) /\ TaskWaits(s) /\ TaskFetches(s))'
    <2>1. CASE s = r
      BY <1>1, <1>3, <1>4, <1>5, <1>7, <2>1 DEF TaskShape, TaskFetches, TaskWaits, q
    <2>2. CASE s # r
      <3>1. requests'[s] = requests[s] /\ TaskShape(requests[s]) /\ TaskWaits(s) /\ TaskFetches(s)
        BY <1>5, <2>2 DEF TaskInv
      <3>2. TaskWaits(s)'
        BY <3>1, <1>3, <1>7 DEF TaskWaits
      <3>3. TaskFetches(s)'
        BY <3>1, <1>3, <1>7, <1>9 DEF TaskFetches
      <3> QED
        BY <3>1, <3>2, <3>3
    <2> QED
      BY <2>1, <2>2
  <1>11. q.item \in RowsOf(shown["subtasks"]) /\ q.item \in RowsOf(stored["subtasks"])
    BY <1>1, <1>3 DEF TaskWaits, TaskInv, TaskKnows, q
  <1>12. \A j : j \in done' <=> IF j = q.item THEN j \notin done ELSE j \in done
    BY <1>3 DEF OneTask!Flip
  <1>13. TaskKnows'
    <2>1. done' \subseteq RowsOf(stored["subtasks"])
      BY <1>11, <1>12 DEF TaskInv, TaskKnows
    <2>2. \A s \in Request : Unheard(s, "subtasks") => requests[s].item # q.item
      BY <1>11 DEF TaskInv, TaskKnows
    <2> QED
      BY <1>3, <1>7, <1>8, <1>9, <1>12, <2>1, <2>2 DEF TaskInv, TaskKnows
  <1>14. ASSUME NEW l \in OneTask!List, ListsAgree(l)
         PROVE  ListsAgree(l)'
    BY <1>3, <1>7, <1>8, <1>14 DEF ListsAgree
  <1>15. ASSUME TicksAgree PROVE TicksAgree'
    <2>1. \A s \in Request \ {r} : requests[s].kind # "toggle"
      BY <1>1, <1>3 DEF TaskWaits, q
    <2>2. /\ \A j : TicksSent(j) <=> j = q.item
          /\ \A j : ~TicksSent(j)'
      BY <1>3, <1>4, <1>5, <2>1 DEF TicksSent, q
    <2> QED
      BY <1>3, <1>12, <1>15, <2>2 DEF TicksAgree
  <1>16. open
    BY <1>3, TaskIdle DEF TaskInv, q
  <1> QED
    BY <1>3, <1>6, <1>7, <1>8, <1>9, <1>10, <1>13, <1>14, <1>15, <1>16 DEF TaskInv

LEMMA OthersKeepTask ==
  ASSUME TaskInv, OneTask!Others
  PROVE  TaskInv'
  <1>1. /\ changed' = TRUE
        /\ UNCHANGED <<running, open, shown, ticked, loading, error, loaded, adding,
                       toggling, deleting, requests, doneAtRead, differs, astray>>
    BY DEF OneTask!Others, OneTask!view
  <1>2. /\ stored' \in [OneTask!List -> Seq(ListItem)]
        /\ RowsOf(stored["subtasks"]) \subseteq RowsOf(stored'["subtasks"])
        /\ done' \subseteq RowsOf(stored'["subtasks"])
    <2>0. stored \in [OneTask!List -> Seq(ListItem)] /\ done \subseteq RowsOf(stored["subtasks"])
      BY DEF TaskInv, TaskTyped, TaskKnows
    <2>1. ASSUME NEW l \in OneTask!List, NEW i \in ListItem, stored' = [stored EXCEPT ![l] = OneTask!With(l, @, i)], done' = done
          PROVE  /\ stored' \in [OneTask!List -> Seq(ListItem)]
                 /\ RowsOf(stored["subtasks"]) \subseteq RowsOf(stored'["subtasks"])
      <3>1. OneTask!With(l, stored[l], i) \in Seq(ListItem) /\ RowsOf(OneTask!With(l, stored[l], i)) = RowsOf(stored[l]) \cup {i}
        BY <2>0, WithRow
      <3> QED
        BY <2>0, <2>1, <3>1, TaskLists
    <2>2. ASSUME NEW k \in DOMAIN stored["subtasks"], done' = OneTask!Flip(done, stored["subtasks"][k]), stored' = stored
          PROVE  done' \subseteq RowsOf(stored["subtasks"])
      BY <2>0, <2>2 DEF OneTask!Flip, RowsOf
    <2> QED
      BY <2>0, <2>1, <2>2 DEF OneTask!Others
  <1>3. TaskTyped'
    BY <1>1, <1>2 DEF TaskInv, TaskTyped
  <1>4. \A s \in Request : \A l : Unheard(s, l)' <=> Unheard(s, l)
    BY <1>1 DEF Unheard
  <1>5. ASSUME NEW s \in Request
        PROVE  (TaskShape(requests[s]) /\ TaskWaits(s) /\ TaskFetches(s))'
    <2>1. TaskShape(requests[s]) /\ TaskWaits(s) /\ TaskFetches(s)
      BY DEF TaskInv
    <2>2. TaskWaits(s)'
      BY <1>1, <2>1 DEF TaskWaits
    <2>3. TaskFetches(s)'
      BY <1>1, <2>1 DEF TaskFetches
    <2> QED
      BY <1>1, <2>1, <2>2, <2>3
  <1>6. TaskKnows'
    BY <1>1, <1>2, <1>4 DEF TaskInv, TaskKnows
  <1> QED
    BY <1>1, <1>3, <1>4, <1>5, <1>6 DEF TaskInv

\* The rows of an added one arrive.
LEMMA LandAddKeepsTask ==
  ASSUME TaskInv, NEW r \in Request, OneTask!LandAdd(r)
  PROVE  TaskInv'
  <1> DEFINE q == requests[r]
             list == q.list
             i == q.item
  <1>1. q \in TaskRequests /\ TaskShape(q) /\ TaskWaits(r) /\ TaskFetches(r)
    BY DEF TaskInv, TaskTyped
  <1>2. /\ q.kind = "add" /\ q.pc = "served" /\ q.ok
        /\ shown' = [shown EXCEPT ![list] = OneTask!With(list, shown[list], i)]
        /\ adding' = adding \ {list}
        /\ requests' = [requests EXCEPT ![r] = OneTask!Idle]
        /\ UNCHANGED <<stored, done, deleted, running, open, ticked, loading, error, loaded,
                       toggling, deleting, doneAtRead, changed, differs, astray>>
    BY DEF OneTask!LandAdd, OneTask!Free, OneTask!server, OneTask!history, TaskInv, TaskTyped
  <1>3. /\ requests' \in [Request -> TaskRequests] /\ requests'[r] = OneTask!Idle
        /\ \A s \in Request \ {r} : requests'[s] = requests[s]
    BY <1>2, TaskSlot, TaskIdle DEF TaskInv
  <1>4. list \in OneTask!List /\ i \in ListItem
    BY <1>1, <1>2 DEF TaskRequests, TaskShape
  <1>5. /\ shown' \in [OneTask!List -> Seq(ListItem)]
        /\ \A l \in OneTask!List : shown'[l] = IF l = list THEN OneTask!With(l, shown[l], i) ELSE shown[l]
        /\ \A l \in OneTask!List : RowsOf(shown'[l]) = IF l = list THEN RowsOf(shown[l]) \cup {i} ELSE RowsOf(shown[l])
    <2>1. shown \in [OneTask!List -> Seq(ListItem)]
      BY DEF TaskInv, TaskTyped
    <2> HIDE DEF i, list
    <2>2. \A l \in OneTask!List : /\ OneTask!With(l, shown[l], i) \in Seq(ListItem)
                                  /\ RowsOf(OneTask!With(l, shown[l], i)) = RowsOf(shown[l]) \cup {i}
      BY <1>4, <2>1, WithRow
    <2> QED
      BY <1>2, <1>4, <2>1, <2>2
  <1>6. Unheard(r, list)
    BY <1>2 DEF Unheard
  <1> HIDE DEF q, i, list
  <1>7. TaskTyped'
    BY <1>2, <1>3, <1>5 DEF TaskInv, TaskTyped
  <1>8. \A s \in Request : \A l : /\ Unheard(s, l)' => Unheard(s, l) /\ s # r /\ requests'[s] = requests[s]
                                  /\ Unheard(s, l) /\ s # r => Unheard(s, l)'
    BY <1>3, TaskIdle DEF Unheard
  <1>9. loaded /\ ~loading /\ open /\ \A s \in Request : requests[s].kind # "load"
    BY <1>1, <1>2, TaskIdle DEF TaskInv, TaskWaits, q
  <1>10. \A s \in Request \ {r} : requests[s].kind = "add" /\ list # "times" => requests[s].list # list
    BY <1>1, <1>2 DEF TaskWaits, q, list
  <1>11. RowsOf(shown["subtasks"]) \subseteq RowsOf(shown'["subtasks"])
    BY <1>5, TaskLists
  <1>12. ASSUME NEW s \in Request
         PROVE  (TaskShape(requests[s]) /\ TaskWaits(s) /\ TaskFetches(s))'
    <2>1. CASE s = r
      BY <1>3, <2>1, TaskIdle DEF TaskShape, TaskFetches, TaskWaits
    <2>2. CASE s # r
      <3>1. requests'[s] = requests[s] /\ TaskShape(requests[s]) /\ TaskWaits(s) /\ TaskFetches(s)
        BY <1>3, <2>2 DEF TaskInv
      <3>2. requests[s].kind = "add" /\ requests[s].list # "times" => requests[s].list \in adding'
        BY <1>2, <1>10, <2>2, <3>1 DEF TaskWaits
      <3>3. TaskWaits(s)'
        BY <3>1, <3>2, <1>2, <1>3, <1>9, <1>11, TaskIdle DEF TaskWaits
      <3>4. TaskFetches(s)'
        BY <3>1, <1>2, <1>3, <1>9, TaskIdle DEF TaskFetches
      <3> QED
        BY <3>1, <3>3, <3>4
    <2> QED
      BY <2>1, <2>2
  <1>13. TaskKnows'
    <2>1. list = "subtasks" => \A s \in Request : ~Unheard(s, "subtasks")'
      BY <1>8, <1>10 DEF Unheard
    <2>2. list # "subtasks" => shown'["subtasks"] = shown["subtasks"]
      BY <1>5, TaskLists
    <2>3. RowsOf(shown'["subtasks"]) \subseteq RowsOf(stored["subtasks"])
      <3>1. list # "subtasks" => RowsOf(shown'["subtasks"]) \subseteq RowsOf(stored["subtasks"])
        BY <2>2 DEF TaskInv, TaskKnows
      <3>2. list = "subtasks" => i \in RowsOf(stored["subtasks"])
        BY <1>6 DEF TaskInv, TaskKnows, i, q
      <3> QED
        BY <1>5, <3>1, <3>2, TaskLists DEF TaskInv, TaskKnows
    <2> QED
      BY <1>2, <1>3, <1>8, <1>9, <1>11, <2>1, <2>2, <2>3, TaskIdle DEF TaskInv, TaskKnows
  <1>14. ASSUME NEW l \in OneTask!List, ListsAgree(l)
         PROVE  ListsAgree(l)'
    <2>1. CASE l = list
      <3>1. stored[l] = OneTask!With(l, shown[l], i) /\ \A s \in Request : Unheard(s, l) => s = r
        BY <1>6, <1>14, <2>1 DEF ListsAgree, i, q
      <3>2. \A s \in Request : ~Unheard(s, l)'
        BY <1>8, <3>1
      <3> QED
        BY <1>2, <1>5, <2>1, <3>1, <3>2 DEF ListsAgree
    <2>2. CASE l # list
      <3>1. ~Unheard(r, l) /\ ~Unheard(r, l)'
        BY <1>8, <2>2 DEF Unheard, list, q
      <3> QED
        BY <1>2, <1>3, <1>5, <1>14, <2>2, <3>1, ListsStay
    <2> QED
      BY <2>1, <2>2
  <1>15. ASSUME TicksAgree, ~changed PROVE TicksAgree'
    <2>1. \A j : TicksSent(j)' <=> TicksSent(j)
      BY <1>2, <1>3, TaskIdle DEF TicksSent, q
    <2>2. ASSUME NEW j \in RowsOf(shown'["subtasks"])
          PROVE  j \in ticked <=> (TicksSent(j) <=> (j \in done <=> j \in doneAtRead))
      <3>1. CASE j \in RowsOf(shown["subtasks"])
        BY <3>1, <1>15 DEF TicksAgree
      <3>2. CASE j \notin RowsOf(shown["subtasks"])
        <4>1. list = "subtasks" /\ j = i
          BY <1>5, <2>2, <3>2, TaskLists
        <4>2. j \notin done /\ j \notin doneAtRead /\ j \notin ticked
          BY <1>6, <1>15, <3>2, <4>1 DEF TaskInv, TaskKnows, i, q
        <4>3. ~TicksSent(j)
          BY <3>2 DEF TicksSent, TaskInv, TaskWaits
        <4> QED
          BY <4>2, <4>3
      <3> QED
        BY <3>1, <3>2
    <2> QED
      BY <1>2, <2>1, <2>2 DEF TicksAgree
  <1>16. (\A s \in Request : requests'[s].kind # "times") => \A s \in Request : requests[s].kind # "times"
    BY <1>2, <1>3 DEF q
  <1> QED
    BY <1>2, <1>7, <1>8, <1>9, <1>12, <1>13, <1>14, <1>15, <1>16 DEF TaskInv

LEMMA LandToggleKeepsTask ==
  ASSUME TaskInv, NEW r \in Request, OneTask!LandToggle(r)
  PROVE  TaskInv'
  <1> DEFINE q == requests[r]
  <1>1. /\ q.kind = "toggle" /\ q.pc = "served"
        /\ toggling' = None
        /\ requests' = [requests EXCEPT ![r] = OneTask!Idle]
        /\ UNCHANGED <<stored, done, deleted, running, open, shown, ticked, loading, error, loaded, adding,
                       deleting, doneAtRead, changed, differs, astray>>
    BY DEF OneTask!LandToggle, OneTask!Free, OneTask!server, OneTask!history
  <1>2. /\ requests' \in [Request -> TaskRequests] /\ requests'[r] = OneTask!Idle
        /\ \A s \in Request \ {r} : requests'[s] = requests[s]
    BY <1>1, TaskSlot, TaskIdle DEF TaskInv
  <1>3. TaskWaits(r)
    BY DEF TaskInv
  <1>4. \A s \in Request \ {r} : requests[s].kind # "toggle"
    BY <1>1, <1>3 DEF TaskWaits
  <1>5. TaskTyped'
    BY <1>1, <1>2 DEF TaskInv, TaskTyped
  <1>6. \A s \in Request : \A l : /\ Unheard(s, l)' <=> Unheard(s, l)
                                  /\ Unheard(s, l) => requests'[s] = requests[s]
    BY <1>1, <1>2, TaskIdle DEF Unheard
  <1>7. loaded /\ ~loading /\ open
    BY <1>1, <1>3, TaskIdle DEF TaskInv, TaskWaits
  <1>8. ASSUME NEW s \in Request
        PROVE  (TaskShape(requests[s]) /\ TaskWaits(s) /\ TaskFetches(s))'
    <2>1. CASE s = r
      BY <1>2, <2>1, TaskIdle DEF TaskShape, TaskFetches, TaskWaits
    <2>2. CASE s # r
      <3>1. requests'[s] = requests[s] /\ TaskShape(requests[s]) /\ TaskWaits(s) /\ TaskFetches(s)
        BY <1>2, <2>2 DEF TaskInv
      <3>2. TaskWaits(s)'
        BY <3>1, <1>1, <1>2, <1>4, <2>2, TaskIdle DEF TaskWaits
      <3>3. TaskFetches(s)'
        BY <3>1, <1>1, <1>2, TaskIdle DEF TaskFetches
      <3> QED
        BY <3>1, <3>2, <3>3
    <2> QED
      BY <2>1, <2>2
  <1>9. TaskKnows'
    BY <1>1, <1>2, <1>6, TaskIdle DEF TaskInv, TaskKnows
  <1>10. \A l : ListsAgree(l) => ListsAgree(l)'
    BY <1>1, <1>6 DEF ListsAgree
  <1>11. TicksAgree => TicksAgree'
    BY <1>1, <1>2, TaskIdle, TicksStay
  <1>12. (\A s \in Request : requests'[s].kind # "times") => \A s \in Request : requests[s].kind # "times"
    BY <1>1, <1>2
  <1> QED
    BY <1>1, <1>5, <1>6, <1>7, <1>8, <1>9, <1>10, <1>11, <1>12 DEF TaskInv

\* The page is left.
LEMMA LandDeleteKeepsTask ==
  ASSUME TaskInv, NEW r \in Request, OneTask!LandDelete(r)
  PROVE  TaskInv'
  <1>1. /\ requests[r].kind = "delete" /\ open' = FALSE
        /\ requests' = [s \in Request |-> OneTask!Idle]
        /\ UNCHANGED <<stored, done, deleted, running, shown, ticked, loading, error, loaded, adding,
                       toggling, deleting, doneAtRead, changed, differs, astray>>
    BY DEF OneTask!LandDelete, OneTask!server, OneTask!history
  <1>2. \A s \in Request : requests'[s] = OneTask!Idle
    BY <1>1
  <1>3. TaskTyped'
    BY <1>1, TaskIdle DEF TaskInv, TaskTyped
  <1>4. \A s \in Request : (TaskShape(requests[s]) /\ TaskWaits(s) /\ TaskFetches(s))'
    BY <1>2, TaskIdle DEF TaskShape, TaskWaits, TaskFetches
  <1>5. \A s \in Request : \A l : ~Unheard(s, l)'
    BY <1>2, TaskIdle DEF Unheard
  <1>6. TaskKnows'
    BY <1>1, <1>2, <1>5, TaskIdle DEF TaskInv, TaskKnows
  <1> QED
    BY <1>1, <1>2, <1>3, <1>4, <1>5, <1>6 DEF TaskInv

\* A request fails, or its answer is lost.
LEMMA FailKeepsTask ==
  ASSUME TaskInv, NEW r \in Request, OneTask!Fail(r)
  PROVE  TaskInv'
  <1> DEFINE q == requests[r]
  <1>1. /\ q.kind \in {"add", "toggle", "delete"}
        /\ requests' = [requests EXCEPT ![r] = OneTask!Idle]
        /\ adding' = IF q.kind = "add" THEN adding \ {q.list} ELSE adding
        /\ IF q.kind = "toggle"
           THEN toggling' = None /\ ticked' = OneTask!Flip(ticked, q.item)
           ELSE toggling' = toggling /\ ticked' = ticked
        /\ differs' = IF q.kind = "add" /\ q.pc = "served" /\ q.ok
                      THEN differs \cup {q.list} ELSE differs
        /\ astray' = (astray \/ (q.kind = "toggle" /\ q.pc = "served"))
        /\ UNCHANGED <<stored, done, deleted, running, open, shown, loading, loaded, doneAtRead, changed>>
    BY DEF OneTask!Fail, OneTask!Free, OneTask!server, OneTask!Reverted
  <1>2. /\ requests' \in [Request -> TaskRequests] /\ requests'[r] = OneTask!Idle
        /\ \A s \in Request \ {r} : requests'[s] = requests[s]
    BY <1>1, TaskSlot, TaskIdle DEF TaskInv
  <1>3. q \in TaskRequests /\ TaskWaits(r) /\ TaskShape(q) /\ q.list \in OneTask!List
    BY DEF TaskInv, TaskTyped, TaskRequests
  <1>4. \A s \in Request \ {r} : requests[s].kind = q.kind =>
           q.kind # "toggle" /\ (q.kind = "add" /\ q.list # "times" => requests[s].list # q.list)
    BY <1>3 DEF TaskWaits
  <1> HIDE DEF q
  <1>5. TaskTyped' /\ differs \subseteq differs'
    BY <1>1, <1>2, <1>3 DEF TaskInv, TaskTyped
  <1>6. \A s \in Request : \A l : /\ Unheard(s, l)' => Unheard(s, l) /\ requests'[s] = requests[s]
                                  /\ Unheard(s, l) /\ s # r => Unheard(s, l)'
    BY <1>2, TaskIdle DEF Unheard
  <1>7. loaded /\ ~loading /\ open
    BY <1>1, <1>3, TaskIdle DEF TaskInv, TaskWaits, q
  <1>8. ASSUME NEW s \in Request
        PROVE  (TaskShape(requests[s]) /\ TaskWaits(s) /\ TaskFetches(s))'
    <2>1. CASE s = r
      BY <1>2, <2>1, TaskIdle DEF TaskShape, TaskFetches, TaskWaits
    <2>2. CASE s # r
      <3>1. requests'[s] = requests[s] /\ TaskShape(requests[s]) /\ TaskWaits(s) /\ TaskFetches(s)
        BY <1>2, <2>2 DEF TaskInv
      <3>2. requests[s].kind = "add" /\ requests[s].list # "times" => requests[s].list \in adding'
        BY <1>1, <1>4, <2>2, <3>1 DEF TaskWaits
      <3>3. requests[s].kind = "toggle" => toggling' = toggling
        BY <1>1, <1>4, <2>2
      <3>4. TaskWaits(s)'
        BY <3>1, <3>2, <3>3, <1>1, <1>2, <2>2, TaskIdle DEF TaskWaits
      <3>5. requests[s].kind # "load"
        BY <1>7, <3>1 DEF TaskWaits
      <3>6. TaskFetches(s)'
        BY <3>1, <3>5, <1>1, <1>2, <1>5, TaskIdle DEF TaskFetches
      <3> QED
        BY <3>1, <3>4, <3>6
    <2> QED
      BY <2>1, <2>2
  <1>9. q.kind = "toggle" => q.item \in RowsOf(shown["subtasks"])
    BY <1>3 DEF TaskWaits, q
  <1>10. TaskKnows'
    <2>1. ticked' \subseteq RowsOf(shown["subtasks"])
      BY <1>1, <1>9 DEF TaskInv, TaskKnows, OneTask!Flip
    <2> QED
      BY <1>1, <1>2, <1>6, <2>1, TaskIdle DEF TaskInv, TaskKnows
  <1>11. ASSUME NEW l \in OneTask!List \ differs', ListsAgree(l)
         PROVE  ListsAgree(l)'
    <2>1. ~Unheard(r, l) /\ ~Unheard(r, l)'
      BY <1>1, <1>2, <1>11, TaskIdle DEF Unheard, q
    <2> QED
      BY <1>1, <1>2, <1>11, <2>1, ListsStay
  <1>12. ASSUME TicksAgree, ~astray' PROVE TicksAgree'
    <2>1. CASE q.kind # "toggle"
      BY <1>1, <1>2, <1>12, <2>1, TaskIdle, TicksStay DEF q
    <2>2. CASE q.kind = "toggle"
      <3>1. q.pc = "sent"
        BY <1>1, <1>3, <1>12, <2>2 DEF TaskShape, TaskRequests
      <3>2. /\ \A j : TicksSent(j) <=> j = q.item
            /\ \A j : ~TicksSent(j)'
        BY <1>2, <1>4, <2>2, <3>1, TaskIdle DEF TicksSent, q
      <3>3. \A j : j \in ticked' <=> IF j = q.item THEN j \notin ticked ELSE j \in ticked
        BY <1>1, <2>2 DEF OneTask!Flip
      <3> QED
        BY <1>1, <1>12, <3>2, <3>3 DEF TicksAgree
    <2> QED
      BY <2>1, <2>2
  <1>13. (\A s \in Request : requests'[s].kind # "times") => \A s \in Request : requests[s].kind # "times"
    BY <1>1, <1>2 DEF q
  <1>14. \A l \in OneTask!List \ differs' : l \in OneTask!List \ differs
    BY <1>5
  <1> QED
    BY <1>1, <1>5, <1>6, <1>7, <1>8, <1>10, <1>11, <1>12, <1>13, <1>14 DEF TaskInv

LEMMA NextKeepsTask ==
  ASSUME TaskInv, OneTask!Next \/ UNCHANGED OneTask!vars
  PROVE  TaskInv'
  <1>1. CASE OneTask!Next
    BY <1>1, RetryKeepsTask, ReadKeepsTask, MissKeepsTask, MissTaskKeepsTask, LandTaskKeepsTask, LandTimesKeepsTask,
       AddKeepsTask, ToggleSubTaskKeepsTask, HandleDeleteKeepsTask, ServeAddKeepsTask, ServeToggleKeepsTask,
       ServeDeleteKeepsTask, OthersKeepTask, LandAddKeepsTask, LandToggleKeepsTask, LandDeleteKeepsTask, FailKeepsTask
    DEF OneTask!Next
  <1>2. CASE UNCHANGED OneTask!vars
    BY <1>2 DEF OneTask!vars, OneTask!server, OneTask!view, OneTask!history, TaskInv, TaskTyped, TaskWaits, TaskKnows,
                TaskFetches, ListsAgree, TicksAgree, TicksSent, Unheard
  <1> QED
    BY <1>1, <1>2

LEMMA InOneOfTwo ==
  ASSUME NEW i, NEW A, NEW B, NEW C, i \in A <=> ~(i \in B <=> i \in C)
  PROVE  (i \in A) = ((i \in B) # (i \in C))
  BY SMT

LEMMA TaskInvSettles == TaskInv => OneTask!TaskSettles
  <1> SUFFICES ASSUME TaskInv, OneTask!AtRest, ~changed
               PROVE  /\ \A l \in OneTask!List \ differs : shown[l] = stored[l]
                      /\ ~astray => \A k \in DOMAIN shown["subtasks"] :
                            LET i == shown["subtasks"][k]
                            IN (i \in ticked) = ((i \in done) # (i \in doneAtRead))
    BY DEF OneTask!TaskSettles, OneTask!ShowsTheTask, OneTask!TicksAreChanges
  <1>1. open /\ loaded /\ \A r \in Request : requests[r].kind = "none"
    BY DEF OneTask!AtRest, OneTask!Page, TaskInv, TaskShape
  <1>2. \A r \in Request : \A l : ~Unheard(r, l)
    BY <1>1 DEF Unheard
  <1>3. \A l \in OneTask!List \ differs : shown[l] = stored[l]
    BY <1>1, <1>2 DEF TaskInv, ListsAgree
  <1>4. ASSUME ~astray, NEW k \in DOMAIN shown["subtasks"]
        PROVE  LET i == shown["subtasks"][k]
               IN (i \in ticked) = ((i \in done) # (i \in doneAtRead))
    <2> DEFINE i == shown["subtasks"][k]
    <2>1. ~TicksSent(i)
      BY <1>1 DEF TicksSent
    <2>2. i \in ticked <=> (TicksSent(i) <=> (i \in done <=> i \in doneAtRead))
      BY <1>1, <1>4 DEF TaskInv, TicksAgree, RowsOf
    <2>3. i \in ticked <=> ~(i \in done <=> i \in doneAtRead)
      BY <2>1, <2>2
    <2> HIDE DEF i
    <2>4. (i \in ticked) = ((i \in done) # (i \in doneAtRead))
      BY <2>3, InOneOfTwo
    <2> QED
      BY <2>4 DEF i
  <1> QED
    BY <1>3, <1>4

\* task-detail.tsx: a page at rest shows the rows of each list that are stored, in
\* their order, unless others changed them, an answer was lost or a timer was
\* started before the time entries came; and a sub-task is ticked on it when its
\* completion is not the one that was read.
THEOREM TaskAlwaysSettles == Spec => []TaskSettles
  <1> DEFINE I == part = "task" => TaskInv
  <1>1. Init => I
    BY InitTask DEF Init
  <1>2. I /\ [Next]_vars => I'
    <2> SUFFICES ASSUME I, [Next]_vars, part' = "task" PROVE TaskInv'
      OBVIOUS
    <2>1. part = "task" /\ (OneTask!Next \/ UNCHANGED OneTask!vars)
      BY DEF Next, vars, common, taskOwn, OneTask!vars, OneTask!server, OneTask!view, OneTask!history
    <2> QED
      BY <2>1, NextKeepsTask
  <1>3. I => TaskSettles
    BY TaskInvSettles DEF TaskSettles
  <1> QED
    BY <1>1, <1>2, <1>3, PTL DEF Spec

------------------------------------------------------------------------------
(* The board                                                                  *)

BoardRequests == [kind : {"none", "load", "tasks", "create"}, pc : {"idle", "sent", "served"},
                  ids : Seq(BoardColumn), got : Seq(Seq(Task)), left : SUBSET Nat,
                  column : BoardColumn \cup {None}, task : Task \cup {None}]

BoardTyped ==
    /\ columns \in Seq(BoardColumn) /\ tasks \in [BoardColumn -> Seq(Task)]
    /\ shown \in Seq(Board!Shown) /\ adding \in BoardColumn \cup {None}
    /\ loading \in BOOLEAN /\ error \in BOOLEAN /\ creating \in BOOLEAN
    /\ requests \in [Request -> BoardRequests]
    /\ been \in [BoardColumn -> SUBSET Task]

\* What a request of each kind has still to find out.
BoardShape(q) ==
    /\ q.kind = "none" <=> q.pc = "idle"
    /\ q.kind = "tasks" => q.pc = "sent" /\ DOMAIN q.got = DOMAIN q.ids /\ q.left \subseteq DOMAIN q.ids
    /\ q.kind # "tasks" => q.left = {}
    /\ q.kind = "create" => /\ q.column \in BoardColumn
                            /\ q.pc = "served" => q.task \in been[q.column]

\* The page loads when nothing else goes on but the tasks of a fetch before, and
\* adds one task at a time to what it shows.
BoardWaits(r) ==
    LET q == requests[r]
    IN /\ q.kind = "load" => loading
       /\ q.kind = "create" => creating /\ ~loading /\ ~error
       /\ \A s \in Request \ {r} :
             /\ requests[s].kind = q.kind => q.kind \notin {"load", "create"}
             /\ ~overlapped => ~({q.kind, requests[s].kind} \subseteq {"load", "tasks"})
             /\ q.kind = "tasks" /\ requests[s].kind = "create" => crossed

Clean == ~changed /\ ~crossed /\ ~overlapped /\ ~missed

\* A fetch that overtook none is of the columns that are shown, and holds what is
\* stored of each it has asked for.
BoardFetches(q) ==
    /\ q.kind = "load" /\ q.pc = "served" /\ Clean => q.ids = columns
    /\ q.kind = "tasks" /\ ~overlapped =>
          /\ DOMAIN shown = DOMAIN q.ids
          /\ \A i \in DOMAIN q.ids : shown[i].id = q.ids[i] /\ RowsOf(q.got[i]) \subseteq been[q.ids[i]]
    /\ q.kind = "tasks" /\ Clean =>
          /\ q.ids = columns
          /\ \A i \in DOMAIN q.ids \ q.left : q.got[i] = Board!FirstPage(tasks[q.ids[i]])

\* A task that was added to a column is stored, and the page was not told yet.
AddedTo(r, c) == requests[r].kind = "create" /\ requests[r].pc = "served" /\ requests[r].column = c

\* A column on the page lacks the task it will be told of, or none.
ColumnAgrees(s, c) ==
    /\ s.id = c /\ ~s.loading
    /\ \A r \in Request : AddedTo(r, c) => tasks[c] = Append(s.tasks, requests[r].task)
    /\ (\A r \in Request : ~AddedTo(r, c)) => s.tasks = tasks[c]

BoardAgrees ==
    /\ DOMAIN shown = DOMAIN columns
    /\ \A i \in DOMAIN columns : ColumnAgrees(shown[i], columns[i])

Short == \A c \in BoardColumn : Len(tasks[c]) <= BoardLimit

Unfetched == \A r \in Request : requests[r].kind \notin {"load", "tasks"}

BoardInv ==
    /\ BoardTyped
    /\ \A r \in Request : BoardShape(requests[r]) /\ BoardWaits(r) /\ BoardFetches(requests[r])
    /\ \A c \in BoardColumn : RowsOf(tasks[c]) \subseteq been[c]
    /\ ~error /\ ~loading =>
          /\ ~overlapped => \A i \in DOMAIN shown : RowsOf(shown[i].tasks) \subseteq been[shown[i].id]
          /\ Clean /\ Unfetched /\ Short => BoardAgrees

LEMMA BoardMin ==
  ASSUME NEW a \in Nat, NEW b \in Nat
  PROVE  Board!Min({a, b}) = IF a <= b THEN a ELSE b
  <1> DEFINE m == IF a <= b THEN a ELSE b
  <1>1. m \in {a, b} /\ \A y \in {a, b} : m <= y
    OBVIOUS
  <1>2. ASSUME NEW x \in {a, b}, \A y \in {a, b} : x <= y
        PROVE  x = m
    BY <1>2
  <1> QED
    BY <1>1, <1>2 DEF Board!Min

LEMMA TheSmaller ==
  ASSUME NEW a \in Nat, NEW b \in Nat
  PROVE  LET m == IF a <= b THEN a ELSE b
         IN m \in Nat /\ m <= b /\ (b <= a => m = b) /\ \A i \in 1 .. m : i \in 1 .. b
  OBVIOUS

LEMMA BoardCardinality == ASSUME NEW S PROVE Board!Cardinality(S) = Cardinality(S)
  BY DEF Board!Cardinality, Cardinality

\* What an answer of the tasks holds of a column.
LEMMA BoardFirstPage ==
  ASSUME NEW list \in Seq(Task)
  PROVE  /\ Board!FirstPage(list) \in Seq(Task)
         /\ RowsOf(Board!FirstPage(list)) \subseteq RowsOf(list)
         /\ Len(list) <= BoardLimit => Board!FirstPage(list) = list
  <1>1. BoardLimit \in Nat /\ Len(list) \in Nat /\ DOMAIN list = 1 .. Len(list)
    BY ClientsAssumption
  <1>2. PICK m \in Nat : /\ m = (IF BoardLimit <= Len(list) THEN BoardLimit ELSE Len(list))
                         /\ m <= Len(list) /\ (Len(list) <= BoardLimit => m = Len(list))
                         /\ \A i \in 1 .. m : i \in 1 .. Len(list)
    BY <1>1, TheSmaller
  <1>3. m \in Int /\ m <= Len(list) /\ \A i \in 1 .. m : list[i] \in Task /\ i \in DOMAIN list
    <2>1. \A i \in 1 .. Len(list) : list[i] \in Task
      OBVIOUS
    <2>2. \A i \in 1 .. m : list[i] \in Task
      BY <1>2, <2>1
    <2>3. m <= Len(list)
      BY <1>2
    <2>4. \A i \in 1 .. m : i \in DOMAIN list
      BY <1>2
    <2> QED
      BY <2>2, <2>3, <2>4
  <1>4. Board!FirstPage(list) = SubSeq(list, 1, m)
    BY <1>1, <1>2, BoardMin DEF Board!FirstPage
  <1>5. /\ SubSeq(list, 1, m) \in Seq(Task) /\ Len(SubSeq(list, 1, m)) = m
        /\ \A i \in 1 .. m : SubSeq(list, 1, m)[i] = list[i]
    <2>1. /\ SubSeq(list, 1, m) \in Seq(Task)
          /\ Len(SubSeq(list, 1, m)) = IF 1 <= m THEN m - 1 + 1 ELSE 0
          /\ \A i \in 1 .. m - 1 + 1 : SubSeq(list, 1, m)[i] = list[1 + i - 1]
      BY <1>1, <1>3, SubSeqProperties
    <2>2. \A i \in 1 .. m : i \in 1 .. m - 1 + 1 /\ 1 + i - 1 = i
      BY <1>2
    <2> QED
      BY <1>2, <2>1, <2>2
  <1>6. RowsOf(SubSeq(list, 1, m)) \subseteq RowsOf(list)
    BY <1>3, <1>5 DEF RowsOf
  <1>7. Len(list) <= BoardLimit => SubSeq(list, 1, m) = list
    <2> SUFFICES ASSUME Len(list) <= BoardLimit PROVE SubSeq(list, 1, m) = list
      OBVIOUS
    <2>1. m = Len(list)
      BY <1>2
    <2> QED
      BY <1>5, <2>1, SeqEqual
  <1> QED
    BY <1>4, <1>5, <1>6, <1>7

\* A task put after the others.
LEMMA AddedRow ==
  ASSUME NEW list \in Seq(Task), NEW t \in Task
  PROVE  Append(list, t) \in Seq(Task) /\ RowsOf(Append(list, t)) = RowsOf(list) \cup {t}
         /\ Len(Append(list, t)) = Len(list) + 1
  <1>1. /\ Append(list, t) \in Seq(Task) /\ Len(Append(list, t)) = Len(list) + 1
        /\ \A k \in 1 .. Len(list) : Append(list, t)[k] = list[k]
        /\ Append(list, t)[Len(list) + 1] = t
    BY AppendProperties
  <1>2. RowsOf(Append(list, t)) = RowsOf(list) \cup {t}
    BY <1>1 DEF RowsOf
  <1> QED
    BY <1>1, <1>2

LEMMA WithoutOne ==
  ASSUME NEW S, NEW list \in Seq(S), NEW i \in DOMAIN list
  PROVE  Board!WithoutAt(list, i) \in Seq(S)
  <1>1. Len(list) \in Nat /\ i \in 1 .. Len(list)
    OBVIOUS
  <1>2. \A k \in 1 .. i - 1 : list[k] \in S
    BY <1>1
  <1>3. \A k \in i + 1 .. Len(list) : list[k] \in S
    BY <1>1
  <1>4. SubSeq(list, 1, i - 1) \in Seq(S) /\ SubSeq(list, i + 1, Len(list)) \in Seq(S)
    BY <1>1, <1>2, <1>3, SubSeqProperties
  <1> QED
    BY <1>4, ConcatProperties DEF Board!WithoutAt

\* An idle slot, and those that were sent.
LEMMA BoardIdle ==
  /\ Board!Idle \in BoardRequests
  /\ Board!Idle.kind = "none" /\ Board!Idle.pc = "idle" /\ Board!Idle.left = {}
  <1>1. <<>> \in Seq(BoardColumn) /\ <<>> \in Seq(Seq(Task))
    OBVIOUS
  <1> QED
    BY <1>1 DEF Board!Idle, BoardRequests

LEMMA BoardSends ==
  /\ LET q == [Board!Idle EXCEPT !.kind = "load", !.pc = "sent"]
     IN q \in BoardRequests /\ q.kind = "load" /\ q.pc = "sent" /\ q.left = {}
  /\ \A c \in BoardColumn :
        LET q == [Board!Idle EXCEPT !.kind = "create", !.pc = "sent", !.column = c]
        IN q \in BoardRequests /\ q.kind = "create" /\ q.pc = "sent" /\ q.column = c /\ q.left = {}
  BY BoardIdle DEF Board!Idle, BoardRequests

LEMMA BoardSlot ==
  ASSUME BoardTyped, NEW r \in Request, NEW q \in BoardRequests, requests' = [requests EXCEPT ![r] = q]
  PROVE  /\ requests' \in [Request -> BoardRequests] /\ requests'[r] = q
         /\ \A s \in Request \ {r} : requests'[s] = requests[s]
  BY DEF BoardTyped

LEMMA InitBoard == Board!Init => BoardInv
  <1> SUFFICES ASSUME Board!Init PROVE BoardInv
    OBVIOUS
  <1> DEFINE n == [Board!Idle EXCEPT !.kind = "load", !.pc = "sent"]
  <1>1. PICK r \in Request : requests = [s \in Request |-> IF s = r THEN n ELSE Board!Idle]
    BY DEF Board!Init
  <1>2. n \in BoardRequests /\ n.kind = "load" /\ n.pc = "sent" /\ n.left = {}
    BY BoardSends
  <1> HIDE DEF n
  <1>3. /\ requests \in [Request -> BoardRequests] /\ requests[r] = n
        /\ \A s \in Request \ {r} : requests[s] = Board!Idle
    BY <1>1, <1>2, BoardIdle
  <1>4. columns \in Seq(BoardColumn)
    <2>1. Cardinality(BoardColumn) \in Nat
      BY ClientsAssumption, FS_CardinalityType
    <2>2. columns \in [1 .. Cardinality(BoardColumn) -> BoardColumn]
      <3>1. columns \in Board!Injection(1 .. Board!Cardinality(BoardColumn), BoardColumn)
        BY DEF Board!Init
      <3> QED
        BY <3>1, BoardCardinality DEF Board!Injection
    <2> QED
      BY <2>1, <2>2
  <1>5. /\ tasks \in [BoardColumn -> Seq(Task)]
        /\ been \in [BoardColumn -> SUBSET Task]
        /\ \A c \in BoardColumn : RowsOf(tasks[c]) \subseteq been[c]
    <2>1. {<<>>} \cup {<<i>> : i \in Task} \subseteq Seq(Task)
      <3>1. ASSUME NEW i \in Task PROVE <<i>> \in Seq(Task)
        OBVIOUS
      <3>2. <<>> \in Seq(Task)
        OBVIOUS
      <3> QED
        BY <3>1, <3>2, Zenon
    <2>2. tasks \in [BoardColumn -> {<<>>} \cup {<<i>> : i \in Task}]
      BY DEF Board!Init
    <2>3. tasks \in [BoardColumn -> Seq(Task)]
      BY <2>1, <2>2
    <2>4. been = [c \in BoardColumn |-> RowsOf(tasks[c])]
      BY DEF Board!Init, Board!Range, RowsOf
    <2>5. \A c \in BoardColumn : RowsOf(tasks[c]) \subseteq Task
      BY <2>3 DEF RowsOf
    <2> QED
      BY <2>3, <2>4, <2>5
  <1>6. /\ shown = <<>> /\ loading /\ ~error /\ adding = None /\ ~creating
        /\ loading \in BOOLEAN /\ error \in BOOLEAN /\ creating \in BOOLEAN
    BY DEF Board!Init
  <1>7. BoardTyped
    BY <1>3, <1>4, <1>5, <1>6 DEF BoardTyped
  <1>8. ASSUME NEW s \in Request
        PROVE  BoardShape(requests[s]) /\ BoardWaits(s) /\ BoardFetches(requests[s])
    <2>1. CASE s = r
      BY <1>2, <1>3, <1>6, <2>1, BoardIdle DEF BoardShape, BoardWaits, BoardFetches
    <2>2. CASE s # r
      BY <1>2, <1>3, <1>6, <2>2, BoardIdle DEF BoardShape, BoardWaits, BoardFetches
    <2> QED
      BY <2>1, <2>2
  <1> QED
    BY <1>5, <1>6, <1>7, <1>8 DEF BoardInv

LEMMA RetryKeepsBoard ==
  ASSUME BoardInv, NEW r \in Request, Board!Retry(r)
  PROVE  BoardInv'
  <1> DEFINE n == [Board!Idle EXCEPT !.kind = "load", !.pc = "sent"]
  <1>1. /\ error /\ ~loading /\ requests[r].pc = "idle"
        /\ requests' = [requests EXCEPT ![r] = n]
        /\ loading' = TRUE /\ error' = FALSE /\ overlapped' = Board!Fetching
        /\ changed' = FALSE /\ crossed' = FALSE /\ missed' = FALSE
        /\ UNCHANGED <<been, columns, tasks, shown, adding, creating>>
    BY DEF Board!Retry, Board!Fetch, Board!server
  <1>2. n \in BoardRequests /\ n.kind = "load" /\ n.pc = "sent" /\ n.left = {}
    BY BoardSends
  <1> HIDE DEF n
  <1>3. /\ requests' \in [Request -> BoardRequests] /\ requests'[r] = n
        /\ \A s \in Request \ {r} : requests'[s] = requests[s]
    BY <1>1, <1>2, BoardSlot DEF BoardInv
  <1>4. /\ \A s \in Request : requests[s].kind \in {"none", "tasks"}
        /\ \A s \in Request \ {r} : requests[s].kind = "tasks" => overlapped'
    <2>1. \A s \in Request : requests[s].kind \in {"none", "load", "tasks", "create"}
      BY DEF BoardInv, BoardTyped, BoardRequests
    <2>2. \A s \in Request : requests[s].kind \notin {"load", "create"}
      BY <1>1 DEF BoardInv, BoardWaits
    <2> QED
      BY <1>1, <2>1, <2>2 DEF Board!Fetching
  <1>5. BoardTyped'
    BY <1>1, <1>3 DEF BoardInv, BoardTyped
  <1>6. ASSUME NEW s \in Request
        PROVE  (BoardShape(requests[s]) /\ BoardWaits(s) /\ BoardFetches(requests[s]))'
    <2>1. CASE s = r
      <3>1. BoardShape(requests[s])'
        BY <1>2, <1>3, <2>1 DEF BoardShape
      <3>2. BoardWaits(s)'
        BY <1>1, <1>2, <1>3, <1>4, <2>1 DEF BoardWaits
      <3>3. BoardFetches(requests[s])'
        BY <1>2, <1>3, <2>1 DEF BoardFetches
      <3> QED
        BY <3>1, <3>2, <3>3
    <2>2. CASE s # r
      <3>1. requests'[s] = requests[s] /\ BoardShape(requests[s])
        BY <1>3, <2>2 DEF BoardInv
      <3>2. BoardShape(requests[s])'
        BY <1>1, <1>4, <3>1 DEF BoardShape
      <3>3. BoardWaits(s)'
        BY <1>1, <1>2, <1>3, <1>4, <2>2, <3>1 DEF BoardWaits
      <3>4. BoardFetches(requests[s])'
        BY <1>4, <2>2, <3>1 DEF BoardFetches, Clean
      <3> QED
        BY <3>2, <3>3, <3>4
    <2> QED
      BY <2>1, <2>2
  <1> QED
    BY <1>1, <1>5, <1>6 DEF BoardInv

LEMMA ServeColumnsKeepsBoard ==
  ASSUME BoardInv, NEW r \in Request, Board!ServeColumns(r)
  PROVE  BoardInv'
  <1> DEFINE q == requests[r]
  <1>1. /\ q.kind = "load" /\ q.pc = "sent"
        /\ requests' = [requests EXCEPT ![r] = [q EXCEPT !.pc = "served", !.ids = columns]]
        /\ UNCHANGED <<columns, tasks, shown, loading, error, adding, creating, changed, crossed, overlapped, missed, been>>
    BY DEF Board!ServeColumns, Board!server, Board!view, Board!history, BoardInv, BoardTyped
  <1>2. PICK n : n = [q EXCEPT !.pc = "served", !.ids = columns]
    OBVIOUS
  <1>3. q \in BoardRequests /\ BoardShape(q) /\ columns \in Seq(BoardColumn)
    BY DEF BoardInv, BoardTyped
  <1>4. n \in BoardRequests /\ n.kind = "load" /\ n.pc = "served" /\ n.ids = columns /\ n.left = q.left
    BY <1>1, <1>2, <1>3 DEF BoardRequests
  <1>5. /\ requests' \in [Request -> BoardRequests] /\ requests'[r] = n
        /\ \A s \in Request \ {r} : requests'[s] = requests[s]
    BY <1>1, <1>2, <1>4, BoardSlot DEF BoardInv
  <1> HIDE DEF q
  <1>6. BoardTyped'
    BY <1>1, <1>5 DEF BoardInv, BoardTyped
  <1>7. \A s \in Request : requests'[s].kind = requests[s].kind
    BY <1>1, <1>4, <1>5 DEF q
  <1>8. ASSUME NEW s \in Request
        PROVE  (BoardShape(requests[s]) /\ BoardWaits(s) /\ BoardFetches(requests[s]))'
    <2>1. BoardWaits(s)'
      BY <1>1, <1>7 DEF BoardWaits, BoardInv
    <2>2. CASE s = r
      <3>1. BoardShape(n)' /\ BoardFetches(n)'
        BY <1>1, <1>3, <1>4 DEF BoardShape, BoardFetches
      <3> QED
        BY <1>5, <2>1, <2>2, <3>1
    <2>3. CASE s # r
      <3>1. requests'[s] = requests[s] /\ BoardShape(requests[s]) /\ BoardFetches(requests[s])
        BY <1>5, <2>3 DEF BoardInv
      <3>2. BoardShape(requests[s])' /\ BoardFetches(requests[s])'
        BY <1>1, <3>1 DEF BoardShape, BoardFetches, Clean
      <3> QED
        BY <2>1, <3>2
    <2> QED
      BY <2>2, <2>3
  <1>9. ~Unfetched' /\ loading'
    BY <1>1, <1>4, <1>5 DEF Unfetched, BoardInv, BoardWaits, q
  <1> QED
    BY <1>1, <1>6, <1>8, <1>9 DEF BoardInv

\* The columns arrive, and their tasks are asked for.
LEMMA LandColumnsKeepsBoard ==
  ASSUME BoardInv, NEW r \in Request, Board!LandColumns(r)
  PROVE  BoardInv'
  <1> DEFINE q == requests[r]
             ids == q.ids
             none == [i \in DOMAIN ids |-> <<>>]
             n == [Board!Idle EXCEPT !.kind = "tasks", !.pc = "sent", !.ids = ids, !.got = none, !.left = DOMAIN ids]
             empty == [i \in DOMAIN ids |-> [id |-> ids[i], tasks |-> <<>>, loading |-> TRUE]]
  <1>1. /\ q.kind = "load" /\ q.pc = "served" /\ shown' = empty /\ loading' = FALSE
        /\ requests' = [requests EXCEPT ![r] = n]
        /\ UNCHANGED <<columns, tasks, error, adding, creating, changed, crossed, overlapped, missed, been>>
    BY DEF Board!LandColumns, Board!server, Board!history
  <1>2. /\ q \in BoardRequests /\ BoardWaits(r) /\ BoardFetches(q)
        /\ ids \in Seq(BoardColumn) /\ Len(ids) \in Nat /\ DOMAIN ids = 1 .. Len(ids)
    BY DEF BoardInv, BoardTyped, BoardRequests
  <1>3. /\ none \in Seq(Seq(Task)) /\ DOMAIN none = DOMAIN ids
        /\ \A i \in DOMAIN ids : none[i] = <<>> /\ RowsOf(none[i]) = {}
    <2>1. <<>> \in Seq(Task)
      OBVIOUS
    <2>2. none \in [1 .. Len(ids) -> Seq(Task)]
      BY <1>2, <2>1
    <2> QED
      BY <1>2, <2>2, MapIsSeq DEF RowsOf
  <1>4. /\ empty \in Seq(Board!Shown) /\ DOMAIN empty = DOMAIN ids
        /\ \A i \in DOMAIN ids : empty[i].id = ids[i] /\ RowsOf(empty[i].tasks) = {}
    <2>1. \A i \in 1 .. Len(ids) : [id |-> ids[i], tasks |-> <<>>, loading |-> TRUE] \in Board!Shown
      BY <1>2 DEF Board!Shown
    <2>2. empty \in [1 .. Len(ids) -> Board!Shown]
      BY <1>2, <2>1
    <2>3. empty \in Seq(Board!Shown)
      BY <1>2, <2>2, MapIsSeq
    <2> QED
      BY <1>2, <2>3 DEF RowsOf
  <1> HIDE DEF none, empty
  <1>5. /\ n \in BoardRequests /\ n.kind = "tasks" /\ n.pc = "sent" /\ n.ids = ids /\ n.got = none
        /\ n.left = DOMAIN ids
    <2>1. DOMAIN ids \in SUBSET Nat
      BY <1>2
    <2> QED
      BY <1>2, <1>3, <2>1, BoardIdle DEF BoardRequests, Board!Idle
  <1> HIDE DEF n
  <1>6. /\ requests' \in [Request -> BoardRequests] /\ requests'[r] = n
        /\ \A s \in Request \ {r} : requests'[s] = requests[s]
    BY <1>1, <1>5, BoardSlot DEF BoardInv
  <1> HIDE DEF ids
  <1>7. /\ \A s \in Request \ {r} : requests[s].kind \in {"none", "tasks"}
        /\ \A s \in Request \ {r} : requests[s].kind = "tasks" => overlapped
    <2>1. \A s \in Request : requests[s].kind \in {"none", "load", "tasks", "create"}
      BY DEF BoardInv, BoardTyped, BoardRequests
    <2>2. \A s \in Request \ {r} : requests[s].kind \notin {"load", "create"}
      BY <1>1, <1>2 DEF BoardInv, BoardWaits
    <2>3. \A s \in Request \ {r} : requests[s].kind = "tasks" => overlapped
      BY <1>1, <1>2 DEF BoardWaits
    <2> QED
      BY <2>1, <2>2, <2>3
  <1>8. BoardTyped'
    BY <1>1, <1>4, <1>6 DEF BoardInv, BoardTyped
  <1>9. ASSUME NEW s \in Request
        PROVE  (BoardShape(requests[s]) /\ BoardWaits(s) /\ BoardFetches(requests[s]))'
    <2>1. CASE s = r
      <3>1. BoardShape(requests[s])'
        BY <1>3, <1>5, <1>6, <2>1 DEF BoardShape
      <3>2. BoardWaits(s)'
        BY <1>1, <1>5, <1>6, <1>7, <2>1 DEF BoardWaits
      <3>3. Clean' => ids = columns
        BY <1>1, <1>2 DEF BoardFetches, Clean, ids
      <3>4. BoardFetches(requests[s])'
        BY <1>1, <1>3, <1>4, <1>5, <1>6, <2>1, <3>3 DEF BoardFetches
      <3> QED
        BY <3>1, <3>2, <3>4
    <2>2. CASE s # r
      <3>1. requests'[s] = requests[s] /\ BoardShape(requests[s])
        BY <1>6, <2>2 DEF BoardInv
      <3>2. BoardShape(requests[s])'
        BY <1>1, <3>1 DEF BoardShape
      <3>3. BoardWaits(s)'
        BY <1>1, <1>5, <1>6, <1>7, <2>2, <3>1 DEF BoardWaits
      <3>4. BoardFetches(requests[s])'
        BY <1>1, <1>7, <2>2, <3>1 DEF BoardFetches, Clean
      <3> QED
        BY <3>2, <3>3, <3>4
    <2> QED
      BY <2>1, <2>2
  <1>10. ~Unfetched'
    BY <1>5, <1>6 DEF Unfetched
  <1>11. \A i \in DOMAIN shown' : RowsOf(shown'[i].tasks) = {}
    BY <1>1, <1>4
  <1> QED
    BY <1>1, <1>8, <1>9, <1>10, <1>11 DEF BoardInv

LEMMA ServeTasksKeepsBoard ==
  ASSUME BoardInv, NEW r \in Request, NEW i \in requests[r].left, Board!ServeTasks(r, i)
  PROVE  BoardInv'
  <1> DEFINE q == requests[r]
             g == [q.got EXCEPT ![i] = Board!FirstPage(tasks[q.ids[i]])]
  <1>1. /\ requests' = [requests EXCEPT ![r] = [q EXCEPT !.left = q.left \ {i}, !.got = g]]
        /\ UNCHANGED <<columns, tasks, shown, loading, error, adding, creating, changed, crossed, overlapped, missed, been>>
    BY DEF Board!ServeTasks, Board!server, Board!view, Board!history, BoardInv, BoardTyped
  <1>2. PICK n : n = [q EXCEPT !.left = q.left \ {i}, !.got = g]
    OBVIOUS
  <1>3. q \in BoardRequests /\ BoardShape(q) /\ BoardFetches(q)
    BY DEF BoardInv, BoardTyped
  <1>4. /\ q.kind = "tasks" /\ q.pc = "sent" /\ i \in DOMAIN q.ids /\ DOMAIN q.got = DOMAIN q.ids
        /\ q.left \subseteq DOMAIN q.ids
    BY <1>3 DEF BoardShape
  <1>5. /\ q.ids[i] \in BoardColumn /\ tasks[q.ids[i]] \in Seq(Task)
        /\ RowsOf(tasks[q.ids[i]]) \subseteq been[q.ids[i]]
    <2>1. q.ids \in Seq(BoardColumn)
      BY <1>3 DEF BoardRequests
    <2>2. q.ids[i] \in BoardColumn
      BY <1>4, <2>1
    <2> QED
      BY <2>2 DEF BoardInv, BoardTyped
  <1>6. PICK p : p = Board!FirstPage(tasks[q.ids[i]])
    OBVIOUS
  <1>7. p \in Seq(Task) /\ RowsOf(p) \subseteq been[q.ids[i]]
    BY <1>5, <1>6, BoardFirstPage
  <1>8. /\ g \in Seq(Seq(Task)) /\ DOMAIN g = DOMAIN q.got /\ g[i] = p
        /\ \A j \in DOMAIN q.got : j # i => g[j] = q.got[j]
    <2>1. q.got \in Seq(Seq(Task))
      BY <1>3 DEF BoardRequests
    <2>2. g = [q.got EXCEPT ![i] = p]
      BY <1>6
    <2> HIDE DEF g
    <2> QED
      BY <1>4, <1>7, <2>1, <2>2
  <1> HIDE DEF g
  <1>9. /\ n \in BoardRequests /\ n.kind = "tasks" /\ n.pc = "sent" /\ n.ids = q.ids /\ n.left = q.left \ {i}
        /\ n.got = g /\ n.column = q.column
    BY <1>2, <1>3, <1>4, <1>8 DEF BoardRequests
  <1>10. /\ requests' \in [Request -> BoardRequests] /\ requests'[r] = n
         /\ \A s \in Request \ {r} : requests'[s] = requests[s]
    BY <1>1, <1>2, <1>9, BoardSlot DEF BoardInv
  <1> HIDE DEF q
  <1>11. BoardTyped'
    BY <1>1, <1>10 DEF BoardInv, BoardTyped
  <1>12. \A s \in Request : requests'[s].kind = requests[s].kind
    BY <1>4, <1>9, <1>10 DEF q
  <1>13. ASSUME NEW s \in Request
         PROVE  (BoardShape(requests[s]) /\ BoardWaits(s) /\ BoardFetches(requests[s]))'
    <2>1. BoardWaits(s)'
      BY <1>1, <1>12 DEF BoardWaits, BoardInv
    <2>2. CASE s = r
      <3>1. BoardShape(n)'
        BY <1>4, <1>8, <1>9 DEF BoardShape
      <3>2. ~overlapped => /\ DOMAIN shown = DOMAIN n.ids
                           /\ \A j \in DOMAIN n.ids : shown[j].id = n.ids[j] /\ RowsOf(n.got[j]) \subseteq been[n.ids[j]]
        BY <1>3, <1>4, <1>7, <1>8, <1>9 DEF BoardFetches
      <3>3. Clean => /\ n.ids = columns
                     /\ \A j \in DOMAIN n.ids \ n.left : n.got[j] = Board!FirstPage(tasks[n.ids[j]])
        <4> SUFFICES ASSUME Clean PROVE n.ids = columns /\ \A j \in DOMAIN n.ids \ n.left : n.got[j] = Board!FirstPage(tasks[n.ids[j]])
          OBVIOUS
        <4>1. q.ids = columns /\ \A j \in DOMAIN q.ids \ q.left : q.got[j] = Board!FirstPage(tasks[q.ids[j]])
          BY <1>3, <1>4 DEF BoardFetches
        <4>2. ASSUME NEW j \in DOMAIN n.ids \ n.left PROVE n.got[j] = Board!FirstPage(tasks[n.ids[j]])
          <5>1. CASE j = i
            BY <1>6, <1>8, <1>9, <5>1
          <5>2. CASE j # i
            BY <1>4, <1>8, <1>9, <4>1, <5>2
          <5> QED
            BY <5>1, <5>2
        <4> QED
          BY <1>9, <4>1, <4>2
      <3>4. Clean' <=> Clean
        BY <1>1 DEF Clean
      <3>5. BoardFetches(requests[s])'
        <4>1. requests'[s] = n /\ n.kind = "tasks" /\ overlapped' = overlapped /\ shown' = shown /\ been' = been
              /\ columns' = columns /\ tasks' = tasks
          BY <1>1, <1>9, <1>10, <2>2
        <4>2. \A j : Board!FirstPage(tasks[n.ids[j]])' = Board!FirstPage(tasks[n.ids[j]])
          BY <4>1 DEF Board!FirstPage
        <4>3. \A j \in DOMAIN n.ids \ n.left : Clean => n.got[j] = Board!FirstPage(tasks'[n.ids[j]])
          BY <3>3, <4>1
        <4> QED
          BY <3>2, <3>3, <3>4, <4>1, <4>3 DEF BoardFetches
      <3> QED
        BY <1>10, <2>1, <2>2, <3>1, <3>5
    <2>3. CASE s # r
      <3>1. requests'[s] = requests[s] /\ BoardShape(requests[s]) /\ BoardFetches(requests[s])
        BY <1>10, <2>3 DEF BoardInv
      <3>2. BoardShape(requests[s])' /\ BoardFetches(requests[s])'
        BY <1>1, <3>1 DEF BoardShape, BoardFetches, Clean
      <3> QED
        BY <2>1, <3>2
    <2> QED
      BY <2>2, <2>3
  <1>14. ~Unfetched'
    BY <1>9, <1>10 DEF Unfetched
  <1> QED
    BY <1>1, <1>11, <1>13, <1>14 DEF BoardInv

LEMMA MissTasksKeepsBoard ==
  ASSUME BoardInv, NEW r \in Request, NEW i \in requests[r].left, Board!MissTasks(r, i)
  PROVE  BoardInv'
  <1> DEFINE q == requests[r]
  <1>1. /\ requests' = [requests EXCEPT ![r] = [q EXCEPT !.left = q.left \ {i}]] /\ missed' = TRUE
        /\ UNCHANGED <<columns, tasks, shown, loading, error, adding, creating, changed, crossed, overlapped, been>>
    BY DEF Board!MissTasks, Board!server, Board!view, BoardInv, BoardTyped
  <1>2. PICK n : n = [q EXCEPT !.left = q.left \ {i}]
    OBVIOUS
  <1>3. q \in BoardRequests /\ BoardShape(q) /\ BoardFetches(q)
    BY DEF BoardInv, BoardTyped
  <1>4. q.kind = "tasks" /\ q.pc = "sent"
    BY <1>3 DEF BoardShape
  <1>5. /\ n \in BoardRequests /\ n.kind = "tasks" /\ n.pc = "sent" /\ n.ids = q.ids /\ n.left = q.left \ {i}
        /\ n.got = q.got /\ n.column = q.column
    BY <1>2, <1>3, <1>4 DEF BoardRequests
  <1>6. /\ requests' \in [Request -> BoardRequests] /\ requests'[r] = n
        /\ \A s \in Request \ {r} : requests'[s] = requests[s]
    BY <1>1, <1>2, <1>5, BoardSlot DEF BoardInv
  <1> HIDE DEF q
  <1>7. BoardTyped'
    BY <1>1, <1>6 DEF BoardInv, BoardTyped
  <1>8. \A s \in Request : requests'[s].kind = requests[s].kind
    BY <1>4, <1>5, <1>6 DEF q
  <1>9. ASSUME NEW s \in Request
        PROVE  (BoardShape(requests[s]) /\ BoardWaits(s) /\ BoardFetches(requests[s]))'
    <2>1. BoardWaits(s)'
      BY <1>1, <1>8 DEF BoardWaits, BoardInv
    <2>2. CASE s = r
      <3>1. BoardShape(n)' /\ BoardFetches(n)'
        BY <1>1, <1>3, <1>4, <1>5 DEF BoardShape, BoardFetches, Clean
      <3> QED
        BY <1>6, <2>1, <2>2, <3>1
    <2>3. CASE s # r
      <3>1. requests'[s] = requests[s] /\ BoardShape(requests[s]) /\ BoardFetches(requests[s])
        BY <1>6, <2>3 DEF BoardInv
      <3>2. BoardShape(requests[s])' /\ BoardFetches(requests[s])'
        BY <1>1, <3>1 DEF BoardShape, BoardFetches, Clean
      <3> QED
        BY <2>1, <3>2
    <2> QED
      BY <2>2, <2>3
  <1>10. ~Unfetched'
    BY <1>5, <1>6 DEF Unfetched
  <1> QED
    BY <1>1, <1>7, <1>9, <1>10 DEF BoardInv

\* The tasks arrive and are shown by the place of their column.
LEMMA LandTasksKeepsBoard ==
  ASSUME BoardInv, NEW r \in Request, Board!LandTasks(r)
  PROVE  BoardInv'
  <1> DEFINE q == requests[r]
             f == Board!Filled(q.got)
  <1>1. /\ q.kind = "tasks" /\ q.left = {} /\ shown' = f
        /\ requests' = [requests EXCEPT ![r] = Board!Idle]
        /\ UNCHANGED <<columns, tasks, loading, error, adding, creating, changed, crossed, overlapped, missed, been>>
    BY DEF Board!LandTasks, Board!Free, Board!server, Board!history
  <1>2. /\ requests' \in [Request -> BoardRequests] /\ requests'[r] = Board!Idle
        /\ \A s \in Request \ {r} : requests'[s] = requests[s]
    BY <1>1, BoardIdle, BoardSlot DEF BoardInv
  <1>3. /\ q \in BoardRequests /\ BoardShape(q) /\ BoardWaits(r) /\ BoardFetches(q)
        /\ shown \in Seq(Board!Shown) /\ Len(shown) \in Nat /\ DOMAIN shown = 1 .. Len(shown)
        /\ q.got \in Seq(Seq(Task)) /\ q.ids \in Seq(BoardColumn) /\ DOMAIN q.got = DOMAIN q.ids
    BY <1>1 DEF BoardInv, BoardTyped, BoardRequests, BoardShape
  <1>4. /\ f \in Seq(Board!Shown) /\ DOMAIN f = DOMAIN shown
        /\ \A i \in DOMAIN shown : /\ f[i].id = shown[i].id /\ f[i].loading = FALSE
                                   /\ i \in DOMAIN q.got => f[i].tasks = q.got[i]
    <2> DEFINE one(i) == [shown[i] EXCEPT !.loading = FALSE, !.tasks = IF i \in DOMAIN q.got THEN q.got[i] ELSE <<>>]
    <2>1. f = [i \in DOMAIN shown |-> one(i)]
      BY DEF Board!Filled
    <2>2. ASSUME NEW i \in DOMAIN shown
          PROVE  /\ one(i) \in Board!Shown /\ one(i).id = shown[i].id /\ one(i).loading = FALSE
                 /\ i \in DOMAIN q.got => one(i).tasks = q.got[i]
      <3>1. shown[i] \in Board!Shown
        BY <1>3
      <3>2. (IF i \in DOMAIN q.got THEN q.got[i] ELSE <<>>) \in Seq(Task)
        BY <1>3
      <3> QED
        BY <3>1, <3>2 DEF Board!Shown
    <2> HIDE DEF one, f, q
    <2>3. f \in [1 .. Len(shown) -> Board!Shown] /\ \A i \in DOMAIN shown : f[i] = one(i)
      BY <1>3, <2>1, <2>2
    <2>4. f \in Seq(Board!Shown)
      BY <1>3, <2>3, MapIsSeq
    <2> QED
      BY <1>3, <2>2, <2>3, <2>4
  <1> HIDE DEF q, f
  <1>5. BoardTyped'
    BY <1>1, <1>2, <1>4 DEF BoardInv, BoardTyped
  <1>6. \A s \in Request \ {r} : requests[s].kind \in {"load", "tasks"} => overlapped
    BY <1>1, <1>3 DEF BoardWaits, q
  <1>7. ASSUME NEW s \in Request
        PROVE  (BoardShape(requests[s]) /\ BoardWaits(s) /\ BoardFetches(requests[s]))'
    <2>1. CASE s = r
      BY <1>1, <1>2, <2>1, BoardIdle DEF BoardShape, BoardWaits, BoardFetches
    <2>2. CASE s # r
      <3>1. requests'[s] = requests[s] /\ BoardShape(requests[s]) /\ BoardWaits(s) /\ BoardFetches(requests[s])
        BY <1>2, <2>2 DEF BoardInv
      <3>2. BoardShape(requests[s])'
        BY <1>1, <3>1 DEF BoardShape
      <3>3. BoardWaits(s)'
        BY <1>1, <1>2, <2>2, <3>1, BoardIdle DEF BoardWaits
      <3>4. BoardFetches(requests[s])'
        BY <1>1, <1>6, <2>2, <3>1 DEF BoardFetches, Clean
      <3> QED
        BY <3>2, <3>3, <3>4
    <2> QED
      BY <2>1, <2>2
  <1>8. ~overlapped => \A i \in DOMAIN shown' : RowsOf(shown'[i].tasks) \subseteq been[shown'[i].id]
    BY <1>1, <1>3, <1>4 DEF BoardFetches
  <1>9. ASSUME Clean', Short' PROVE BoardAgrees'
    <2>1. Clean /\ Short
      BY <1>1, <1>9 DEF Clean, Short
    <2>2. /\ q.ids = columns /\ DOMAIN shown = DOMAIN columns
          /\ \A i \in DOMAIN columns : shown[i].id = columns[i] /\ q.got[i] = Board!FirstPage(tasks[columns[i]])
      BY <1>1, <1>3, <2>1 DEF BoardFetches, Clean
    <2>3. \A i \in DOMAIN columns : q.got[i] = tasks[columns[i]]
      <3>1. \A c \in BoardColumn : Board!FirstPage(tasks[c]) = tasks[c]
        BY <2>1, BoardFirstPage DEF Short, BoardInv, BoardTyped
      <3>2. \A i \in DOMAIN columns : columns[i] \in BoardColumn
        BY DEF BoardInv, BoardTyped
      <3> QED
        BY <2>2, <3>1, <3>2
    <2>4. \A s \in Request : \A c : ~AddedTo(s, c)'
      <3>1. \A s \in Request \ {r} : requests[s].kind # "create"
        BY <1>1, <1>3, <2>1 DEF BoardWaits, Clean, q
      <3> QED
        BY <1>2, <3>1, BoardIdle DEF AddedTo
    <2>5. ASSUME NEW i \in DOMAIN columns PROVE ColumnAgrees(shown[i], columns[i])'
      <3>1. shown'[i].id = columns'[i] /\ ~shown'[i].loading /\ shown'[i].tasks = tasks'[columns'[i]]
        BY <1>1, <1>3, <1>4, <2>2, <2>3
      <3> QED
        BY <2>4, <3>1 DEF ColumnAgrees
    <2> QED
      BY <1>1, <1>4, <2>2, <2>5 DEF BoardAgrees
  <1> QED
    BY <1>1, <1>5, <1>7, <1>8, <1>9 DEF BoardInv

\* The invariant does not tell which column the form is open at.
LEMMA FormKeepsBoard ==
  ASSUME BoardInv, adding' \in BoardColumn \cup {None},
         UNCHANGED <<columns, tasks, shown, loading, error, creating, requests, changed, crossed, overlapped, missed, been>>
  PROVE  BoardInv'
  <1>1. BoardTyped'
    BY DEF BoardInv, BoardTyped
  <1>2. ASSUME NEW s \in Request
        PROVE  (BoardShape(requests[s]) /\ BoardWaits(s) /\ BoardFetches(requests[s]))'
    <2>1. BoardShape(requests[s]) /\ BoardWaits(s) /\ BoardFetches(requests[s])
      BY DEF BoardInv
    <2>2. BoardShape(requests[s])'
      BY <2>1 DEF BoardShape
    <2>3. BoardWaits(s)'
      BY <2>1 DEF BoardWaits
    <2>4. BoardFetches(requests[s])'
      BY <2>1 DEF BoardFetches, Clean
    <2> QED
      BY <2>2, <2>3, <2>4
  <1>3. Clean' /\ Unfetched' /\ Short' => Clean /\ Unfetched /\ Short
    BY DEF Clean, Unfetched, Short
  <1>4. BoardAgrees => BoardAgrees'
    <2>1. \A s, c : ColumnAgrees(s, c) => ColumnAgrees(s, c)'
      BY DEF ColumnAgrees, AddedTo
    <2> QED
      BY <2>1 DEF BoardAgrees
  <1> QED
    BY <1>1, <1>2, <1>3, <1>4 DEF BoardInv

LEMMA OpenFormKeepsBoard ==
  ASSUME BoardInv, NEW c \in BoardColumn \cup {None}, Board!OpenForm(c)
  PROVE  BoardInv'
  BY FormKeepsBoard DEF Board!OpenForm, Board!server, Board!history

LEMMA HandleAddTaskKeepsBoard ==
  ASSUME BoardInv, NEW r \in Request, Board!HandleAddTask(r)
  PROVE  BoardInv'
  <1>1. /\ ~loading /\ ~error /\ adding # None /\ ~creating /\ requests[r].pc = "idle"
        /\ requests' = [requests EXCEPT ![r] = [Board!Idle EXCEPT !.kind = "create", !.pc = "sent", !.column = adding]]
        /\ creating' = TRUE /\ crossed' = (crossed \/ Board!Fetching)
        /\ UNCHANGED <<columns, tasks, shown, loading, error, adding, changed, overlapped, missed, been>>
    BY DEF Board!HandleAddTask, Board!Addable, Board!Board, Board!server
  <1>2. PICK n : n = [Board!Idle EXCEPT !.kind = "create", !.pc = "sent", !.column = adding]
    OBVIOUS
  <1>3. adding \in BoardColumn
    BY <1>1 DEF BoardInv, BoardTyped
  <1>4. n \in BoardRequests /\ n.kind = "create" /\ n.pc = "sent" /\ n.column = adding /\ n.left = {}
    BY <1>2, <1>3, BoardSends
  <1>5. /\ requests' \in [Request -> BoardRequests] /\ requests'[r] = n
        /\ \A s \in Request \ {r} : requests'[s] = requests[s]
    BY <1>1, <1>2, <1>4, BoardSlot DEF BoardInv
  <1>6. BoardTyped'
    BY <1>1, <1>5 DEF BoardInv, BoardTyped
  <1>7. /\ \A s \in Request : requests[s].kind \in {"none", "tasks"}
        /\ \A s \in Request : requests[s].kind = "tasks" => crossed'
        /\ requests[r].kind = "none"
    <2>1. \A s \in Request : requests[s].kind \in {"none", "load", "tasks", "create"}
      BY DEF BoardInv, BoardTyped, BoardRequests
    <2>2. \A s \in Request : requests[s].kind \notin {"load", "create"}
      BY <1>1 DEF BoardInv, BoardWaits
    <2>3. requests[r].kind = "none"
      BY <1>1 DEF BoardInv, BoardShape
    <2> QED
      BY <1>1, <2>1, <2>2, <2>3 DEF Board!Fetching
  <1>8. ASSUME NEW s \in Request
        PROVE  (BoardShape(requests[s]) /\ BoardWaits(s) /\ BoardFetches(requests[s]))'
    <2>1. CASE s = r
      <3>1. BoardShape(n)' /\ BoardFetches(n)'
        BY <1>3, <1>4 DEF BoardShape, BoardFetches
      <3>2. BoardWaits(s)'
        BY <1>1, <1>4, <1>5, <1>7, <2>1 DEF BoardWaits
      <3> QED
        BY <1>5, <2>1, <3>1, <3>2
    <2>2. CASE s # r
      <3>1. requests'[s] = requests[s] /\ BoardShape(requests[s]) /\ BoardWaits(s) /\ BoardFetches(requests[s])
        BY <1>5, <2>2 DEF BoardInv
      <3>2. BoardShape(requests[s])'
        BY <1>1, <3>1 DEF BoardShape
      <3>3. BoardWaits(s)'
        BY <1>1, <1>4, <1>5, <1>7, <2>2, <3>1 DEF BoardWaits
      <3>4. BoardFetches(requests[s])'
        BY <1>1, <3>1 DEF BoardFetches, Clean
      <3> QED
        BY <3>2, <3>3, <3>4
    <2> QED
      BY <2>1, <2>2
  <1>9. Clean' /\ Unfetched' /\ Short' => Clean /\ Unfetched /\ Short
    BY <1>1, <1>5, <1>7 DEF Clean, Unfetched, Short
  <1>10. BoardAgrees => BoardAgrees'
    <2>1. \A s \in Request : \A c : AddedTo(s, c)' <=> AddedTo(s, c)
      BY <1>4, <1>5, <1>7 DEF AddedTo
    <2>2. \A s \in Request : \A c : AddedTo(s, c) => requests'[s] = requests[s]
      BY <1>5, <1>7 DEF AddedTo
    <2>3. \A s, c : ColumnAgrees(s, c) => ColumnAgrees(s, c)'
      BY <1>1, <2>1, <2>2 DEF ColumnAgrees
    <2> QED
      BY <1>1, <2>3 DEF BoardAgrees
  <1> QED
    BY <1>1, <1>6, <1>8, <1>9, <1>10 DEF BoardInv

\* A new task is stored after the others of its column.
LEMMA ServeCreateKeepsBoard ==
  ASSUME BoardInv, NEW r \in Request, NEW t \in Task, Board!ServeCreate(r, t)
  PROVE  BoardInv'
  <1> DEFINE q == requests[r]
             k == q.column
  <1>1. /\ q.kind = "create" /\ q.pc = "sent"
        /\ tasks' = [tasks EXCEPT ![k] = Append(tasks[k], t)]
        /\ requests' = [requests EXCEPT ![r] = [q EXCEPT !.pc = "served", !.task = t]]
        /\ been' = [been EXCEPT ![k] = been[k] \cup {t}]
        /\ UNCHANGED <<columns, shown, loading, error, adding, creating, changed, crossed, overlapped, missed>>
    BY DEF Board!ServeCreate, Board!view, BoardInv, BoardTyped
  <1>2. PICK n : n = [q EXCEPT !.pc = "served", !.task = t]
    OBVIOUS
  <1>3. q \in BoardRequests /\ BoardShape(q) /\ BoardWaits(r) /\ k \in BoardColumn
    BY <1>1 DEF BoardInv, BoardTyped, BoardShape
  <1>4. /\ n \in BoardRequests /\ n.kind = "create" /\ n.pc = "served" /\ n.column = k /\ n.task = t /\ n.left = q.left
    BY <1>1, <1>2, <1>3 DEF BoardRequests
  <1>5. /\ requests' \in [Request -> BoardRequests] /\ requests'[r] = n
        /\ \A s \in Request \ {r} : requests'[s] = requests[s]
    BY <1>1, <1>2, <1>4, BoardSlot DEF BoardInv
  <1> HIDE DEF q, k
  <1>6. /\ tasks' \in [BoardColumn -> Seq(Task)] /\ been' \in [BoardColumn -> SUBSET Task]
        /\ tasks'[k] = Append(tasks[k], t) /\ been'[k] = been[k] \cup {t}
        /\ \A c \in BoardColumn : c # k => tasks'[c] = tasks[c] /\ been'[c] = been[c]
        /\ RowsOf(tasks'[k]) = RowsOf(tasks[k]) \cup {t} /\ Len(tasks'[k]) = Len(tasks[k]) + 1
        /\ \A c \in BoardColumn : Len(tasks[c]) \in Nat
    <2>1. tasks \in [BoardColumn -> Seq(Task)] /\ been \in [BoardColumn -> SUBSET Task]
      BY DEF BoardInv, BoardTyped
    <2>2. /\ Append(tasks[k], t) \in Seq(Task) /\ RowsOf(Append(tasks[k], t)) = RowsOf(tasks[k]) \cup {t}
          /\ Len(Append(tasks[k], t)) = Len(tasks[k]) + 1
      BY <1>3, <2>1, AddedRow
    <2>3. \A c \in BoardColumn : Len(tasks[c]) \in Nat
      BY <2>1
    <2>4. PICK l : l = Append(tasks[k], t)
      OBVIOUS
    <2>5. /\ tasks' = [tasks EXCEPT ![k] = l] /\ l \in Seq(Task)
          /\ RowsOf(l) = RowsOf(tasks[k]) \cup {t} /\ Len(l) = Len(tasks[k]) + 1
      BY <1>1, <2>2, <2>4
    <2>6. tasks' \in [BoardColumn -> Seq(Task)] /\ tasks'[k] = l /\ \A c \in BoardColumn : c # k => tasks'[c] = tasks[c]
      BY <1>3, <2>1, <2>5
    <2>7. /\ been' \in [BoardColumn -> SUBSET Task] /\ been'[k] = been[k] \cup {t}
          /\ \A c \in BoardColumn : c # k => been'[c] = been[c]
      BY <1>1, <1>3, <2>1
    <2> QED
      BY <2>3, <2>4, <2>5, <2>6, <2>7
  <1>7. \A c \in BoardColumn : been[c] \subseteq been'[c] /\ RowsOf(tasks'[c]) \subseteq been'[c]
    BY <1>6 DEF BoardInv
  <1>8. /\ creating /\ ~loading /\ ~error
        /\ \A s \in Request \ {r} : requests[s].kind \in {"none", "tasks"}
        /\ \A s \in Request \ {r} : requests[s].kind = "tasks" => crossed
    <2>1. \A s \in Request : requests[s].kind \in {"none", "load", "tasks", "create"}
      BY DEF BoardInv, BoardTyped, BoardRequests
    <2>2. creating /\ ~loading /\ ~error /\ \A s \in Request \ {r} : requests[s].kind # "create"
      BY <1>1, <1>3 DEF BoardWaits, q
    <2>3. \A s \in Request \ {r} : requests[s].kind # "load"
      BY <2>2 DEF BoardInv, BoardWaits
    <2>4. \A s \in Request \ {r} : requests[s].kind = "tasks" => crossed
      BY <1>1 DEF BoardInv, BoardWaits, q
    <2> QED
      BY <2>1, <2>2, <2>3, <2>4
  <1>9. BoardTyped'
    BY <1>1, <1>5, <1>6 DEF BoardInv, BoardTyped
  <1>10. \A s \in Request : requests'[s].kind = requests[s].kind
    BY <1>1, <1>4, <1>5 DEF q
  <1>11. ASSUME NEW s \in Request
         PROVE  (BoardShape(requests[s]) /\ BoardWaits(s) /\ BoardFetches(requests[s]))'
    <2>1. BoardWaits(s)'
      BY <1>1, <1>10 DEF BoardWaits, BoardInv
    <2>2. CASE s = r
      <3>1. BoardShape(n)' /\ BoardFetches(n)'
        BY <1>1, <1>3, <1>4, <1>6 DEF BoardShape, BoardFetches
      <3> QED
        BY <1>5, <2>1, <2>2, <3>1
    <2>3. CASE s # r
      <3>1. /\ requests'[s] = requests[s] /\ BoardShape(requests[s]) /\ BoardFetches(requests[s])
            /\ requests[s].kind \in {"none", "tasks"} /\ (requests[s].kind = "tasks" => crossed)
            /\ requests[s].ids \in Seq(BoardColumn)
        BY <1>5, <1>8, <2>3 DEF BoardInv, BoardTyped, BoardRequests
      <3>2. BoardShape(requests[s])'
        BY <1>1, <3>1 DEF BoardShape
      <3>3. \A j \in DOMAIN requests[s].ids : been[requests[s].ids[j]] \subseteq been'[requests[s].ids[j]]
        BY <1>7, <3>1
      <3>4. BoardFetches(requests[s])'
        BY <1>1, <3>1, <3>3 DEF BoardFetches, Clean
      <3> QED
        BY <2>1, <3>2, <3>4
    <2> QED
      BY <2>2, <2>3
  <1>12. \A i \in DOMAIN shown : shown[i].id \in BoardColumn
    <2>1. shown \in Seq(Board!Shown)
      BY DEF BoardInv, BoardTyped
    <2>2. \A i \in DOMAIN shown : shown[i] \in Board!Shown
      BY <2>1
    <2> QED
      BY <2>2 DEF Board!Shown
  <1>13. ~overlapped => \A i \in DOMAIN shown : RowsOf(shown[i].tasks) \subseteq been'[shown[i].id]
    BY <1>7, <1>8, <1>12 DEF BoardInv
  <1>14. ASSUME Clean', Unfetched', Short' PROVE BoardAgrees'
    <2>1. Clean /\ Unfetched
      BY <1>1, <1>10, <1>14 DEF Clean, Unfetched
    <2>2. Short
      <3>1. ASSUME NEW c \in BoardColumn PROVE Len(tasks[c]) <= BoardLimit
        <4>1. BoardLimit \in Nat /\ Len(tasks[c]) \in Nat /\ Len(tasks'[c]) <= BoardLimit
          BY <1>6, <1>14, ClientsAssumption DEF Short
        <4>2. Len(tasks'[c]) = Len(tasks[c]) \/ Len(tasks'[c]) = Len(tasks[c]) + 1
          BY <1>6
        <4> QED
          BY <4>1, <4>2
      <3> QED
        BY <3>1 DEF Short
    <2>3. BoardAgrees
      BY <1>8, <2>1, <2>2 DEF BoardInv
    <2>4. /\ \A s \in Request : \A c : ~AddedTo(s, c)
          /\ \A s \in Request : \A c : AddedTo(s, c)' <=> s = r /\ c = k
      BY <1>1, <1>4, <1>5, <1>8 DEF AddedTo, q
    <2>5. ASSUME NEW i \in DOMAIN columns PROVE ColumnAgrees(shown[i], columns[i])'
      <3>1. shown[i].id = columns[i] /\ ~shown[i].loading /\ shown[i].tasks = tasks[columns[i]]
        BY <2>3, <2>4 DEF BoardAgrees, ColumnAgrees
      <3>2. columns[i] \in BoardColumn
        BY DEF BoardInv, BoardTyped
      <3>3. /\ shown'[i].id = columns'[i] /\ ~shown'[i].loading
            /\ columns'[i] = k => tasks'[columns'[i]] = Append(shown'[i].tasks, n.task)
            /\ columns'[i] # k => tasks'[columns'[i]] = shown'[i].tasks
        BY <1>1, <1>4, <1>6, <3>1, <3>2
      <3> QED
        BY <1>5, <2>4, <3>3 DEF ColumnAgrees
    <2> QED
      BY <1>1, <2>3, <2>5 DEF BoardAgrees
  <1> QED
    BY <1>1, <1>7, <1>9, <1>11, <1>13, <1>14 DEF BoardInv

\* The page is told of its new task.
LEMMA LandCreateKeepsBoard ==
  ASSUME BoardInv, NEW r \in Request, Board!LandCreate(r)
  PROVE  BoardInv'
  <1> DEFINE q == requests[r]
             f == Board!Added(q.column, q.task)
  <1>1. /\ q.kind = "create" /\ q.pc = "served" /\ shown' = f /\ adding' = None /\ creating' = FALSE
        /\ requests' = [requests EXCEPT ![r] = Board!Idle]
        /\ UNCHANGED <<columns, tasks, loading, error, changed, crossed, overlapped, missed, been>>
    BY DEF Board!LandCreate, Board!Free, Board!server, Board!history
  <1>2. /\ requests' \in [Request -> BoardRequests] /\ requests'[r] = Board!Idle
        /\ \A s \in Request \ {r} : requests'[s] = requests[s]
    BY <1>1, BoardIdle, BoardSlot DEF BoardInv
  <1>3. /\ q \in BoardRequests /\ BoardShape(q) /\ BoardWaits(r)
        /\ shown \in Seq(Board!Shown) /\ Len(shown) \in Nat /\ DOMAIN shown = 1 .. Len(shown)
        /\ been \in [BoardColumn -> SUBSET Task]
    BY DEF BoardInv, BoardTyped
  <1>4. q.column \in BoardColumn /\ q.task \in been[q.column] /\ q.task \in Task
    BY <1>1, <1>3 DEF BoardShape
  <1>5. /\ f \in Seq(Board!Shown) /\ DOMAIN f = DOMAIN shown
        /\ \A i \in DOMAIN shown :
              /\ f[i].id = shown[i].id /\ f[i].loading = shown[i].loading
              /\ shown[i].id = q.column => f[i].tasks = Append(shown[i].tasks, q.task)
              /\ shown[i].id # q.column => f[i].tasks = shown[i].tasks
              /\ shown[i] \in Board!Shown
    <2> DEFINE one(i) == IF shown[i].id = q.column THEN [shown[i] EXCEPT !.tasks = Append(shown[i].tasks, q.task)] ELSE shown[i]
    <2>1. f = [i \in DOMAIN shown |-> one(i)]
      BY <1>3 DEF Board!Added, Board!Shown
    <2>2. ASSUME NEW i \in DOMAIN shown
          PROVE  /\ one(i) \in Board!Shown /\ one(i).id = shown[i].id /\ one(i).loading = shown[i].loading
                 /\ shown[i].id = q.column => one(i).tasks = Append(shown[i].tasks, q.task)
                 /\ shown[i].id # q.column => one(i).tasks = shown[i].tasks
                 /\ shown[i] \in Board!Shown
      <3>1. shown[i] \in Board!Shown
        BY <1>3
      <3>2. PICK l : l = Append(shown[i].tasks, q.task)
        OBVIOUS
      <3>3. l \in Seq(Task)
        BY <1>4, <3>1, <3>2, AddedRow DEF Board!Shown
      <3>4. one(i) = IF shown[i].id = q.column THEN [shown[i] EXCEPT !.tasks = l] ELSE shown[i]
        BY <3>2
      <3> HIDE DEF one, q
      <3> QED
        BY <3>1, <3>2, <3>3, <3>4 DEF Board!Shown
    <2> HIDE DEF one, f, q
    <2>3. f \in [1 .. Len(shown) -> Board!Shown] /\ \A i \in DOMAIN shown : f[i] = one(i)
      BY <1>3, <2>1, <2>2
    <2>4. f \in Seq(Board!Shown)
      BY <1>3, <2>3, MapIsSeq
    <2> QED
      BY <1>3, <2>2, <2>3, <2>4
  <1> HIDE DEF q, f
  <1>6. BoardTyped'
    BY <1>1, <1>2, <1>5 DEF BoardInv, BoardTyped
  <1>7. /\ ~loading /\ ~error
        /\ \A s \in Request \ {r} : requests[s].kind # "create"
    BY <1>1, <1>3 DEF BoardWaits, q
  <1>8. ASSUME NEW s \in Request
        PROVE  (BoardShape(requests[s]) /\ BoardWaits(s) /\ BoardFetches(requests[s]))'
    <2>1. CASE s = r
      BY <1>1, <1>2, <2>1, BoardIdle DEF BoardShape, BoardWaits, BoardFetches
    <2>2. CASE s # r
      <3>1. requests'[s] = requests[s] /\ BoardShape(requests[s]) /\ BoardWaits(s) /\ BoardFetches(requests[s])
            /\ requests[s].kind # "create"
        BY <1>2, <1>7, <2>2 DEF BoardInv
      <3>2. BoardShape(requests[s])'
        BY <1>1, <3>1 DEF BoardShape
      <3>3. BoardWaits(s)'
        BY <1>1, <1>2, <2>2, <3>1, BoardIdle DEF BoardWaits
      <3>4. DOMAIN shown' = DOMAIN shown /\ \A i \in DOMAIN shown : shown'[i].id = shown[i].id
        BY <1>1, <1>5
      <3>5. BoardFetches(requests[s])'
        BY <1>1, <3>1, <3>4 DEF BoardFetches, Clean
      <3> QED
        BY <3>2, <3>3, <3>5
    <2> QED
      BY <2>1, <2>2
  <1>9. ASSUME ~overlapped, NEW i \in DOMAIN shown PROVE RowsOf(shown'[i].tasks) \subseteq been[shown'[i].id]
    <2>1. RowsOf(shown[i].tasks) \subseteq been[shown[i].id]
      BY <1>7, <1>9 DEF BoardInv
    <2>2. RowsOf(Append(shown[i].tasks, q.task)) = RowsOf(shown[i].tasks) \cup {q.task}
      <3>1. shown[i].tasks \in Seq(Task)
        BY <1>5 DEF Board!Shown
      <3> QED
        BY <1>4, <3>1, AddedRow
    <2> QED
      BY <1>1, <1>4, <1>5, <2>1, <2>2
  <1>10. ASSUME Clean', Unfetched', Short' PROVE BoardAgrees'
    <2>1. Clean /\ Short /\ Unfetched
      BY <1>1, <1>2, <1>10, BoardIdle DEF Clean, Unfetched, Short, q
    <2>2. BoardAgrees
      BY <1>7, <2>1 DEF BoardInv
    <2>3. /\ \A s \in Request : \A c : AddedTo(s, c) <=> s = r /\ c = q.column
          /\ \A s \in Request : \A c : ~AddedTo(s, c)'
      BY <1>1, <1>2, <1>7, BoardIdle DEF AddedTo, q
    <2>4. ASSUME NEW i \in DOMAIN columns PROVE ColumnAgrees(shown[i], columns[i])'
      <3>1. /\ shown[i].id = columns[i] /\ ~shown[i].loading /\ i \in DOMAIN shown
            /\ columns[i] = q.column => tasks[columns[i]] = Append(shown[i].tasks, q.task)
            /\ columns[i] # q.column => shown[i].tasks = tasks[columns[i]]
        BY <2>2, <2>3 DEF BoardAgrees, ColumnAgrees, q
      <3>2. shown'[i].id = columns'[i] /\ ~shown'[i].loading /\ shown'[i].tasks = tasks'[columns'[i]]
        BY <1>1, <1>5, <3>1
      <3> QED
        BY <2>3, <3>2 DEF ColumnAgrees
    <2> QED
      BY <1>1, <1>5, <2>2, <2>4 DEF BoardAgrees
  <1>11. DOMAIN shown' = DOMAIN shown
    BY <1>1, <1>5
  <1> QED
    BY <1>1, <1>6, <1>8, <1>9, <1>10, <1>11 DEF BoardInv

LEMMA FailKeepsBoard ==
  ASSUME BoardInv, NEW r \in Request, Board!Fail(r)
  PROVE  BoardInv'
  <1> DEFINE q == requests[r]
  <1>1. /\ q.kind \in {"load", "create"} /\ error' = TRUE
        /\ loading' = (loading /\ q.kind # "load") /\ creating' = (creating /\ q.kind # "create")
        /\ requests' = [requests EXCEPT ![r] = Board!Idle]
        /\ UNCHANGED <<columns, tasks, shown, adding, changed, crossed, overlapped, missed, been>>
    BY DEF Board!Fail, Board!Free, Board!server, Board!history
  <1>2. /\ requests' \in [Request -> BoardRequests] /\ requests'[r] = Board!Idle
        /\ \A s \in Request \ {r} : requests'[s] = requests[s]
    BY <1>1, BoardIdle, BoardSlot DEF BoardInv
  <1>3. BoardWaits(r)
    BY DEF BoardInv
  <1> HIDE DEF q
  <1>4. BoardTyped'
    BY <1>1, <1>2 DEF BoardInv, BoardTyped
  <1>5. \A s \in Request \ {r} : requests[s].kind \notin {"load", "create"}
    <2>1. \A s \in Request \ {r} : requests[s].kind = q.kind => FALSE
      BY <1>1, <1>3 DEF BoardWaits, q
    <2>2. q.kind = "load" => loading
      BY <1>3 DEF BoardWaits, q
    <2>3. q.kind = "create" => ~loading
      BY <1>3 DEF BoardWaits, q
    <2>4. \A s \in Request : requests[s].kind = "load" => loading
      BY DEF BoardInv, BoardWaits
    <2>5. \A s \in Request : requests[s].kind = "create" => ~loading
      BY DEF BoardInv, BoardWaits
    <2> QED
      BY <1>1, <2>1, <2>2, <2>3, <2>4, <2>5
  <1>6. ASSUME NEW s \in Request
        PROVE  (BoardShape(requests[s]) /\ BoardWaits(s) /\ BoardFetches(requests[s]))'
    <2>1. CASE s = r
      BY <1>1, <1>2, <2>1, BoardIdle DEF BoardShape, BoardWaits, BoardFetches
    <2>2. CASE s # r
      <3>1. requests'[s] = requests[s] /\ BoardShape(requests[s]) /\ BoardWaits(s) /\ BoardFetches(requests[s])
        BY <1>2, <2>2 DEF BoardInv
      <3>2. BoardShape(requests[s])'
        BY <1>1, <3>1 DEF BoardShape
      <3>3. BoardWaits(s)'
        BY <1>1, <1>2, <1>5, <2>2, <3>1, BoardIdle DEF BoardWaits
      <3>4. BoardFetches(requests[s])'
        BY <1>1, <3>1 DEF BoardFetches, Clean
      <3> QED
        BY <3>2, <3>3, <3>4
    <2> QED
      BY <2>1, <2>2
  <1> QED
    BY <1>1, <1>4, <1>6 DEF BoardInv

LEMMA OthersKeepBoard ==
  ASSUME BoardInv, Board!Others
  PROVE  BoardInv'
  <1>1. /\ changed' = TRUE
        /\ been' = [c \in BoardColumn |-> been[c] \cup Board!Range(tasks'[c])]
        /\ UNCHANGED <<shown, loading, error, adding, creating, requests, crossed, overlapped, missed>>
    BY DEF Board!Others, Board!view
  <1>2. columns \in Seq(BoardColumn) /\ tasks \in [BoardColumn -> Seq(Task)] /\ been \in [BoardColumn -> SUBSET Task]
    BY DEF BoardInv, BoardTyped
  <1>3. columns' \in Seq(BoardColumn) /\ tasks' \in [BoardColumn -> Seq(Task)]
    <2>1. CASE Board!ReorderColumns
      <3>1. columns # <<>> /\ columns' = Append(Tail(columns), Head(columns)) /\ tasks' = tasks
        BY <2>1 DEF Board!ReorderColumns
      <3>2. Head(columns) \in BoardColumn /\ Tail(columns) \in Seq(BoardColumn)
        BY <1>2, <3>1, HeadTailProperties
      <3> QED
        BY <1>2, <3>1, <3>2, AppendProperties
    <2>2. ASSUME NEW c \in BoardColumn, NEW t \in Task, Board!CreateTask(c, t)
          PROVE  columns' \in Seq(BoardColumn) /\ tasks' \in [BoardColumn -> Seq(Task)]
      <3>1. Append(tasks[c], t) \in Seq(Task)
        BY <1>2, AddedRow
      <3> QED
        BY <1>2, <2>2, <3>1 DEF Board!CreateTask
    <2>3. ASSUME NEW c \in BoardColumn, NEW i \in DOMAIN tasks[c], Board!DeleteTask(c, i)
          PROVE  columns' \in Seq(BoardColumn) /\ tasks' \in [BoardColumn -> Seq(Task)]
      <3>1. Board!WithoutAt(tasks[c], i) \in Seq(Task)
        BY <1>2, WithoutOne
      <3> QED
        BY <1>2, <2>3, <3>1 DEF Board!DeleteTask
    <2>4. ASSUME NEW c \in BoardColumn, NEW i \in DOMAIN tasks[c], NEW d \in BoardColumn, Board!MoveTask(c, i, d)
          PROVE  columns' \in Seq(BoardColumn) /\ tasks' \in [BoardColumn -> Seq(Task)]
      <3>1. Board!WithoutAt(tasks[c], i) \in Seq(Task)
        BY <1>2, WithoutOne
      <3>2. tasks[c][i] \in Task
        BY <1>2
      <3>3. Append(tasks[d], tasks[c][i]) \in Seq(Task)
        BY <1>2, <3>2, AddedRow
      <3>4. c # d /\ UNCHANGED columns
            /\ tasks' = [[tasks EXCEPT ![c] = Board!WithoutAt(tasks[c], i)] EXCEPT ![d] = Append(tasks[d], tasks[c][i])]
        BY <1>2, <2>4 DEF Board!MoveTask
      <3> QED
        BY <1>2, <3>1, <3>3, <3>4
    <2> QED
      BY <2>1, <2>2, <2>3, <2>4 DEF Board!Others
  <1>4. /\ been' \in [BoardColumn -> SUBSET Task]
        /\ \A c \in BoardColumn : been[c] \subseteq been'[c] /\ RowsOf(tasks'[c]) \subseteq been'[c]
    <2>1. \A c : Board!Range(tasks'[c]) = RowsOf(tasks'[c])
      BY DEF Board!Range, RowsOf
    <2>2. \A c \in BoardColumn : RowsOf(tasks'[c]) \subseteq Task
      BY <1>3 DEF RowsOf
    <2>3. been' = [c \in BoardColumn |-> been[c] \cup RowsOf(tasks'[c])]
      BY <1>1, <2>1
    <2> QED
      BY <1>2, <2>2, <2>3
  <1>5. BoardTyped'
    BY <1>1, <1>3, <1>4 DEF BoardInv, BoardTyped
  <1>6. ASSUME NEW s \in Request
        PROVE  (BoardShape(requests[s]) /\ BoardWaits(s) /\ BoardFetches(requests[s]))'
    <2>1. /\ BoardShape(requests[s]) /\ BoardWaits(s) /\ BoardFetches(requests[s])
          /\ requests'[s] = requests[s] /\ requests[s].ids \in Seq(BoardColumn)
      BY <1>1 DEF BoardInv, BoardTyped, BoardRequests
    <2>2. BoardShape(requests[s])'
      BY <1>1, <1>4, <2>1 DEF BoardShape
    <2>3. BoardWaits(s)'
      BY <1>1, <2>1 DEF BoardWaits
    <2>4. \A j \in DOMAIN requests[s].ids : been[requests[s].ids[j]] \subseteq been'[requests[s].ids[j]]
      BY <1>4, <2>1
    <2>5. BoardFetches(requests[s])'
      BY <1>1, <2>1, <2>4 DEF BoardFetches, Clean
    <2> QED
      BY <2>2, <2>3, <2>5
  <1>7. \A i \in DOMAIN shown : shown[i].id \in BoardColumn
    <2>1. shown \in Seq(Board!Shown)
      BY DEF BoardInv, BoardTyped
    <2>2. \A i \in DOMAIN shown : shown[i] \in Board!Shown
      BY <2>1
    <2> QED
      BY <2>2 DEF Board!Shown
  <1>8. ~error /\ ~loading /\ ~overlapped => \A i \in DOMAIN shown : RowsOf(shown[i].tasks) \subseteq been'[shown[i].id]
    BY <1>4, <1>7 DEF BoardInv
  <1> QED
    BY <1>1, <1>4, <1>5, <1>6, <1>8 DEF BoardInv, Clean

LEMMA NextKeepsBoard ==
  ASSUME BoardInv, Board!Next \/ UNCHANGED Board!vars
  PROVE  BoardInv'
  <1>1. CASE Board!Next
    BY <1>1, OthersKeepBoard, OpenFormKeepsBoard, RetryKeepsBoard, ServeColumnsKeepsBoard, LandColumnsKeepsBoard,
       LandTasksKeepsBoard, ServeTasksKeepsBoard, MissTasksKeepsBoard, HandleAddTaskKeepsBoard, LandCreateKeepsBoard,
       FailKeepsBoard, ServeCreateKeepsBoard
    DEF Board!Next
  <1>2. CASE UNCHANGED Board!vars
    <2>1. /\ adding' = adding
          /\ UNCHANGED <<columns, tasks, shown, loading, error, creating, requests, changed, crossed, overlapped, missed, been>>
      BY <1>2 DEF Board!vars, Board!server, Board!view, Board!history
    <2>2. adding \in BoardColumn \cup {None}
      BY DEF BoardInv, BoardTyped
    <2> QED
      BY <2>1, <2>2, FormKeepsBoard
  <1> QED
    BY <1>1, <1>2

LEMMA BoardInvSettles == BoardInv => Board!BoardSettles
  <1> SUFFICES ASSUME BoardInv, Board!AtRest, ~overlapped
               PROVE  /\ \A i \in DOMAIN shown : Board!Range(Board!ShownTasks(i)) \subseteq been[shown[i].id]
                      /\ ~changed /\ ~crossed /\ ~missed /\ Short =>
                            shown = [i \in DOMAIN columns |->
                                        [id |-> columns[i], tasks |-> tasks[columns[i]], loading |-> FALSE]]
    BY DEF Board!BoardSettles, Board!ShowsTheBoard, Board!UnderItsColumn, Short
  <1>1. ~loading /\ ~error /\ \A r \in Request : requests[r].kind = "none"
    BY DEF Board!AtRest, Board!Board, BoardInv, BoardShape
  <1>2. shown \in Seq(Board!Shown) /\ \A i \in DOMAIN shown : shown[i] \in Board!Shown
    BY DEF BoardInv, BoardTyped
  <1>3. ASSUME NEW i \in DOMAIN shown
        PROVE  Board!Range(Board!ShownTasks(i)) \subseteq been[shown[i].id]
    <2>1. RowsOf(shown[i].tasks) \subseteq been[shown[i].id]
      BY <1>1 DEF BoardInv
    <2>2. Board!Range(shown[i].tasks) = RowsOf(shown[i].tasks) /\ Board!Range(<<>>) = {}
      BY DEF Board!Range, RowsOf
    <2> QED
      BY <2>1, <2>2 DEF Board!ShownTasks
  <1>4. ASSUME ~changed, ~crossed, ~missed, Short
        PROVE  shown = [i \in DOMAIN columns |->
                           [id |-> columns[i], tasks |-> tasks[columns[i]], loading |-> FALSE]]
    <2>1. Clean /\ Unfetched
      BY <1>1, <1>4 DEF Clean, Unfetched
    <2>2. BoardAgrees
      BY <1>1, <1>4, <2>1 DEF BoardInv
    <2>3. \A r \in Request : \A c : ~AddedTo(r, c)
      BY <1>1 DEF AddedTo
    <2>4. ASSUME NEW i \in DOMAIN columns
          PROVE  shown[i] = [id |-> columns[i], tasks |-> tasks[columns[i]], loading |-> FALSE]
      <3>1. /\ i \in DOMAIN shown /\ shown[i].id = columns[i] /\ ~shown[i].loading /\ shown[i].tasks = tasks[columns[i]]
        BY <2>2, <2>3 DEF BoardAgrees, ColumnAgrees
      <3>2. shown[i] \in Board!Shown
        BY <1>2, <3>1
      <3> QED
        BY <3>1, <3>2 DEF Board!Shown
    <2>5. DOMAIN shown = DOMAIN columns /\ shown = [i \in DOMAIN shown |-> shown[i]]
      BY <1>2, <2>2 DEF BoardAgrees
    <2> QED
      BY <2>4, <2>5
  <1> QED
    BY <1>3, <1>4

\* BoardView.tsx: a board at rest shows the stored columns in order and each of
\* their tasks once and in order, those added here included, unless others changed
\* it, a task was added while the tasks were fetched, a fetch overtook another, a
\* column did not arrive or is longer than an answer; and but for an overtaken
\* fetch it shows in a column only tasks that have been in it.
THEOREM BoardAlwaysSettles == Spec => []BoardSettles
  <1> DEFINE I == part = "board" => BoardInv
  <1>1. Init => I
    BY InitBoard DEF Init
  <1>2. I /\ [Next]_vars => I'
    <2> SUFFICES ASSUME I, [Next]_vars, part' = "board" PROVE BoardInv'
      OBVIOUS
    <2>1. part = "board" /\ (Board!Next \/ UNCHANGED Board!vars)
      BY DEF Next, vars, common, boardOwn, Board!vars, Board!server, Board!view, Board!history
    <2> QED
      BY <2>1, NextKeepsBoard
  <1>3. I => BoardSettles
    BY BoardInvSettles DEF BoardSettles
  <1> QED
    BY <1>1, <1>2, <1>3, PTL DEF Spec

------------------------------------------------------------------------------
(* The settings of a project                                                  *)

SettingsRequests ==
    [kind : Settings!Kinds, pc : {"idle", "sent", "served"}, id : SettingsColumn \cup Member \cup {None},
     info : Settings!Info, left : SUBSET {"project", "columns", "members"},
     columns : Settings!Columns, members : Seq(Member), ok : BOOLEAN]

SettingsTyped ==
    /\ info \in Settings!Info /\ form \in Settings!Info
    /\ columns \in Settings!Columns /\ shown \in Settings!Columns
    /\ members \in Seq(Member) /\ listed \in Seq(Member)
    /\ loading \in BOOLEAN /\ unsaved \in BOOLEAN /\ failed \in BOOLEAN
    /\ crossed \in BOOLEAN /\ together \in BOOLEAN
    /\ requests \in [Request -> SettingsRequests]

\* What a request of each kind has still to find out, and is of.
SettingsShape(q) ==
    /\ q.kind = "none" <=> q.pc = "idle"
    /\ q.kind \in {"load", "members"} => q.pc = "sent"
    /\ q.kind = "members" => q.left \subseteq {"members"}
    /\ q.kind \notin {"load", "members"} => q.left = {}
    /\ q.kind = "invite" => q.id \in Member
    /\ q.pc = "served" /\ q.ok => q.kind \notin {"saveColumn", "addColumn"}

\* What the page calls a request in flight.
Goes(q) == IF q.kind = "members" THEN "invite" ELSE q.kind

\* The page fetches once and sends nothing before; it saves its form, invites and
\* removes members one at a time.
SettingsWaits(r) ==
    LET q == requests[r]
    IN /\ q.kind = "load" => loading
       /\ q.kind \notin {"none", "load"} => ~loading
       /\ Goes(q) \in {"info", "invite", "removeMember"} => Goes(q) \in busy
       /\ \A s \in Request \ {r} :
             /\ Goes(requests[s]) = Goes(q) => Goes(q) \notin {"load", "info", "invite", "removeMember"}
             /\ ~crossed => ~({Goes(q), Goes(requests[s])} = {"invite", "removeMember"})
             /\ ~together => ~(q.kind = "removeColumn" /\ requests[s].kind = "removeColumn")

\* A fetch holds what is stored of each list it has read, and a form that is being
\* saved is the one on the page unless more was typed.
SettingsFetches(q) ==
    /\ q.kind = "load" =>
          /\ "project" \notin q.left => q.info = info
          /\ "columns" \notin q.left => q.columns = columns
          /\ "members" \notin q.left /\ "members" \notin unheard => q.members = members
    /\ q.kind = "members" /\ q.left = {} /\ ~crossed => q.members = members
    /\ q.kind = "info" => /\ ~failed => q.info.title # None
                          /\ q.pc = "sent" /\ ~unsaved => q.info = form

\* No identifier twice, and in both lists those of both in the same order.
Distinct(list) == \A i, j \in DOMAIN list : list[i].id = list[j].id => i = j
InOrder(list, other) ==
    \A i, j \in DOMAIN list, k, l \in DOMAIN other :
        list[i].id = other[k].id /\ list[j].id = other[l].id /\ i < j => k < l

\* What was removed, and the page was not told yet.
Gone(r, kind) == requests[r].kind = kind /\ requests[r].pc = "served" /\ requests[r].ok
GoneColumns == {requests[r].id : r \in {s \in Request : Gone(s, "removeColumn")}}

\* The columns on the page are those stored and those whose removal it will be told of.
ColumnsAgree ==
    /\ InOrder(columns, shown)
    /\ "columns" \notin unheard => Settings!Ids(columns) = Settings!Ids(shown) \ GoneColumns
    /\ \A i \in DOMAIN shown, j \in DOMAIN columns :
          shown[i].id = columns[j].id /\ shown[i] # columns[j] => shown[i].id \in renamed

\* The members on the page lack nobody, and are one too many while a removal is on
\* its way; they are fetched after an invitation.
MembersAgree ==
    "members" \notin unheard /\ ~crossed =>
        /\ \A r \in Request : Gone(r, "removeMember") => members = Settings!WithoutMember(listed, requests[r].id)
        /\ (\A r \in Request : /\ ~Gone(r, "removeMember") /\ ~Gone(r, "invite")
                               /\ requests[r].kind # "members") => listed = members

FormAgrees ==
    /\ ~loading /\ ~unsaved /\ (\A r \in Request : requests[r].kind = "info" => requests[r].pc # "sent") =>
          info.title = form.title /\ form.deadline \in {info.deadline, None}
    /\ ~failed => info.title # None /\ (~loading => form.title # None)

EnoughColumns ==
    ~together /\ "columns" \notin unheard =>
        /\ Len(columns) >= 2
        /\ \A r \in Request : requests[r].kind = "removeColumn" /\ requests[r].pc = "sent" => Len(shown) > 2

SettingsInv ==
    /\ SettingsTyped
    /\ \A r \in Request : SettingsShape(requests[r]) /\ SettingsWaits(r) /\ SettingsFetches(requests[r])
    /\ Distinct(columns) /\ Distinct(shown)
    /\ loading \/ failed => shown = <<>>
    /\ failed => ~loading
    /\ ~loading /\ ~failed => ColumnsAgree /\ MembersAgree
    /\ FormAgrees
    /\ EnoughColumns

\* The first m of f are among the first n of g, each once and in the same order.
Embeds(f, m, g, n) ==
    /\ \A a, b \in 1 .. m : f[a] = f[b] => a = b
    /\ \A k, l \in 1 .. n : g[k] = g[l] => k = l
    /\ \A a \in 1 .. m : \E b \in 1 .. n : g[b] = f[a]
    /\ \A a, b \in 1 .. m, k, l \in 1 .. n : f[a] = g[k] /\ f[b] = g[l] /\ a < b => k < l

LEMMA PlacesGrow ==
  ASSUME NEW m \in Nat, NEW n \in Nat, NEW f, NEW g, Embeds(f, m, g, n),
         NEW i \in 1 .. m, NEW j \in 1 .. n, f[i] = g[j]
  PROVE  i <= j
  <1> DEFINE h == [a \in 1 .. i |-> CHOOSE b \in 1 .. n : g[b] = f[a]]
  <1>1. \A a \in 1 .. i : a \in 1 .. m
    OBVIOUS
  <1>2. \A a \in 1 .. i : h[a] \in 1 .. n /\ g[h[a]] = f[a]
    BY <1>1 DEF Embeds
  <1>3. \A a \in 1 .. i : h[a] \in 1 .. j
    <2> TAKE a \in 1 .. i
    <2>1. a \in 1 .. m /\ h[a] \in 1 .. n /\ g[h[a]] = f[a]
      BY <1>1, <1>2
    <2> HIDE DEF h
    <2>2. CASE a = i
      BY <2>1, <2>2 DEF Embeds
    <2>3. CASE a # i
      <3>1. a < i
        BY <2>3
      <3>2. h[a] < j
        BY <2>1, <3>1 DEF Embeds
      <3> QED
        BY <2>1, <3>2
    <2> QED
      BY <2>2, <2>3
  <1>4. h \in [1 .. i -> 1 .. j]
    BY <1>3
  <1>5. \A a, b \in 1 .. i : h[a] = h[b] => a = b
    <2> HIDE DEF h
    <2> QED
      BY <1>1, <1>2 DEF Embeds
  <1> HIDE DEF h
  <1>6. /\ IsFiniteSet(1 .. i) /\ IsFiniteSet(1 .. j)
        /\ Cardinality(1 .. i) = i /\ Cardinality(1 .. j) = j
    <2>1. i \in Int /\ j \in Int /\ i >= 1 /\ j >= 1
      OBVIOUS
    <2> QED
      BY <2>1, FS_Interval
  <1>7. ~(Cardinality(1 .. j) < Cardinality(1 .. i))
    <2> SUFFICES ASSUME Cardinality(1 .. j) < Cardinality(1 .. i) PROVE FALSE
      OBVIOUS
    <2>1. \E x, y \in 1 .. i : x # y /\ h[x] = h[y]
      BY <1>4, <1>6, FS_PigeonHole
    <2> QED
      BY <1>5, <2>1
  <1> QED
    BY <1>6, <1>7

\* Two lists that hold the same, each once and in the same order, are one.
LEMMA SameOrder ==
  ASSUME NEW m \in Nat, NEW n \in Nat, NEW f, NEW g, Embeds(f, m, g, n),
         \A b \in 1 .. n : \E a \in 1 .. m : f[a] = g[b]
  PROVE  m = n /\ \A i \in 1 .. m : f[i] = g[i]
  <1>1. \A a, b \in 1 .. n, k, l \in 1 .. m : g[a] = f[k] /\ g[b] = f[l] /\ a < b => k < l
    <2> TAKE a, b \in 1 .. n, k, l \in 1 .. m
    <2> HAVE g[a] = f[k] /\ g[b] = f[l] /\ a < b
    <2>1. k # l
      BY DEF Embeds
    <2>2. ~(l < k)
      BY DEF Embeds
    <2> QED
      BY <2>1, <2>2
  <1>2. ASSUME NEW i \in 1 .. m, NEW j \in 1 .. n, f[i] = g[j] PROVE i = j
    <2>1. i <= j
      BY <1>2, PlacesGrow
    <2>2. Embeds(g, n, f, m)
      BY <1>1 DEF Embeds
    <2>3. j <= i
      BY <1>2, <2>2, PlacesGrow
    <2> QED
      BY <2>1, <2>3
  <1>3. \A i \in 1 .. m : i \in 1 .. n /\ f[i] = g[i]
    BY <1>2 DEF Embeds
  <1>4. \A i \in 1 .. n : i \in 1 .. m
    BY <1>2
  <1>5. m = n
    <2>1. m <= n
      BY <1>3
    <2>2. n <= m
      BY <1>4
    <2> QED
      BY <2>1, <2>2
  <1> QED
    BY <1>3, <1>5

LEMMA RemovedAt ==
  ASSUME NEW S, NEW list \in Seq(S), NEW c \in DOMAIN list
  PROVE  /\ Settings!WithoutAt(list, c) \in Seq(S)
         /\ Len(Settings!WithoutAt(list, c)) = Len(list) - 1
         /\ \A i \in 1 .. Len(list) - 1 : Settings!WithoutAt(list, c)[i] = IF i < c THEN list[i] ELSE list[i + 1]
  <1> DEFINE n == Len(list)
             a == SubSeq(list, 1, c - 1)
             b == SubSeq(list, c + 1, n)
  <1>1. n \in Nat /\ c \in 1 .. n
    OBVIOUS
  <1>2. \A k \in 1 .. n : list[k] \in S
    OBVIOUS
  <1>3. \A k \in 1 .. c - 1 : list[k] \in S
    BY <1>1, <1>2
  <1>4. \A k \in c + 1 .. n : list[k] \in S
    BY <1>1, <1>2
  <1>5. a \in Seq(S) /\ Len(a) = c - 1 /\ \A i \in 1 .. c - 1 : a[i] = list[i]
    <2>1. /\ a \in Seq(S) /\ Len(a) = IF 1 <= c - 1 THEN c - 1 - 1 + 1 ELSE 0
          /\ \A i \in 1 .. c - 1 - 1 + 1 : a[i] = list[1 + i - 1]
      BY <1>1, <1>3, SubSeqProperties
    <2> HIDE DEF a
    <2>2. Len(a) = c - 1
      BY <1>1, <2>1
    <2>3. \A i \in 1 .. c - 1 : i \in 1 .. c - 1 - 1 + 1 /\ 1 + i - 1 = i
      BY <1>1
    <2> QED
      BY <2>1, <2>2, <2>3
  <1>6. b \in Seq(S) /\ Len(b) = n - c /\ \A i \in 1 .. n - c : b[i] = list[i + c]
    <2>1. /\ b \in Seq(S) /\ Len(b) = IF c + 1 <= n THEN n - (c + 1) + 1 ELSE 0
          /\ \A i \in 1 .. n - (c + 1) + 1 : b[i] = list[c + 1 + i - 1]
      BY <1>1, <1>4, SubSeqProperties
    <2> HIDE DEF b, n
    <2>2. Len(b) = n - c
      BY <1>1, <2>1
    <2>3. \A i \in 1 .. n - c : i \in 1 .. n - (c + 1) + 1 /\ c + 1 + i - 1 = i + c
      BY <1>1
    <2> QED
      BY <2>1, <2>2, <2>3
  <1> HIDE DEF a, b
  <1>7. /\ a \o b \in Seq(S) /\ Len(a \o b) = Len(a) + Len(b)
        /\ \A i \in 1 .. Len(a) + Len(b) : (a \o b)[i] = IF i <= Len(a) THEN a[i] ELSE b[i - Len(a)]
    BY <1>5, <1>6, ConcatProperties
  <1>8. Settings!WithoutAt(list, c) = a \o b
    BY DEF Settings!WithoutAt, a, b
  <1> HIDE DEF n
  <1>9. Len(a) + Len(b) = n - 1
    BY <1>1, <1>5, <1>6
  <1>10. ASSUME NEW i \in 1 .. n - 1 PROVE (a \o b)[i] = IF i < c THEN list[i] ELSE list[i + 1]
    <2>1. CASE i < c
      <3>1. i <= Len(a) /\ i \in 1 .. c - 1
        BY <1>1, <1>5, <2>1
      <3> QED
        BY <1>5, <1>7, <1>9, <2>1, <3>1
    <2>2. CASE ~(i < c)
      <3>1. /\ ~(i <= Len(a)) /\ i - Len(a) \in 1 .. n - c /\ i - Len(a) + c = i + 1
        BY <1>1, <1>5, <2>2
      <3>2. b[i - Len(a)] = list[i + 1]
        BY <1>6, <3>1
      <3> QED
        BY <1>7, <1>9, <2>2, <3>1, <3>2
    <2> QED
      BY <2>1, <2>2
  <1> QED
    BY <1>7, <1>8, <1>9, <1>10 DEF n

\* A list of columns without one of them.
LEMMA ThinnedColumns ==
  ASSUME NEW list \in Settings!Columns, Distinct(list), NEW x
  PROVE  LET w == Settings!WithoutColumn(list, x)
         IN /\ w \in Settings!Columns /\ Len(w) >= Len(list) - 1
            /\ \A j \in DOMAIN list : list[j].id # x => \E i \in DOMAIN w : w[i] = list[j]
            /\ \E p \in [DOMAIN w -> DOMAIN list] :
                  /\ \A i \in DOMAIN w : w[i] = list[p[i]] /\ w[i].id # x
                  /\ \A i, j \in DOMAIN w : i < j <=> p[i] < p[j]
  <1> DEFINE w == Settings!WithoutColumn(list, x)
             here == {i \in DOMAIN list : list[i].id = x}
  <1>1. Len(list) \in Nat /\ DOMAIN list = 1 .. Len(list) /\ list \in Seq([id : SettingsColumn, title : ColumnTitle])
    BY DEF Settings!Columns
  <1>2. CASE here = {}
    <2>1. w = list
      BY <1>2 DEF Settings!WithoutColumn, Settings!Rest
    <2> DEFINE p == [i \in DOMAIN list |-> i]
    <2>2. p \in [DOMAIN list -> DOMAIN list] /\ \A i \in DOMAIN list : p[i] = i
      OBVIOUS
    <2>3. \A i \in DOMAIN list : list[i].id # x
      BY <1>2
    <2> HIDE DEF w, p
    <2>4. Len(list) >= Len(list) - 1
      BY <1>1
    <2>5. \E f \in [DOMAIN w -> DOMAIN list] :
             /\ \A i \in DOMAIN w : w[i] = list[f[i]] /\ w[i].id # x
             /\ \A i, j \in DOMAIN w : i < j <=> f[i] < f[j]
      BY <2>1, <2>2, <2>3
    <2> QED
      BY <2>1, <2>4, <2>5 DEF w
  <1>3. CASE here # {}
    <2>1. PICK c : c = CHOOSE i \in here : TRUE
      OBVIOUS
    <2>2. c \in here
      BY <1>3, <2>1
    <2>3. c \in 1 .. Len(list) /\ list[c].id = x
      BY <1>1, <2>2
    <2>4. w = Settings!WithoutAt(list, c)
      BY <1>3, <2>1 DEF Settings!WithoutColumn, Settings!Rest
    <2> HIDE DEF w
    <2>5. /\ w \in Seq([id : SettingsColumn, title : ColumnTitle]) /\ Len(w) = Len(list) - 1
          /\ \A i \in 1 .. Len(list) - 1 : w[i] = IF i < c THEN list[i] ELSE list[i + 1]
      BY <1>1, <2>3, <2>4, RemovedAt
    <2> DEFINE p == [i \in 1 .. Len(list) - 1 |-> IF i < c THEN i ELSE i + 1]
    <2>6. DOMAIN w = 1 .. Len(list) - 1
      BY <2>5
    <2>7. /\ p \in [1 .. Len(list) - 1 -> 1 .. Len(list)]
          /\ \A i \in 1 .. Len(list) - 1 : p[i] = (IF i < c THEN i ELSE i + 1) /\ p[i] # c
          /\ \A i, j \in 1 .. Len(list) - 1 : i < j <=> p[i] < p[j]
      BY <1>1, <2>3
    <2>8. \A i \in 1 .. Len(list) - 1 : w[i] = list[p[i]]
      BY <2>5, <2>7
    <2> HIDE DEF p
    <2>9. \A i \in 1 .. Len(list) - 1 : w[i].id # x
      BY <1>1, <2>3, <2>7, <2>8 DEF Distinct
    <2>10. ASSUME NEW j \in DOMAIN list, list[j].id # x PROVE \E i \in DOMAIN w : w[i] = list[j]
      <3>1. j # c /\ j \in 1 .. Len(list)
        BY <1>1, <2>3, <2>10
      <3>2. CASE j < c
        <4>1. j \in 1 .. Len(list) - 1
          BY <1>1, <2>3, <3>1, <3>2
        <4> QED
          BY <2>5, <2>6, <3>2, <4>1
      <3>3. CASE ~(j < c)
        <4>1. j - 1 \in 1 .. Len(list) - 1 /\ ~(j - 1 < c) /\ j - 1 + 1 = j
          BY <1>1, <2>3, <3>1, <3>3
        <4> QED
          BY <2>5, <2>6, <4>1
      <3> QED
        BY <3>2, <3>3
    <2>11. Len(w) >= Len(list) - 1
      BY <1>1, <2>5
    <2>12. \E f \in [DOMAIN w -> DOMAIN list] :
              /\ \A i \in DOMAIN w : w[i] = list[f[i]] /\ w[i].id # x
              /\ \A i, j \in DOMAIN w : i < j <=> f[i] < f[j]
      BY <1>1, <2>6, <2>7, <2>8, <2>9
    <2> QED
      BY <2>5, <2>10, <2>11, <2>12 DEF Settings!Columns, w
  <1> QED
    BY <1>2, <1>3

LEMMA WithoutColumnIs ==
  ASSUME NEW list \in Settings!Columns, Distinct(list), NEW x
  PROVE  LET w == Settings!WithoutColumn(list, x)
         IN /\ w \in Settings!Columns /\ Len(w) >= Len(list) - 1 /\ Distinct(w)
            /\ Settings!Ids(w) = Settings!Ids(list) \ {x}
            /\ \A i \in DOMAIN w : \E j \in DOMAIN list : w[i] = list[j]
  <1> DEFINE w == Settings!WithoutColumn(list, x)
  <1>1. /\ w \in Settings!Columns /\ Len(w) >= Len(list) - 1
        /\ \A j \in DOMAIN list : list[j].id # x => \E i \in DOMAIN w : w[i] = list[j]
    BY ThinnedColumns
  <1>2. PICK p \in [DOMAIN w -> DOMAIN list] :
              /\ \A i \in DOMAIN w : w[i] = list[p[i]] /\ w[i].id # x
              /\ \A i, j \in DOMAIN w : i < j <=> p[i] < p[j]
    BY ThinnedColumns
  <1> HIDE DEF w
  <1>3. /\ \A i \in DOMAIN w : p[i] \in DOMAIN list /\ p[i] \in Int /\ i \in Int
    <2>1. DOMAIN list \subseteq Int /\ DOMAIN w \subseteq Int
      BY <1>1 DEF Settings!Columns
    <2> QED
      BY <2>1
  <1>4. Distinct(w)
    <2>1. \A i, j \in DOMAIN w : w[i].id = w[j].id => p[i] = p[j]
      BY <1>2, <1>3 DEF Distinct
    <2>2. \A i, j \in DOMAIN w : p[i] = p[j] => ~(i < j) /\ ~(j < i)
      BY <1>2, <1>3
    <2>3. \A i, j \in DOMAIN w : ~(i < j) /\ ~(j < i) => i = j
      BY <1>3
    <2> QED
      BY <2>1, <2>2, <2>3 DEF Distinct
  <1>5. Settings!Ids(w) = Settings!Ids(list) \ {x}
    BY <1>1, <1>2, <1>3 DEF Settings!Ids
  <1> QED
    BY <1>1, <1>2, <1>3, <1>4, <1>5 DEF w

LEMMA WithoutColumnInOrder ==
  ASSUME NEW list \in Settings!Columns, Distinct(list), NEW other, NEW x
  PROVE  LET w == Settings!WithoutColumn(list, x)
         IN /\ InOrder(list, other) => InOrder(w, other)
            /\ InOrder(other, list) => InOrder(other, w)
  <1> DEFINE w == Settings!WithoutColumn(list, x)
  <1>1. PICK p \in [DOMAIN w -> DOMAIN list] :
              /\ \A i \in DOMAIN w : w[i] = list[p[i]] /\ w[i].id # x
              /\ \A i, j \in DOMAIN w : i < j <=> p[i] < p[j]
    BY ThinnedColumns
  <1> HIDE DEF w
  <1>2. \A i \in DOMAIN w : p[i] \in DOMAIN list /\ w[i] = list[p[i]]
    BY <1>1
  <1>3. InOrder(list, other) => InOrder(w, other)
    <2> SUFFICES ASSUME InOrder(list, other), NEW i \in DOMAIN w, NEW j \in DOMAIN w,
                        NEW k \in DOMAIN other, NEW l \in DOMAIN other,
                        w[i].id = other[k].id, w[j].id = other[l].id, i < j
                 PROVE  k < l
      BY DEF InOrder
    <2>1. p[i] < p[j]
      BY <1>1
    <2> QED
      BY <1>2, <2>1 DEF InOrder
  <1>4. InOrder(other, list) => InOrder(other, w)
    <2> SUFFICES ASSUME InOrder(other, list), NEW i \in DOMAIN other, NEW j \in DOMAIN other,
                        NEW k \in DOMAIN w, NEW l \in DOMAIN w,
                        other[i].id = w[k].id, other[j].id = w[l].id, i < j
                 PROVE  k < l
      BY DEF InOrder
    <2>1. p[k] < p[l]
      BY <1>2 DEF InOrder
    <2> QED
      BY <1>1, <2>1
  <1> QED
    BY <1>3, <1>4 DEF w

\* Lists of the same columns in the same order have the same names of columns.
LEMMA SameColumns ==
  ASSUME NEW list \in Settings!Columns, NEW other \in Settings!Columns, Distinct(list), Distinct(other),
         InOrder(list, other), Settings!Ids(list) = Settings!Ids(other)
  PROVE  Settings!Named(list) = Settings!Named(other) /\ Len(list) = Len(other)
  <1> DEFINE m == Len(list)
             n == Len(other)
             f == Settings!Named(list)
             g == Settings!Named(other)
  <1>1. m \in Nat /\ n \in Nat /\ DOMAIN list = 1 .. m /\ DOMAIN other = 1 .. n
    BY DEF Settings!Columns
  <1>2. /\ f = [i \in 1 .. m |-> list[i].id] /\ g = [i \in 1 .. n |-> other[i].id]
        /\ \A i \in 1 .. m : f[i] = list[i].id
        /\ \A i \in 1 .. n : g[i] = other[i].id
    BY <1>1 DEF Settings!Named
  <1>3. /\ \A a \in 1 .. m : \E b \in 1 .. n : other[b].id = list[a].id
        /\ \A b \in 1 .. n : \E a \in 1 .. m : list[a].id = other[b].id
    <2>1. \A a \in 1 .. m : list[a].id \in Settings!Ids(other)
      BY <1>1 DEF Settings!Ids
    <2>2. \A b \in 1 .. n : other[b].id \in Settings!Ids(list)
      BY <1>1 DEF Settings!Ids
    <2> QED
      BY <1>1, <2>1, <2>2 DEF Settings!Ids
  <1> HIDE DEF m, n, f, g
  <1>4. Embeds(f, m, g, n)
    <2>1. \A a, b \in 1 .. m : f[a] = f[b] => a = b
      BY <1>1, <1>2 DEF Distinct
    <2>2. \A k, l \in 1 .. n : g[k] = g[l] => k = l
      BY <1>1, <1>2 DEF Distinct
    <2>3. \A a \in 1 .. m : \E b \in 1 .. n : g[b] = f[a]
      BY <1>2, <1>3
    <2>4. \A a, b \in 1 .. m, k, l \in 1 .. n : f[a] = g[k] /\ f[b] = g[l] /\ a < b => k < l
      BY <1>1, <1>2 DEF InOrder
    <2> QED
      BY <2>1, <2>2, <2>3, <2>4 DEF Embeds
  <1>5. \A b \in 1 .. n : \E a \in 1 .. m : f[a] = g[b]
    BY <1>2, <1>3
  <1>6. m = n /\ \A i \in 1 .. m : f[i] = g[i]
    BY <1>1, <1>4, <1>5, SameOrder
  <1>7. f = g
    BY <1>2, <1>6
  <1> QED
    BY <1>6, <1>7 DEF m, n, f, g

LEMMA SettingsIdle ==
  /\ Settings!Idle \in SettingsRequests
  /\ Settings!Idle.kind = "none" /\ Settings!Idle.pc = "idle" /\ Settings!Idle.left = {} /\ ~Settings!Idle.ok
  <1>1. <<>> \in Settings!Columns /\ <<>> \in Seq(Member) /\ Settings!NoInfo \in Settings!Info
    BY DEF Settings!Columns, Settings!NoInfo, Settings!Info
  <1> QED
    BY <1>1 DEF Settings!Idle, SettingsRequests, Settings!Kinds

LEMMA SettingsSlot ==
  ASSUME SettingsTyped, NEW r \in Request, NEW q \in SettingsRequests, requests' = [requests EXCEPT ![r] = q]
  PROVE  /\ requests' \in [Request -> SettingsRequests] /\ requests'[r] = q
         /\ \A s \in Request \ {r} : requests'[s] = requests[s]
  BY DEF SettingsTyped

\* What the lists and the form have to agree on only depends on some of the state.
LEMMA ColumnsStay ==
  ASSUME ColumnsAgree, \A s \in Request : Gone(s, "removeColumn")' <=> Gone(s, "removeColumn"),
         \A s \in Request : Gone(s, "removeColumn") => requests'[s].id = requests[s].id,
         columns' = columns, shown' = shown, renamed' = renamed, "columns" \in unheard => "columns" \in unheard'
  PROVE  ColumnsAgree'
  <1>1. GoneColumns' = GoneColumns
    BY DEF GoneColumns
  <1>2. InOrder(columns, shown)' /\ Settings!Ids(columns)' = Settings!Ids(columns) /\ Settings!Ids(shown)' = Settings!Ids(shown)
    BY DEF ColumnsAgree, InOrder, Settings!Ids
  <1> QED
    BY <1>1, <1>2 DEF ColumnsAgree

LEMMA MembersStay ==
  ASSUME MembersAgree,
         \A s \in Request : Gone(s, "removeMember")' <=> Gone(s, "removeMember"),
         \A s \in Request : Gone(s, "removeMember") => requests'[s].id = requests[s].id,
         \A s \in Request : Gone(s, "invite") => Gone(s, "invite")',
         \A s \in Request : requests[s].kind = "members" => requests'[s].kind = "members",
         members' = members, listed' = listed,
         "members" \in unheard => "members" \in unheard', crossed => crossed'
  PROVE  MembersAgree'
  <1>1. \A x : Settings!WithoutMember(listed, x)' = Settings!WithoutMember(listed, x)
    BY DEF Settings!WithoutMember, Settings!Rest
  <1> QED
    BY <1>1 DEF MembersAgree

LEMMA WaitsStay ==
  ASSUME NEW s \in Request, SettingsWaits(s), \A t \in Request : requests'[t].kind = requests[t].kind,
         loading' = loading, busy' = busy, crossed' = crossed, together' = together
  PROVE  SettingsWaits(s)'
  <1>1. \A t \in Request : Goes(requests'[t]) = Goes(requests[t])
    BY DEF Goes
  <1>2. \A t \in Request \ {s} :
           /\ Goes(requests[t]) = Goes(requests[s]) => Goes(requests[s]) \notin {"load", "info", "invite", "removeMember"}
           /\ ~crossed => ~({Goes(requests[s]), Goes(requests[t])} = {"invite", "removeMember"})
           /\ ~together => ~(requests[s].kind = "removeColumn" /\ requests[t].kind = "removeColumn")
    BY DEF SettingsWaits
  <1>3. \A t \in Request \ {s} :
           /\ Goes(requests'[t]) = Goes(requests'[s]) => Goes(requests'[s]) \notin {"load", "info", "invite", "removeMember"}
           /\ ~crossed' => ~({Goes(requests'[s]), Goes(requests'[t])} = {"invite", "removeMember"})
           /\ ~together' => ~(requests'[s].kind = "removeColumn" /\ requests'[t].kind = "removeColumn")
    BY <1>1, <1>2
  <1>4. /\ requests'[s].kind = "load" => loading'
        /\ requests'[s].kind \notin {"none", "load"} => ~loading'
        /\ Goes(requests'[s]) \in {"info", "invite", "removeMember"} => Goes(requests'[s]) \in busy'
    BY <1>1 DEF SettingsWaits
  <1> QED
    BY <1>1, <1>3, <1>4 DEF SettingsWaits, Goes

LEMMA SettingsFormStays ==
  ASSUME FormAgrees, form' = form, info' = info, loading' = loading, failed => failed',
         unsaved => unsaved',
         \A s \in Request : requests[s].kind = "info" /\ requests[s].pc = "sent"
               => unsaved' \/ (requests'[s].kind = "info" /\ requests'[s].pc = "sent")
  PROVE  FormAgrees'
  BY DEF FormAgrees

LEMMA EnoughStays ==
  ASSUME EnoughColumns, columns' = columns, Len(shown') = Len(shown), together => together',
         "columns" \in unheard => "columns" \in unheard',
         \A s \in Request : requests'[s].kind = "removeColumn" /\ requests'[s].pc = "sent"
               => requests[s].kind = "removeColumn" /\ requests[s].pc = "sent"
  PROVE  EnoughColumns'
  BY DEF EnoughColumns

LEMMA InitSettings == Settings!Init => SettingsInv
  <1> SUFFICES ASSUME Settings!Init PROVE SettingsInv
    OBVIOUS
  <1> DEFINE n == [Settings!Idle EXCEPT !.kind = "load", !.pc = "sent", !.left = {"project", "columns", "members"}]
  <1>1. PICK r \in Request : requests = [s \in Request |-> IF s = r THEN n ELSE Settings!Idle]
    BY DEF Settings!Init
  <1>2. n \in SettingsRequests /\ n.kind = "load" /\ n.pc = "sent" /\ n.left = {"project", "columns", "members"}
    BY SettingsIdle DEF SettingsRequests, Settings!Kinds
  <1> HIDE DEF n
  <1>3. /\ requests \in [Request -> SettingsRequests] /\ requests[r] = n
        /\ \A s \in Request \ {r} : requests[s] = Settings!Idle
    BY <1>1, <1>2, SettingsIdle
  <1>4. /\ columns \in Settings!Columns /\ Len(columns) = 3 /\ DOMAIN columns = 1 .. 3
        /\ Distinct(columns)
    <2>1. /\ columns \in [1 .. 3 -> [id : SettingsColumn, title : ColumnTitle]]
          /\ \A i, j \in DOMAIN columns : i # j => columns[i].id # columns[j].id
      BY DEF Settings!Init
    <2>2. columns \in Seq([id : SettingsColumn, title : ColumnTitle]) /\ Len(columns) = 3 /\ DOMAIN columns = 1 .. 3
      BY <2>1, 3 \in Nat, MapIsSeq
    <2> QED
      BY <2>1, <2>2 DEF Settings!Columns, Distinct
  <1>5. members \in Seq(Member)
    <2>1. members = <<>> \/ \E m \in Member : members = <<m>>
      BY DEF Settings!Init
    <2>2. <<>> \in Seq(Member) /\ \A m \in Member : <<m>> \in Seq(Member)
      OBVIOUS
    <2> QED
      BY <2>1, <2>2
  <1>6. /\ info \in Settings!Info /\ info.title # None /\ form = Settings!NoInfo /\ shown = <<>> /\ listed = <<>>
        /\ loading = TRUE /\ unsaved = FALSE /\ failed = FALSE /\ crossed = FALSE /\ together = FALSE
    BY DEF Settings!Init
  <1>7. SettingsTyped
    <2>1. <<>> \in Settings!Columns /\ <<>> \in Seq(Member) /\ Settings!NoInfo \in Settings!Info
      BY DEF Settings!Columns, Settings!NoInfo, Settings!Info
    <2> QED
      BY <1>3, <1>4, <1>5, <1>6, <2>1 DEF SettingsTyped
  <1>8. ASSUME NEW s \in Request
        PROVE  SettingsShape(requests[s]) /\ SettingsWaits(s) /\ SettingsFetches(requests[s])
    <2>1. CASE s = r
      BY <1>2, <1>3, <1>6, <2>1, SettingsIdle DEF SettingsShape, SettingsWaits, SettingsFetches, Goes
    <2>2. CASE s # r
      BY <1>2, <1>3, <1>6, <2>2, SettingsIdle DEF SettingsShape, SettingsWaits, SettingsFetches, Goes
    <2> QED
      BY <2>1, <2>2
  <1>9. Distinct(shown)
    BY <1>6 DEF Distinct
  <1>10. \A s \in Request : requests[s].kind # "removeColumn"
    BY <1>2, <1>3, SettingsIdle
  <1> QED
    BY <1>4, <1>6, <1>7, <1>8, <1>9, <1>10 DEF SettingsInv, FormAgrees, EnoughColumns

LEMMA ReadKeepsSettings ==
  ASSUME SettingsInv, NEW r \in Request, NEW what \in requests[r].left, Settings!Read(r, what)
  PROVE  SettingsInv'
  <1> DEFINE q == requests[r]
             i == IF what = "project" THEN info ELSE q.info
             c == IF what = "columns" THEN columns ELSE q.columns
             m == IF what = "members" THEN members ELSE q.members
  <1>1. /\ requests' = [requests EXCEPT ![r] = [q EXCEPT !.left = q.left \ {what}, !.info = i, !.columns = c, !.members = m]]
        /\ UNCHANGED <<info, columns, held, members, open, loading, form, shown, listed, busy, removing,
                       unheard, crossed, unsaved, failed, renamed, together>>
    BY DEF Settings!Read, Settings!server, Settings!view, Settings!history, SettingsInv, SettingsTyped
  <1>2. PICK n : n = [q EXCEPT !.left = q.left \ {what}, !.info = i, !.columns = c, !.members = m]
    OBVIOUS
  <1>3. q \in SettingsRequests /\ SettingsShape(q) /\ SettingsFetches(q)
    BY DEF SettingsInv, SettingsTyped
  <1>4. i \in Settings!Info /\ c \in Settings!Columns /\ m \in Seq(Member)
    BY <1>3 DEF SettingsInv, SettingsTyped, SettingsRequests
  <1>5. /\ n \in SettingsRequests /\ n.kind = q.kind /\ n.pc = q.pc /\ n.id = q.id /\ n.ok = q.ok
        /\ n.left = q.left \ {what} /\ n.info = i /\ n.columns = c /\ n.members = m
    <2> HIDE DEF i, c, m, q
    <2> QED
      BY <1>2, <1>3, <1>4 DEF SettingsRequests
  <1>6. /\ requests' \in [Request -> SettingsRequests] /\ requests'[r] = n
        /\ \A s \in Request \ {r} : requests'[s] = requests[s]
    BY <1>1, <1>2, <1>5, SettingsSlot DEF SettingsInv
  <1>7. q.kind \in {"load", "members"} /\ (q.kind = "members" => what = "members")
    BY <1>3 DEF SettingsShape
  <1> HIDE DEF q
  <1>8. \A s \in Request : /\ requests'[s].kind = requests[s].kind /\ requests'[s].pc = requests[s].pc
                           /\ requests'[s].id = requests[s].id /\ requests'[s].ok = requests[s].ok
    BY <1>5, <1>6 DEF q
  <1>9. SettingsTyped'
    BY <1>1, <1>6 DEF SettingsInv, SettingsTyped
  <1>10. ASSUME NEW s \in Request
         PROVE  (SettingsShape(requests[s]) /\ SettingsWaits(s) /\ SettingsFetches(requests[s]))'
    <2>1. SettingsWaits(s)'
      BY <1>1, <1>8, WaitsStay DEF SettingsInv
    <2>2. CASE s = r
      <3>1. SettingsShape(n)'
        BY <1>3, <1>5, <1>7 DEF SettingsShape
      <3>2. SettingsFetches(n)'
        BY <1>1, <1>3, <1>5, <1>7 DEF SettingsFetches
      <3> QED
        BY <1>6, <2>1, <2>2, <3>1, <3>2
    <2>3. CASE s # r
      <3>1. requests'[s] = requests[s] /\ SettingsShape(requests[s]) /\ SettingsFetches(requests[s])
        BY <1>6, <2>3 DEF SettingsInv
      <3>2. SettingsShape(requests[s])' /\ SettingsFetches(requests[s])'
        BY <1>1, <3>1 DEF SettingsShape, SettingsFetches
      <3> QED
        BY <2>1, <3>2
    <2> QED
      BY <2>2, <2>3
  <1>11. \A s \in Request : \A k : Gone(s, k)' <=> Gone(s, k)
    BY <1>8 DEF Gone
  <1>12. Distinct(columns)' /\ Distinct(shown)'
    BY <1>1 DEF SettingsInv, Distinct
  <1>13. ColumnsAgree => ColumnsAgree'
    BY <1>1, <1>8, <1>11, ColumnsStay
  <1>14. MembersAgree => MembersAgree'
    BY <1>1, <1>8, <1>11, MembersStay
  <1>15. FormAgrees'
    BY <1>1, <1>8, SettingsFormStays DEF SettingsInv
  <1>16. EnoughColumns'
    BY <1>1, <1>8, EnoughStays DEF SettingsInv
  <1> QED
    BY <1>1, <1>9, <1>10, <1>12, <1>13, <1>14, <1>15, <1>16 DEF SettingsInv

LEMMA MissMembersKeepsSettings ==
  ASSUME SettingsInv, NEW r \in Request, Settings!MissMembers(r)
  PROVE  SettingsInv'
  <1> DEFINE q == requests[r]
  <1>1. /\ q.kind = "load" /\ requests' = [requests EXCEPT ![r] = [q EXCEPT !.left = q.left \ {"members"}]]
        /\ unheard' = unheard \cup {"members"}
        /\ UNCHANGED <<info, columns, held, members, open, loading, form, shown, listed, busy, removing,
                       crossed, unsaved, failed, renamed, together>>
    BY DEF Settings!MissMembers, Settings!server, Settings!view, SettingsInv, SettingsTyped
  <1>2. PICK n : n = [q EXCEPT !.left = q.left \ {"members"}]
    OBVIOUS
  <1>3. q \in SettingsRequests /\ SettingsShape(q) /\ SettingsFetches(q)
    BY DEF SettingsInv, SettingsTyped
  <1>4. /\ n \in SettingsRequests /\ n.kind = q.kind /\ n.pc = q.pc /\ n.id = q.id /\ n.ok = q.ok
        /\ n.left = q.left \ {"members"} /\ n.info = q.info /\ n.columns = q.columns /\ n.members = q.members
    BY <1>2, <1>3 DEF SettingsRequests
  <1>5. /\ requests' \in [Request -> SettingsRequests] /\ requests'[r] = n
        /\ \A s \in Request \ {r} : requests'[s] = requests[s]
    BY <1>1, <1>2, <1>4, SettingsSlot DEF SettingsInv
  <1> HIDE DEF q
  <1>6. \A s \in Request : /\ requests'[s].kind = requests[s].kind /\ requests'[s].pc = requests[s].pc
                           /\ requests'[s].id = requests[s].id /\ requests'[s].ok = requests[s].ok
    BY <1>4, <1>5 DEF q
  <1>7. SettingsTyped'
    BY <1>1, <1>5 DEF SettingsInv, SettingsTyped
  <1>8. ASSUME NEW s \in Request
        PROVE  (SettingsShape(requests[s]) /\ SettingsWaits(s) /\ SettingsFetches(requests[s]))'
    <2>1. SettingsWaits(s)'
      BY <1>1, <1>6, WaitsStay DEF SettingsInv
    <2>2. CASE s = r
      <3>1. SettingsShape(n)'
        BY <1>1, <1>3, <1>4 DEF SettingsShape
      <3>2. SettingsFetches(n)'
        BY <1>1, <1>3, <1>4 DEF SettingsFetches
      <3> QED
        BY <1>5, <2>1, <2>2, <3>1, <3>2
    <2>3. CASE s # r
      <3>1. requests'[s] = requests[s] /\ SettingsShape(requests[s]) /\ SettingsFetches(requests[s])
        BY <1>5, <2>3 DEF SettingsInv
      <3>2. SettingsShape(requests[s])' /\ SettingsFetches(requests[s])'
        BY <1>1, <3>1 DEF SettingsShape, SettingsFetches
      <3> QED
        BY <2>1, <3>2
    <2> QED
      BY <2>2, <2>3
  <1>9. \A s \in Request : \A k : Gone(s, k)' <=> Gone(s, k)
    BY <1>6 DEF Gone
  <1>10. Distinct(columns)' /\ Distinct(shown)'
    BY <1>1 DEF SettingsInv, Distinct
  <1>11. ColumnsAgree => ColumnsAgree'
    BY <1>1, <1>6, <1>9, ColumnsStay
  <1>12. MembersAgree => MembersAgree'
    BY <1>1, <1>6, <1>9, MembersStay
  <1>13. FormAgrees'
    BY <1>1, <1>6, SettingsFormStays DEF SettingsInv
  <1>14. EnoughColumns'
    BY <1>1, <1>6, EnoughStays DEF SettingsInv
  <1> QED
    BY <1>1, <1>7, <1>8, <1>10, <1>11, <1>12, <1>13, <1>14 DEF SettingsInv

LEMMA FetchIsFirst ==
  ASSUME SettingsInv, NEW r \in Request, requests[r].kind = "load", requests' = [requests EXCEPT ![r] = Settings!Idle]
  PROVE  /\ requests' \in [Request -> SettingsRequests] /\ loading /\ ~failed
         /\ \A s \in Request : requests'[s].kind = "none" /\ requests'[s].pc = "idle" /\ requests'[s].left = {}
  <1>1. loading /\ ~failed
    BY DEF SettingsInv, SettingsWaits
  <1>2. /\ requests' \in [Request -> SettingsRequests] /\ requests'[r] = Settings!Idle
        /\ \A s \in Request \ {r} : requests'[s] = requests[s]
    BY SettingsIdle, SettingsSlot DEF SettingsInv
  <1>3. \A s \in Request \ {r} : requests[s].kind = "none"
    <2> TAKE s \in Request \ {r}
    <2>1. requests[s].kind \in {"none", "load"}
      BY <1>1 DEF SettingsInv, SettingsWaits
    <2>2. Goes(requests[r]) = "load" /\ (requests[s].kind = "load" => Goes(requests[s]) = "load")
      BY DEF Goes
    <2>3. requests[s].kind # "load"
      BY <2>2 DEF SettingsInv, SettingsWaits
    <2> QED
      BY <2>1, <2>3
  <1>4. \A s \in Request \ {r} : requests[s].pc = "idle" /\ requests[s].left = {}
    BY <1>3 DEF SettingsInv, SettingsShape
  <1> QED
    BY <1>1, <1>2, <1>3, <1>4, SettingsIdle

LEMMA LandSettingsKeepsSettings ==
  ASSUME SettingsInv, NEW r \in Request, Settings!LandSettings(r)
  PROVE  SettingsInv'
  <1> DEFINE q == requests[r]
  <1>1. /\ q.kind = "load" /\ q.left = {}
        /\ form' = q.info /\ shown' = q.columns /\ listed' = q.members /\ loading' = FALSE
        /\ requests' = [requests EXCEPT ![r] = Settings!Idle]
        /\ UNCHANGED <<info, columns, held, members, open, busy, removing,
                       unheard, crossed, unsaved, failed, renamed, together>>
    BY DEF Settings!LandSettings, Settings!Free, Settings!server, Settings!history
  <1>2. /\ requests' \in [Request -> SettingsRequests] /\ loading /\ ~failed
        /\ \A s \in Request : requests'[s].kind = "none" /\ requests'[s].pc = "idle" /\ requests'[s].left = {}
    BY <1>1, FetchIsFirst
  <1>3. /\ q.info = info /\ q.columns = columns /\ ("members" \notin unheard => q.members = members)
        /\ q \in SettingsRequests
    BY <1>1 DEF SettingsInv, SettingsFetches, SettingsTyped
  <1> HIDE DEF q
  <1>4. SettingsTyped'
    BY <1>1, <1>2, <1>3 DEF SettingsInv, SettingsTyped, SettingsRequests
  <1>5. \A s \in Request : (SettingsShape(requests[s]) /\ SettingsWaits(s) /\ SettingsFetches(requests[s]))'
    BY <1>2 DEF SettingsShape, SettingsWaits, SettingsFetches, Goes
  <1>6. /\ \A s \in Request, k \in {"removeColumn", "removeMember", "invite"} : ~Gone(s, k)'
        /\ GoneColumns' = {}
    BY <1>2 DEF Gone, GoneColumns
  <1>7. Distinct(columns)' /\ Distinct(shown)'
    BY <1>1, <1>3 DEF SettingsInv, Distinct
  <1>8. ColumnsAgree'
    <2>1. columns' = columns /\ shown' = columns
      BY <1>1, <1>3
    <2>2. DOMAIN columns \subseteq Int /\ \A i, j \in DOMAIN columns : columns[i].id = columns[j].id => i = j
      BY DEF SettingsInv, SettingsTyped, Settings!Columns, Distinct
    <2>3. InOrder(columns', shown')
      BY <2>1, <2>2 DEF InOrder
    <2>4. /\ Settings!Ids(columns') = Settings!Ids(shown') \ GoneColumns'
          /\ \A i \in DOMAIN shown', j \in DOMAIN columns' :
                shown'[i].id = columns'[j].id /\ shown'[i] # columns'[j] => shown'[i].id \in renamed'
      BY <1>6, <2>1, <2>2
    <2> QED
      BY <2>3, <2>4 DEF ColumnsAgree
  <1>9. MembersAgree'
    BY <1>1, <1>3, <1>6 DEF MembersAgree
  <1>10. FormAgrees'
    BY <1>1, <1>3 DEF FormAgrees, SettingsInv
  <1>11. EnoughColumns'
    BY <1>1, <1>2 DEF EnoughColumns, SettingsInv
  <1> QED
    BY <1>1, <1>2, <1>4, <1>5, <1>7, <1>8, <1>9, <1>10, <1>11 DEF SettingsInv

LEMMA FailLoadKeepsSettings ==
  ASSUME SettingsInv, NEW r \in Request, Settings!FailLoad(r)
  PROVE  SettingsInv'
  <1>1. /\ requests[r].kind = "load" /\ loading' = FALSE /\ failed' = TRUE /\ unsaved' = TRUE
        /\ requests' = [requests EXCEPT ![r] = Settings!Idle]
        /\ UNCHANGED <<info, columns, held, members, open, form, shown, listed, busy, removing,
                       unheard, crossed, renamed, together>>
    BY DEF Settings!FailLoad, Settings!Free, Settings!server
  <1>2. /\ requests' \in [Request -> SettingsRequests] /\ loading /\ ~failed
        /\ \A s \in Request : requests'[s].kind = "none" /\ requests'[s].pc = "idle" /\ requests'[s].left = {}
    BY <1>1, FetchIsFirst
  <1>3. SettingsTyped'
    BY <1>1, <1>2 DEF SettingsInv, SettingsTyped
  <1>4. \A s \in Request : (SettingsShape(requests[s]) /\ SettingsWaits(s) /\ SettingsFetches(requests[s]))'
    BY <1>2 DEF SettingsShape, SettingsWaits, SettingsFetches, Goes
  <1>5. Distinct(columns)' /\ Distinct(shown)' /\ shown' = <<>>
    BY <1>1, <1>2 DEF SettingsInv, Distinct
  <1>6. FormAgrees' /\ EnoughColumns'
    BY <1>1, <1>2 DEF FormAgrees, EnoughColumns, SettingsInv
  <1> QED
    BY <1>1, <1>3, <1>4, <1>5, <1>6 DEF SettingsInv

\* What is typed into the form, and what others do.
LEMMA TypeKeepsSettings ==
  ASSUME SettingsInv, NEW f \in Settings!Info, Settings!Type(f)
  PROVE  SettingsInv'
  <1>1. /\ ~loading /\ f.title # None /\ form' = f /\ unsaved' = TRUE
        /\ UNCHANGED <<info, columns, held, members, open, loading, shown, listed, busy, removing, requests,
                       unheard, crossed, failed, renamed, together>>
    BY DEF Settings!Type, Settings!Page, Settings!server
  <1>2. SettingsTyped'
    BY <1>1 DEF SettingsInv, SettingsTyped
  <1>3. ASSUME NEW s \in Request
        PROVE  (SettingsShape(requests[s]) /\ SettingsWaits(s) /\ SettingsFetches(requests[s]))'
    <2>1. SettingsShape(requests[s]) /\ SettingsWaits(s) /\ SettingsFetches(requests[s])
      BY DEF SettingsInv
    <2>2. SettingsWaits(s)'
      BY <1>1, <2>1, WaitsStay
    <2>3. SettingsShape(requests[s])' /\ SettingsFetches(requests[s])'
      BY <1>1, <2>1 DEF SettingsShape, SettingsFetches
    <2> QED
      BY <2>2, <2>3
  <1>4. \A s, k : Gone(s, k)' <=> Gone(s, k)
    BY <1>1 DEF Gone
  <1>5. Distinct(columns)' /\ Distinct(shown)'
    BY <1>1 DEF SettingsInv, Distinct
  <1>6. ColumnsAgree => ColumnsAgree'
    BY <1>1, <1>4, ColumnsStay
  <1>7. MembersAgree => MembersAgree'
    BY <1>1, <1>4, MembersStay
  <1>8. FormAgrees'
    BY <1>1 DEF FormAgrees, SettingsInv
  <1>9. EnoughColumns'
    BY <1>1, EnoughStays DEF SettingsInv
  <1> QED
    BY <1>1, <1>2, <1>3, <1>5, <1>6, <1>7, <1>8, <1>9 DEF SettingsInv

LEMMA OthersKeepSettings ==
  ASSUME SettingsInv,
         UNCHANGED <<info, columns, members, open, loading, form, shown, listed, busy, removing, requests,
                     unheard, crossed, unsaved, failed, renamed, together>>
  PROVE  SettingsInv'
  <1>1. SettingsTyped'
    BY DEF SettingsInv, SettingsTyped
  <1>2. ASSUME NEW s \in Request
        PROVE  (SettingsShape(requests[s]) /\ SettingsWaits(s) /\ SettingsFetches(requests[s]))'
    <2>1. SettingsShape(requests[s]) /\ SettingsWaits(s) /\ SettingsFetches(requests[s])
      BY DEF SettingsInv
    <2>2. SettingsWaits(s)'
      BY <2>1, WaitsStay
    <2>3. SettingsShape(requests[s])' /\ SettingsFetches(requests[s])'
      BY <2>1 DEF SettingsShape, SettingsFetches
    <2> QED
      BY <2>2, <2>3
  <1>3. \A s, k : Gone(s, k)' <=> Gone(s, k)
    BY DEF Gone
  <1>4. Distinct(columns)' /\ Distinct(shown)'
    BY DEF SettingsInv, Distinct
  <1>5. ColumnsAgree => ColumnsAgree'
    BY <1>3, ColumnsStay
  <1>6. MembersAgree => MembersAgree'
    BY <1>3, MembersStay
  <1>7. FormAgrees'
    BY DEF FormAgrees, SettingsInv
  <1>8. EnoughColumns'
    BY EnoughStays DEF SettingsInv
  <1> QED
    BY <1>1, <1>2, <1>4, <1>5, <1>6, <1>7, <1>8 DEF SettingsInv

LEMMA ColumnIn ==
  ASSUME NEW S, NEW list \in Seq(S), NEW i \in DOMAIN list
  PROVE  list[i] \in S
  OBVIOUS

LEMMA UpdateColumnNameKeepsSettings ==
  ASSUME SettingsInv, NEW i \in DOMAIN shown, NEW t \in ColumnTitle, Settings!UpdateColumnName(i, t)
  PROVE  SettingsInv'
  <1>1. /\ ~loading /\ shown' = [shown EXCEPT ![i] = [shown[i] EXCEPT !.title = t]]
        /\ renamed' = renamed \cup {shown[i].id}
        /\ UNCHANGED <<info, columns, held, members, open, loading, form, listed, busy, removing, requests,
                       unheard, crossed, unsaved, failed, together>>
    BY DEF Settings!UpdateColumnName, Settings!Page, Settings!server
  <1>2. /\ shown \in Seq([id : SettingsColumn, title : ColumnTitle]) /\ Len(shown) \in Nat
        /\ DOMAIN shown = 1 .. Len(shown) /\ shown # <<>>
    BY DEF SettingsInv, SettingsTyped, Settings!Columns
  <1>3. PICK e : e = [shown[i] EXCEPT !.title = t]
    OBVIOUS
  <1>4. e \in [id : SettingsColumn, title : ColumnTitle] /\ e.id = shown[i].id
    <2>1. shown[i] \in [id : SettingsColumn, title : ColumnTitle]
      BY <1>2, ColumnIn
    <2> QED
      BY <1>3, <2>1
  <1>5. /\ shown' \in Seq([id : SettingsColumn, title : ColumnTitle]) /\ Len(shown') = Len(shown)
        /\ DOMAIN shown' = DOMAIN shown
        /\ \A k \in DOMAIN shown : shown'[k].id = shown[k].id /\ (k # i => shown'[k] = shown[k])
    <2>1. shown' = [shown EXCEPT ![i] = e]
      BY <1>1, <1>3
    <2>2. /\ shown' \in Seq([id : SettingsColumn, title : ColumnTitle]) /\ Len(shown') = Len(shown)
      BY <1>2, <1>4, <2>1, ExceptSeq
    <2> QED
      BY <1>2, <1>4, <2>1, <2>2
  <1>6. SettingsTyped'
    BY <1>1, <1>5 DEF SettingsInv, SettingsTyped, Settings!Columns
  <1>7. ASSUME NEW s \in Request
        PROVE  (SettingsShape(requests[s]) /\ SettingsWaits(s) /\ SettingsFetches(requests[s]))'
    <2>1. SettingsShape(requests[s]) /\ SettingsWaits(s) /\ SettingsFetches(requests[s])
      BY DEF SettingsInv
    <2>2. SettingsWaits(s)'
      BY <1>1, <2>1, WaitsStay
    <2>3. SettingsShape(requests[s])' /\ SettingsFetches(requests[s])'
      BY <1>1, <2>1 DEF SettingsShape, SettingsFetches
    <2> QED
      BY <2>2, <2>3
  <1>8. \A s, k : Gone(s, k)' <=> Gone(s, k)
    BY <1>1 DEF Gone
  <1>9. Distinct(columns)' /\ Distinct(shown)'
    BY <1>1, <1>5 DEF SettingsInv, Distinct
  <1>10. ASSUME ColumnsAgree PROVE ColumnsAgree'
    <2>1. GoneColumns' = GoneColumns
      BY <1>1, <1>8 DEF GoneColumns
    <2>2. Settings!Ids(shown)' = Settings!Ids(shown) /\ Settings!Ids(columns)' = Settings!Ids(columns)
      BY <1>1, <1>5 DEF Settings!Ids
    <2>3. InOrder(columns, shown)'
      BY <1>1, <1>5, <1>10 DEF ColumnsAgree, InOrder
    <2>4. ASSUME NEW k \in DOMAIN shown', NEW j \in DOMAIN columns',
                 shown'[k].id = columns'[j].id, shown'[k] # columns'[j]
          PROVE  shown'[k].id \in renamed'
      BY <1>1, <1>5, <1>10, <2>4 DEF ColumnsAgree
    <2> QED
      BY <1>1, <1>10, <2>1, <2>2, <2>3, <2>4 DEF ColumnsAgree
  <1>11. MembersAgree => MembersAgree'
    BY <1>1, <1>8, MembersStay
  <1>12. FormAgrees'
    BY <1>1 DEF FormAgrees, SettingsInv
  <1>13. EnoughColumns'
    BY <1>1, <1>5, EnoughStays DEF SettingsInv
  <1>14. ~failed
    BY <1>2 DEF SettingsInv
  <1> QED
    BY <1>1, <1>6, <1>7, <1>9, <1>10, <1>11, <1>12, <1>13, <1>14 DEF SettingsInv

\* When one request changes, or becomes another, all still wait for each other.
SettingsFits(r, n) ==
    /\ requests'[r] = n /\ \A s \in Request \ {r} : requests'[s] = requests[s]
    /\ loading' = loading /\ (crossed => crossed') /\ (together => together')
    /\ n.kind = "load" => loading
    /\ n.kind \notin {"none", "load"} => ~loading
    /\ Goes(n) \in {"info", "invite", "removeMember"} => Goes(n) \in busy'
    /\ \A s \in Request \ {r} :
          /\ Goes(requests[s]) \in {"info", "invite", "removeMember"} => Goes(requests[s]) \in busy'
          /\ Goes(requests[s]) = Goes(n) => Goes(n) \notin {"load", "info", "invite", "removeMember"}
          /\ ~crossed' => ~({Goes(n), Goes(requests[s])} = {"invite", "removeMember"})
          /\ ~together' => ~(n.kind = "removeColumn" /\ requests[s].kind = "removeColumn")

LEMMA WaitsChange ==
  ASSUME SettingsInv, NEW r \in Request, NEW n, SettingsFits(r, n), NEW s \in Request
  PROVE  SettingsWaits(s)'
  <1> USE DEF SettingsFits
  <1>1. \A t \in Request : Goes(requests[t])' = Goes(requests'[t])
    BY DEF Goes
  <1>2. CASE s = r
    <2>1. /\ requests'[s].kind = "load" => loading'
          /\ requests'[s].kind \notin {"none", "load"} => ~loading'
          /\ Goes(requests'[s]) \in {"info", "invite", "removeMember"} => Goes(requests'[s]) \in busy'
      BY <1>2
    <2>2. ASSUME NEW t \in Request \ {s}
          PROVE  /\ Goes(requests'[t]) = Goes(requests'[s]) => Goes(requests'[s]) \notin {"load", "info", "invite", "removeMember"}
                 /\ ~crossed' => ~({Goes(requests'[s]), Goes(requests'[t])} = {"invite", "removeMember"})
                 /\ ~together' => ~(requests'[s].kind = "removeColumn" /\ requests'[t].kind = "removeColumn")
      <3>1. t \in Request \ {r} /\ requests'[t] = requests[t] /\ requests'[s] = n
        BY <1>2, <2>2
      <3> QED
        BY <3>1
    <2> QED
      BY <1>1, <2>1, <2>2 DEF SettingsWaits
  <1>3. CASE s # r
    <2>1. SettingsWaits(s) /\ requests'[s] = requests[s]
      BY <1>3 DEF SettingsInv
    <2>2. /\ requests'[s].kind = "load" => loading'
          /\ requests'[s].kind \notin {"none", "load"} => ~loading'
          /\ Goes(requests'[s]) \in {"info", "invite", "removeMember"} => Goes(requests'[s]) \in busy'
      BY <1>3, <2>1 DEF SettingsWaits
    <2>3. ASSUME NEW t \in Request \ {s}
          PROVE  /\ Goes(requests'[t]) = Goes(requests'[s]) => Goes(requests'[s]) \notin {"load", "info", "invite", "removeMember"}
                 /\ ~crossed' => ~({Goes(requests'[s]), Goes(requests'[t])} = {"invite", "removeMember"})
                 /\ ~together' => ~(requests'[s].kind = "removeColumn" /\ requests'[t].kind = "removeColumn")
      <3>1. CASE t = r
        <4>1. requests'[t] = n /\ s \in Request \ {r}
          BY <1>3, <3>1
        <4>2. {Goes(n), Goes(requests[s])} = {Goes(requests[s]), Goes(n)}
          OBVIOUS
        <4> QED
          BY <2>1, <4>1, <4>2
      <3>2. CASE t # r
        <4>1. requests'[t] = requests[t]
          BY <3>2
        <4>2. /\ Goes(requests[t]) = Goes(requests[s]) => Goes(requests[s]) \notin {"load", "info", "invite", "removeMember"}
              /\ ~crossed => ~({Goes(requests[s]), Goes(requests[t])} = {"invite", "removeMember"})
              /\ ~together => ~(requests[s].kind = "removeColumn" /\ requests[t].kind = "removeColumn")
          BY <2>1 DEF SettingsWaits
        <4> QED
          BY <2>1, <4>1, <4>2
      <3> QED
        BY <3>1, <3>2
    <2> QED
      BY <1>1, <2>2, <2>3 DEF SettingsWaits
  <1> QED
    BY <1>2, <1>3

\* A page that has loaded waits for no fetch of everything.
LEMMA FetchedBefore ==
  ASSUME SettingsInv, ~loading, NEW s \in Request
  PROVE  requests[s].kind # "load"
  BY DEF SettingsInv, SettingsWaits

LEMMA StartKeepsSettings ==
  ASSUME SettingsInv, NEW r \in Request, NEW id \in SettingsColumn \cup Member \cup {None},
         NEW k \in {"info", "saveColumn", "addColumn", "close", "invite", "removeMember"},
         k = "invite" => id \in Member, Settings!Start(r, k, id)
  PROVE  SettingsInv'
  <1> DEFINE f == IF k = "info" THEN form ELSE Settings!Idle.info
  <1>1. /\ ~loading /\ (k = "saveColumn" \/ k \notin busy) /\ requests[r].pc = "idle"
        /\ requests' = [requests EXCEPT ![r] = [Settings!Idle EXCEPT !.kind = k, !.pc = "sent", !.id = id, !.info = f]]
        /\ busy' = busy \cup ({k} \ {"saveColumn"})
        /\ unsaved' = (unsaved /\ k # "info")
        /\ crossed' = \/ crossed
                      \/ k = "removeMember" /\ \E s \in Request : requests[s].kind \in {"invite", "members"}
                      \/ k = "invite" /\ \E s \in Request : requests[s].kind = "removeMember"
        /\ UNCHANGED <<info, columns, held, members, open, loading, form, shown, listed, removing,
                       unheard, failed, renamed, together>>
    BY DEF Settings!Start, Settings!Offered, Settings!Page, Settings!Send, Settings!server
  <1>2. f \in Settings!Info /\ k \in Settings!Kinds
    BY SettingsIdle DEF SettingsInv, SettingsTyped, SettingsRequests, Settings!Kinds
  <1>3. PICK n : n = [Settings!Idle EXCEPT !.kind = k, !.pc = "sent", !.id = id, !.info = f]
    OBVIOUS
  <1>4. /\ n \in SettingsRequests /\ n.kind = k /\ n.pc = "sent" /\ n.id = id /\ n.info = f
        /\ n.left = {} /\ ~n.ok
    BY <1>2, <1>3, SettingsIdle DEF SettingsRequests
  <1>5. /\ requests' \in [Request -> SettingsRequests] /\ requests'[r] = n
        /\ \A s \in Request \ {r} : requests'[s] = requests[s]
    BY <1>1, <1>3, <1>4, SettingsSlot DEF SettingsInv
  <1>6. requests[r].kind = "none"
    BY <1>1 DEF SettingsInv, SettingsShape
  <1>7. k = "info" => f = form
    OBVIOUS
  <1> HIDE DEF f
  <1>8. SettingsTyped'
    BY <1>1, <1>5 DEF SettingsInv, SettingsTyped
  <1>9. Goes(n) = k
    BY <1>4 DEF Goes
  <1>10. ASSUME NEW s \in Request PROVE SettingsWaits(s)'
    <2>1. \A t \in Request : Goes(requests[t]) \in {"info", "invite", "removeMember"} => Goes(requests[t]) \in busy
      BY DEF SettingsInv, SettingsWaits
    <2>2. \A t \in Request \ {r} : Goes(requests[t]) \in {"info", "invite", "removeMember"} => Goes(requests[t]) \in busy'
      BY <1>1, <2>1
    <2>3. k \in {"info", "invite", "removeMember"} => k \in busy'
      BY <1>1
    <2>4. \A t \in Request \ {r} : Goes(requests[t]) = k => k \notin {"load", "info", "invite", "removeMember"}
      BY <1>1, <2>1
    <2>5. ASSUME NEW t \in Request \ {r}, ~crossed', {k, Goes(requests[t])} = {"invite", "removeMember"}
          PROVE  FALSE
      <3>1. \/ k = "invite" /\ Goes(requests[t]) = "removeMember"
            \/ k = "removeMember" /\ Goes(requests[t]) = "invite"
        BY <2>5
      <3>2. \/ k = "invite" /\ requests[t].kind = "removeMember"
            \/ k = "removeMember" /\ requests[t].kind \in {"invite", "members"}
        BY <3>1 DEF Goes
      <3> QED
        BY <1>1, <2>5, <3>2
    <2>6. crossed => crossed'
      BY <1>1
    <2>7. n.kind # "load" /\ n.kind # "removeColumn"
      BY <1>4
    <2> QED
      <3>1. SettingsFits(r, n)
        BY <1>1, <1>5, <1>9, <2>2, <2>3, <2>4, <2>5, <2>6, <2>7 DEF SettingsFits
      <3> QED
        BY <3>1, WaitsChange
  <1>11. ASSUME NEW s \in Request PROVE SettingsShape(requests[s])' /\ SettingsFetches(requests[s])'
    <2>1. CASE s = r
      <3>1. SettingsShape(n)'
        BY <1>4 DEF SettingsShape
      <3>2. k = "info" /\ ~failed => n.info.title # None
        BY <1>1, <1>4, <1>7 DEF SettingsInv, FormAgrees
      <3>3. SettingsFetches(n)'
        BY <1>1, <1>4, <1>7, <3>2 DEF SettingsFetches
      <3> QED
        BY <1>5, <2>1, <3>1, <3>3
    <2>2. CASE s # r
      <3>1. requests'[s] = requests[s] /\ SettingsShape(requests[s]) /\ SettingsFetches(requests[s])
        BY <1>5, <2>2 DEF SettingsInv
      <3>2. requests[s].kind # "load"
        BY <1>1, FetchedBefore
      <3>3. requests[s].kind = "info" => unsaved' = unsaved
        <4>1. requests[s].kind = "info" => "info" \in busy
          BY DEF SettingsInv, SettingsWaits, Goes
        <4> QED
          BY <1>1, <4>1 DEF SettingsInv, SettingsTyped
      <3>4. SettingsShape(requests[s])' /\ SettingsFetches(requests[s])'
        BY <1>1, <3>1, <3>2, <3>3 DEF SettingsShape, SettingsFetches
      <3> QED
        BY <3>4
    <2> QED
      BY <2>1, <2>2
  <1>12. \A s \in Request : \A x : Gone(s, x)' <=> Gone(s, x)
    <2>1. \A x : ~Gone(r, x) /\ ~Gone(r, x)'
      BY <1>1, <1>4, <1>5 DEF Gone
    <2>2. \A s \in Request \ {r} : \A x : Gone(s, x)' <=> Gone(s, x)
      BY <1>5 DEF Gone
    <2> QED
      BY <2>1, <2>2
  <1>13. \A s \in Request : \A x : Gone(s, x) => requests'[s].id = requests[s].id
    <2>1. \A x : ~Gone(r, x)
      BY <1>1 DEF Gone
    <2> QED
      BY <1>5, <2>1
  <1>14. Distinct(columns)' /\ Distinct(shown)'
    BY <1>1 DEF SettingsInv, Distinct
  <1>15. ColumnsAgree => ColumnsAgree'
    BY <1>1, <1>12, <1>13, ColumnsStay
  <1>16. MembersAgree => MembersAgree'
    <2>1. \A s \in Request : requests[s].kind = "members" => requests'[s].kind = "members"
      BY <1>5, <1>6
    <2> QED
      BY <1>1, <1>12, <1>13, <2>1, MembersStay
  <1>17. FormAgrees'
    <2>1. CASE k = "info"
      <3>1. requests'[r].kind = "info" /\ requests'[r].pc = "sent"
        BY <1>4, <1>5, <2>1
      <3> QED
        BY <1>1, <3>1 DEF FormAgrees, SettingsInv
    <2>2. CASE k # "info"
      <3>1. unsaved' = unsaved
        BY <1>1, <2>2 DEF SettingsInv, SettingsTyped
      <3>2. \A s \in Request : requests[s].kind = "info" /\ requests[s].pc = "sent"
               => requests'[s].kind = "info" /\ requests'[s].pc = "sent"
        BY <1>5, <1>6
      <3> QED
        BY <1>1, <3>1, <3>2, SettingsFormStays DEF SettingsInv
    <2> QED
      BY <2>1, <2>2
  <1>18. EnoughColumns'
    <2>1. \A s \in Request : requests'[s].kind = "removeColumn" /\ requests'[s].pc = "sent"
               => requests[s].kind = "removeColumn" /\ requests[s].pc = "sent"
      BY <1>4, <1>5
    <2> QED
      BY <1>1, <2>1, EnoughStays DEF SettingsInv
  <1> QED
    BY <1>1, <1>8, <1>10, <1>11, <1>14, <1>15, <1>16, <1>17, <1>18 DEF SettingsInv

LEMMA RemoveColumnKeepsSettings ==
  ASSUME SettingsInv, NEW r \in Request, NEW id \in SettingsColumn, Settings!RemoveColumn(r, id)
  PROVE  SettingsInv'
  <1>1. /\ ~loading /\ Len(shown) > 2 /\ requests[r].pc = "idle"
        /\ requests' = [requests EXCEPT ![r] =
              [Settings!Idle EXCEPT !.kind = "removeColumn", !.pc = "sent", !.id = id, !.info = Settings!Idle.info]]
        /\ together' = (together \/ \E s \in Request : requests[s].kind = "removeColumn")
        /\ UNCHANGED <<info, columns, held, members, open, loading, form, shown, listed, busy,
                       unheard, crossed, unsaved, failed, renamed>>
    BY DEF Settings!RemoveColumn, Settings!RemoveOffered, Settings!Page, Settings!Send, Settings!server
  <1>2. "removeColumn" \in Settings!Kinds /\ Settings!Idle.info \in Settings!Info
    BY SettingsIdle DEF SettingsRequests, Settings!Kinds
  <1>3. PICK n : n = [Settings!Idle EXCEPT !.kind = "removeColumn", !.pc = "sent", !.id = id, !.info = Settings!Idle.info]
    OBVIOUS
  <1>4. /\ n \in SettingsRequests /\ n.kind = "removeColumn" /\ n.pc = "sent" /\ n.id = id
        /\ n.left = {} /\ ~n.ok
    BY <1>2, <1>3, SettingsIdle DEF SettingsRequests
  <1>5. /\ requests' \in [Request -> SettingsRequests] /\ requests'[r] = n
        /\ \A s \in Request \ {r} : requests'[s] = requests[s]
    BY <1>1, <1>3, <1>4, SettingsSlot DEF SettingsInv
  <1>6. requests[r].kind = "none"
    BY <1>1 DEF SettingsInv, SettingsShape
  <1>7. SettingsTyped'
    BY <1>1, <1>5 DEF SettingsInv, SettingsTyped
  <1>8. Goes(n) = "removeColumn"
    BY <1>4 DEF Goes
  <1>9. ASSUME NEW s \in Request PROVE SettingsWaits(s)'
    <2>1. \A t \in Request : Goes(requests[t]) \in {"info", "invite", "removeMember"} => Goes(requests[t]) \in busy'
      BY <1>1 DEF SettingsInv, SettingsWaits
    <2>2. \A t \in Request \ {r} : ~({Goes(n), Goes(requests[t])} = {"invite", "removeMember"})
      BY <1>8
    <2> QED
      <3>1. SettingsFits(r, n)
        BY <1>1, <1>4, <1>5, <1>8, <2>1, <2>2 DEF SettingsFits
      <3> QED
        BY <3>1, WaitsChange
  <1>10. ASSUME NEW s \in Request PROVE SettingsShape(requests[s])' /\ SettingsFetches(requests[s])'
    <2>1. CASE s = r
      <3>1. SettingsShape(n)' /\ SettingsFetches(n)'
        BY <1>4 DEF SettingsShape, SettingsFetches
      <3> QED
        BY <1>5, <2>1, <3>1
    <2>2. CASE s # r
      <3>1. requests'[s] = requests[s] /\ SettingsShape(requests[s]) /\ SettingsFetches(requests[s])
        BY <1>5, <2>2 DEF SettingsInv
      <3>2. SettingsShape(requests[s])' /\ SettingsFetches(requests[s])'
        BY <1>1, <3>1 DEF SettingsShape, SettingsFetches
      <3> QED
        BY <3>2
    <2> QED
      BY <2>1, <2>2
  <1>11. \A s \in Request : \A x : Gone(s, x)' <=> Gone(s, x)
    <2>1. \A x : ~Gone(r, x) /\ ~Gone(r, x)'
      BY <1>1, <1>4, <1>5 DEF Gone
    <2>2. \A s \in Request \ {r} : \A x : Gone(s, x)' <=> Gone(s, x)
      BY <1>5 DEF Gone
    <2> QED
      BY <2>1, <2>2
  <1>12. \A s \in Request : \A x : Gone(s, x) => requests'[s].id = requests[s].id
    <2>1. \A x : ~Gone(r, x)
      BY <1>1 DEF Gone
    <2> QED
      BY <1>5, <2>1
  <1>13. Distinct(columns)' /\ Distinct(shown)'
    BY <1>1 DEF SettingsInv, Distinct
  <1>14. ColumnsAgree => ColumnsAgree'
    BY <1>1, <1>11, <1>12, ColumnsStay
  <1>15. MembersAgree => MembersAgree'
    <2>1. \A s \in Request : requests[s].kind = "members" => requests'[s].kind = "members"
      BY <1>5, <1>6
    <2> QED
      BY <1>1, <1>11, <1>12, <2>1, MembersStay
  <1>16. FormAgrees'
    <2>1. \A s \in Request : requests[s].kind = "info" /\ requests[s].pc = "sent"
               => requests'[s].kind = "info" /\ requests'[s].pc = "sent"
      BY <1>5, <1>6
    <2> QED
      BY <1>1, <2>1, SettingsFormStays DEF SettingsInv
  <1>17. EnoughColumns'
    <2>1. together => together'
      BY <1>1
    <2> QED
      BY <1>1, <2>1 DEF EnoughColumns, SettingsInv
  <1> QED
    BY <1>1, <1>7, <1>9, <1>10, <1>13, <1>14, <1>15, <1>16, <1>17 DEF SettingsInv

\* A flag stays set for what is still in flight when that of another is cleared.
LEMMA StillBusy ==
  ASSUME SettingsInv, NEW r \in Request,
         NEW k, k = Goes(requests[r]) \/ k \notin {"info", "invite", "removeMember"}, busy' = busy \ {k},
         NEW s \in Request \ {r}, Goes(requests[s]) \in {"info", "invite", "removeMember"}
  PROVE  Goes(requests[s]) \in busy'
  <1>1. Goes(requests[s]) \in busy
    BY DEF SettingsInv, SettingsWaits
  <1>2. Goes(requests[s]) # Goes(requests[r])
    BY DEF SettingsInv, SettingsWaits
  <1> QED
    BY <1>1, <1>2

LEMMA LandMembersKeepsSettings ==
  ASSUME SettingsInv, NEW r \in Request, Settings!LandMembers(r)
  PROVE  SettingsInv'
  <1> DEFINE q == requests[r]
  <1>1. /\ q.kind = "members" /\ q.left = {} /\ listed' = q.members /\ busy' = busy \ {"invite"}
        /\ requests' = [requests EXCEPT ![r] = Settings!Idle]
        /\ UNCHANGED <<info, columns, held, members, open, loading, form, shown, removing,
                       unheard, crossed, unsaved, failed, renamed, together>>
    BY DEF Settings!LandMembers, Settings!Free, Settings!Done, Settings!server, Settings!history
  <1>2. q \in SettingsRequests /\ SettingsShape(q) /\ SettingsWaits(r) /\ SettingsFetches(q)
    BY DEF SettingsInv, SettingsTyped
  <1>3. /\ requests' \in [Request -> SettingsRequests] /\ requests'[r] = Settings!Idle
        /\ \A s \in Request \ {r} : requests'[s] = requests[s]
    BY <1>1, SettingsIdle, SettingsSlot DEF SettingsInv
  <1>4. Goes(q) = "invite" /\ Goes(Settings!Idle) = "none" /\ ~loading /\ q.pc = "sent"
    BY <1>1, <1>2, SettingsIdle DEF Goes, SettingsWaits, SettingsShape
  <1>5. ~crossed => \A s \in Request \ {r} : requests[s].kind # "removeMember"
    BY <1>2, <1>4 DEF SettingsWaits, Goes
  <1>6. SettingsTyped'
    BY <1>1, <1>2, <1>3 DEF SettingsInv, SettingsTyped, SettingsRequests
  <1>7. ASSUME NEW s \in Request PROVE SettingsWaits(s)'
    <2>1. \A t \in Request \ {r} : Goes(requests[t]) \in {"info", "invite", "removeMember"} => Goes(requests[t]) \in busy'
      BY <1>1, <1>4, StillBusy
    <2>2. \A t : ~({"none", t} = {"invite", "removeMember"})
      OBVIOUS
    <2>3. SettingsFits(r, Settings!Idle)
      BY <1>1, <1>3, <1>4, <2>1, <2>2, SettingsIdle DEF SettingsFits
    <2> QED
      BY <2>3, WaitsChange
  <1>8. ASSUME NEW s \in Request PROVE SettingsShape(requests[s])' /\ SettingsFetches(requests[s])'
    <2>1. CASE s = r
      BY <1>3, <2>1, SettingsIdle DEF SettingsShape, SettingsFetches
    <2>2. CASE s # r
      <3>1. requests'[s] = requests[s] /\ SettingsShape(requests[s]) /\ SettingsFetches(requests[s])
        BY <1>3, <2>2 DEF SettingsInv
      <3>2. SettingsShape(requests[s])' /\ SettingsFetches(requests[s])'
        BY <1>1, <3>1 DEF SettingsShape, SettingsFetches
      <3> QED
        BY <3>2
    <2> QED
      BY <2>1, <2>2
  <1>9. \A s \in Request : \A x : Gone(s, x)' <=> Gone(s, x)
    <2>1. \A x : ~Gone(r, x) /\ ~Gone(r, x)'
      BY <1>3, <1>4, SettingsIdle DEF Gone
    <2>2. \A s \in Request \ {r} : \A x : Gone(s, x)' <=> Gone(s, x)
      BY <1>3 DEF Gone
    <2> QED
      BY <2>1, <2>2
  <1>10. Distinct(columns)' /\ Distinct(shown)'
    BY <1>1 DEF SettingsInv, Distinct
  <1>11. ColumnsAgree => ColumnsAgree'
    <2>1. \A s \in Request : \A x : Gone(s, x) => requests'[s].id = requests[s].id
      <3>1. \A x : ~Gone(r, x)
        BY <1>4 DEF Gone
      <3> QED
        BY <1>3, <3>1
    <2> QED
      BY <1>1, <1>9, <2>1, ColumnsStay
  <1>12. MembersAgree'
    <2> SUFFICES ASSUME "members" \notin unheard', ~crossed'
                 PROVE  /\ \A s \in Request : ~Gone(s, "removeMember")'
                        /\ listed' = members'
      BY DEF MembersAgree
    <2>1. listed' = members'
      BY <1>1, <1>2 DEF SettingsFetches
    <2>2. \A s \in Request : ~Gone(s, "removeMember")'
      BY <1>1, <1>3, <1>5, SettingsIdle DEF Gone
    <2> QED
      BY <2>1, <2>2
  <1>13. FormAgrees'
    <2>1. \A s \in Request : requests[s].kind = "info" /\ requests[s].pc = "sent"
               => requests'[s].kind = "info" /\ requests'[s].pc = "sent"
      BY <1>1, <1>3
    <2> QED
      BY <1>1, <2>1, SettingsFormStays DEF SettingsInv
  <1>14. EnoughColumns'
    <2>1. \A s \in Request : requests'[s].kind = "removeColumn" /\ requests'[s].pc = "sent"
               => requests[s].kind = "removeColumn" /\ requests[s].pc = "sent"
      BY <1>3, SettingsIdle
    <2> QED
      BY <1>1, <2>1, EnoughStays DEF SettingsInv
  <1> QED
    BY <1>1, <1>6, <1>7, <1>8, <1>10, <1>11, <1>12, <1>13, <1>14 DEF SettingsInv

LEMMA FailKeepsSettings ==
  ASSUME SettingsInv, NEW r \in Request, Settings!Fail(r)
  PROVE  SettingsInv'
  <1> DEFINE q == requests[r]
             untold == CASE q.kind = "removeColumn" /\ q.ok -> {"columns"}
                         [] q.kind \in {"invite", "removeMember"} /\ q.ok -> {"members"}
                         [] q.kind = "members" -> {"members"}
                         [] OTHER -> {}
  <1>1. /\ q.kind \notin {"none", "load"} /\ busy' = busy \ {Goes(q)}
        /\ requests' = [requests EXCEPT ![r] = Settings!Idle]
        /\ unheard' = unheard \cup untold
        /\ unsaved' = (unsaved \/ q.kind = "info")
        /\ UNCHANGED <<info, columns, held, members, open, loading, form, shown, listed,
                       crossed, failed, renamed, together>>
    BY DEF Settings!Fail, Settings!Free, Settings!Done, Goes, Settings!server
  <1>2. q \in SettingsRequests /\ SettingsShape(q) /\ SettingsWaits(r) /\ SettingsFetches(q)
    BY DEF SettingsInv, SettingsTyped
  <1>3. /\ requests' \in [Request -> SettingsRequests] /\ requests'[r] = Settings!Idle
        /\ \A s \in Request \ {r} : requests'[s] = requests[s]
    BY <1>1, SettingsIdle, SettingsSlot DEF SettingsInv
  <1>4. Goes(Settings!Idle) = "none" /\ ~loading
    BY <1>1, <1>2, SettingsIdle DEF Goes, SettingsWaits
  <1>5. /\ q.kind = "removeColumn" /\ q.ok => "columns" \in untold
        /\ q.kind \in {"invite", "removeMember"} /\ q.ok => "members" \in untold
        /\ q.kind = "members" => "members" \in untold
    OBVIOUS
  <1> HIDE DEF q, untold
  <1>6. SettingsTyped'
    BY <1>1, <1>3 DEF SettingsInv, SettingsTyped
  <1>7. ASSUME NEW s \in Request PROVE SettingsWaits(s)'
    <2>1. \A t \in Request \ {r} : Goes(requests[t]) \in {"info", "invite", "removeMember"} => Goes(requests[t]) \in busy'
      BY <1>1, StillBusy DEF q
    <2>2. \A t : ~({"none", t} = {"invite", "removeMember"})
      OBVIOUS
    <2>3. SettingsFits(r, Settings!Idle)
      BY <1>1, <1>3, <1>4, <2>1, <2>2, SettingsIdle DEF SettingsFits
    <2> QED
      BY <2>3, WaitsChange
  <1>8. ASSUME NEW s \in Request PROVE SettingsShape(requests[s])' /\ SettingsFetches(requests[s])'
    <2>1. CASE s = r
      BY <1>3, <2>1, SettingsIdle DEF SettingsShape, SettingsFetches
    <2>2. CASE s # r
      <3>1. requests'[s] = requests[s] /\ SettingsShape(requests[s]) /\ SettingsFetches(requests[s])
        BY <1>3, <2>2 DEF SettingsInv
      <3>2. requests[s].kind # "load"
        BY <1>4, FetchedBefore
      <3>3. SettingsShape(requests[s])' /\ SettingsFetches(requests[s])'
        BY <1>1, <3>1, <3>2 DEF SettingsShape, SettingsFetches
      <3> QED
        BY <3>3
    <2> QED
      BY <2>1, <2>2
  <1>9. \A s \in Request \ {r} : \A x : Gone(s, x)' <=> Gone(s, x)
    BY <1>3 DEF Gone
  <1>10. \A x : ~Gone(r, x)'
    BY <1>3, SettingsIdle DEF Gone
  <1>11. Distinct(columns)' /\ Distinct(shown)'
    BY <1>1 DEF SettingsInv, Distinct
  <1>12. ASSUME ColumnsAgree PROVE ColumnsAgree'
    <2>1. InOrder(columns, shown)' /\ Settings!Ids(columns)' = Settings!Ids(columns) /\ Settings!Ids(shown)' = Settings!Ids(shown)
      BY <1>1, <1>12 DEF ColumnsAgree, InOrder, Settings!Ids
    <2>2. ASSUME "columns" \notin unheard' PROVE GoneColumns' = GoneColumns /\ "columns" \notin unheard
      <3>1. ~Gone(r, "removeColumn") /\ "columns" \notin unheard
        BY <1>1, <1>5, <2>2 DEF Gone, q
      <3>2. \A s \in Request : Gone(s, "removeColumn")' <=> Gone(s, "removeColumn")
        BY <1>9, <1>10, <3>1
      <3>3. \A s \in Request : Gone(s, "removeColumn") => requests'[s].id = requests[s].id
        BY <1>3, <3>1
      <3> QED
        BY <3>1, <3>2, <3>3 DEF GoneColumns
    <2> QED
      BY <1>1, <1>12, <2>1, <2>2 DEF ColumnsAgree
  <1>13. ASSUME MembersAgree PROVE MembersAgree'
    <2>1. CASE "members" \in unheard'
      BY <2>1 DEF MembersAgree
    <2>2. CASE "members" \notin unheard'
      <3>1. ~Gone(r, "removeMember") /\ ~Gone(r, "invite") /\ requests[r].kind # "members" /\ "members" \notin unheard
        BY <1>1, <1>5, <2>2 DEF Gone, q
      <3>2. /\ \A s \in Request : Gone(s, "removeMember")' <=> Gone(s, "removeMember")
            /\ \A s \in Request : Gone(s, "invite") => Gone(s, "invite")'
        BY <1>9, <1>10, <3>1
      <3>3. /\ \A s \in Request : Gone(s, "removeMember") => requests'[s].id = requests[s].id
            /\ \A s \in Request : requests[s].kind = "members" => requests'[s].kind = "members"
        BY <1>3, <3>1
      <3> QED
        BY <1>1, <1>13, <3>1, <3>2, <3>3, MembersStay
    <2> QED
      BY <2>1, <2>2
  <1>14. FormAgrees'
    <2>1. \A s \in Request : requests[s].kind = "info" /\ requests[s].pc = "sent"
               => unsaved' \/ (requests'[s].kind = "info" /\ requests'[s].pc = "sent")
      BY <1>1, <1>3 DEF q
    <2> QED
      BY <1>1, <2>1, SettingsFormStays DEF SettingsInv
  <1>15. EnoughColumns'
    <2>1. \A s \in Request : requests'[s].kind = "removeColumn" /\ requests'[s].pc = "sent"
               => requests[s].kind = "removeColumn" /\ requests[s].pc = "sent"
      BY <1>3, SettingsIdle
    <2> QED
      BY <1>1, <2>1, EnoughStays DEF SettingsInv
  <1> QED
    BY <1>1, <1>6, <1>7, <1>8, <1>11, <1>12, <1>13, <1>14, <1>15 DEF SettingsInv

LEMMA WithoutMemberIs ==
  ASSUME NEW list \in Seq(Member), NEW x
  PROVE  /\ Settings!WithoutMember(list, x) \in Seq(Member)
         /\ x \notin Settings!Range(list) => Settings!WithoutMember(list, x) = list
  <1> DEFINE places == {i \in DOMAIN list : list[i] = x}
  <1>1. Settings!WithoutMember(list, x) = IF places = {} THEN list ELSE Settings!WithoutAt(list, CHOOSE i \in places : TRUE)
    BY DEF Settings!WithoutMember, Settings!Rest
  <1>2. x \notin Settings!Range(list) => places = {}
    BY DEF Settings!Range
  <1>3. ASSUME places # {} PROVE Settings!WithoutAt(list, CHOOSE i \in places : TRUE) \in Seq(Member)
    <2>1. PICK c : c = CHOOSE i \in places : TRUE
      OBVIOUS
    <2>2. c \in DOMAIN list
      BY <1>3, <2>1
    <2> QED
      BY <2>1, <2>2, RemovedAt
  <1> HIDE DEF places
  <1> QED
    BY <1>1, <1>2, <1>3

LEMMA NothingToRemove == \A x : Settings!WithoutColumn(<<>>, x) = <<>>
  BY DEF Settings!WithoutColumn, Settings!Rest

LEMMA LandKeepsSettings ==
  ASSUME SettingsInv, NEW r \in Request, Settings!Land(r)
  PROVE  SettingsInv'
  <1> DEFINE q == requests[r]
             m == [Settings!Idle EXCEPT !.kind = "members", !.pc = "sent", !.left = {"members"}]
             k == IF q.kind = "invite" THEN "none" ELSE q.kind
  <1>1. /\ q.pc = "served" /\ q.ok /\ busy' = busy \ {k}
        /\ requests' = [requests EXCEPT ![r] = IF q.kind = "invite" THEN m ELSE Settings!Idle]
        /\ shown' = IF q.kind = "removeColumn" THEN Settings!WithoutColumn(shown, q.id) ELSE shown
        /\ listed' = IF q.kind = "removeMember" THEN Settings!WithoutMember(listed, q.id) ELSE listed
        /\ UNCHANGED <<info, columns, held, members, loading, form,
                       unheard, crossed, unsaved, failed, renamed, together>>
    BY DEF Settings!Land, Settings!Done, Settings!server, Settings!history
  <1>2. q \in SettingsRequests /\ SettingsShape(q) /\ SettingsWaits(r) /\ SettingsFetches(q)
    BY DEF SettingsInv, SettingsTyped
  <1>3. PICK n : n = IF q.kind = "invite" THEN m ELSE Settings!Idle
    OBVIOUS
  <1>4. /\ n \in SettingsRequests /\ ~n.ok /\ n.pc # "served" /\ n.kind \in {"none", "members"}
        /\ n.kind = "none" <=> n.pc = "idle"
        /\ n.kind = "members" <=> q.kind = "invite"
        /\ n.kind = "none" => n.left = {}
        /\ n.kind = "members" => n.left = {"members"} /\ n.pc = "sent"
    <2>1. /\ m \in SettingsRequests /\ ~m.ok /\ m.pc = "sent" /\ m.kind = "members" /\ m.left = {"members"}
      BY SettingsIdle DEF SettingsRequests, Settings!Kinds
    <2> HIDE DEF m
    <2>2. CASE q.kind = "invite"
      BY <1>3, <2>1, <2>2
    <2>3. CASE q.kind # "invite"
      BY <1>3, <2>3, SettingsIdle
    <2> QED
      BY <2>2, <2>3
  <1>5. /\ requests' \in [Request -> SettingsRequests] /\ requests'[r] = n
        /\ \A s \in Request \ {r} : requests'[s] = requests[s]
    BY <1>1, <1>3, <1>4, SettingsSlot DEF SettingsInv
  <1>6. ~loading /\ q.kind \notin {"none", "load", "members"}
    BY <1>1, <1>2 DEF SettingsShape, SettingsWaits
  <1>7. Goes(q) = q.kind /\ Goes(n) = IF q.kind = "invite" THEN "invite" ELSE "none"
    BY <1>4, <1>6 DEF Goes
  <1>8. k = IF q.kind = "invite" THEN "none" ELSE q.kind
    OBVIOUS
  <1> HIDE DEF q, m, k
  <1>9. shown \in Settings!Columns /\ Distinct(shown) /\ listed \in Seq(Member)
    BY DEF SettingsInv, SettingsTyped
  <1>10. /\ shown' \in Settings!Columns /\ Distinct(shown')
         /\ \A i \in DOMAIN shown' : \E j \in DOMAIN shown : shown'[i] = shown[j]
         /\ q.kind = "removeColumn" => Settings!Ids(shown') = Settings!Ids(shown) \ {q.id}
    <2>1. CASE q.kind = "removeColumn"
      BY <1>1, <1>9, <2>1, WithoutColumnIs
    <2>2. CASE q.kind # "removeColumn"
      BY <1>1, <1>9, <2>2
    <2> QED
      BY <2>1, <2>2
  <1>11. listed' \in Seq(Member)
    BY <1>1, <1>9, WithoutMemberIs
  <1>12. SettingsTyped'
    BY <1>1, <1>5, <1>10, <1>11 DEF SettingsInv, SettingsTyped
  <1>13. ASSUME NEW s \in Request PROVE SettingsWaits(s)'
    <2>1. \A t \in Request \ {r} : Goes(requests[t]) \in {"info", "invite", "removeMember"} => Goes(requests[t]) \in busy'
      <3>1. k = Goes(requests[r]) \/ k \notin {"info", "invite", "removeMember"}
        BY <1>7, <1>8 DEF q
      <3> QED
        BY <1>1, <3>1, StillBusy
    <2>2. Goes(n) \in {"info", "invite", "removeMember"} => Goes(n) = Goes(q) /\ q.kind = "invite"
      BY <1>7
    <2>3. Goes(n) \in {"info", "invite", "removeMember"} => Goes(n) \in busy'
      <3>1. q.kind = "invite" => "invite" \in busy /\ k = "none"
        BY <1>2, <1>7, <1>8 DEF SettingsWaits, q
      <3> QED
        BY <1>1, <1>7, <2>2, <3>1
    <2>4. \A t \in Request \ {r} :
             /\ Goes(requests[t]) = Goes(q) => Goes(q) \notin {"load", "info", "invite", "removeMember"}
             /\ ~crossed => ~({Goes(q), Goes(requests[t])} = {"invite", "removeMember"})
      BY <1>2 DEF SettingsWaits, q
    <2>5. \A t : ~({"none", t} = {"invite", "removeMember"})
      OBVIOUS
    <2>6. \A t \in Request \ {r} :
             /\ Goes(requests[t]) = Goes(n) => Goes(n) \notin {"load", "info", "invite", "removeMember"}
             /\ ~crossed => ~({Goes(n), Goes(requests[t])} = {"invite", "removeMember"})
      BY <1>7, <2>4, <2>5
    <2>7. SettingsFits(r, n)
      BY <1>1, <1>4, <1>5, <1>6, <2>1, <2>3, <2>6 DEF SettingsFits
    <2> QED
      BY <2>7, WaitsChange
  <1>14. ASSUME NEW s \in Request PROVE SettingsShape(requests[s])' /\ SettingsFetches(requests[s])'
    <2>1. CASE s = r
      <3>1. SettingsShape(n)' /\ SettingsFetches(n)'
        BY <1>4 DEF SettingsShape, SettingsFetches
      <3> QED
        BY <1>5, <2>1, <3>1
    <2>2. CASE s # r
      <3>1. requests'[s] = requests[s] /\ SettingsShape(requests[s]) /\ SettingsFetches(requests[s])
        BY <1>5, <2>2 DEF SettingsInv
      <3>2. SettingsShape(requests[s])' /\ SettingsFetches(requests[s])'
        BY <1>1, <3>1 DEF SettingsShape, SettingsFetches
      <3> QED
        BY <3>2
    <2> QED
      BY <2>1, <2>2
  <1>15. \A s \in Request \ {r} : \A x : Gone(s, x)' <=> Gone(s, x)
    BY <1>5 DEF Gone
  <1>16. \A x : ~Gone(r, x)' /\ (Gone(r, x) <=> q.kind = x)
    BY <1>1, <1>4, <1>5 DEF Gone, q
  <1>17. Distinct(columns)' /\ Distinct(shown)'
    BY <1>1, <1>10 DEF SettingsInv, Distinct
  <1>18. ASSUME ColumnsAgree PROVE ColumnsAgree'
    <2>1. InOrder(columns', shown')
      <3>1. q.kind = "removeColumn" => InOrder(columns, shown')
        BY <1>1, <1>9, <1>18, WithoutColumnInOrder DEF ColumnsAgree
      <3>2. InOrder(columns, shown')
        BY <1>1, <1>18, <3>1 DEF ColumnsAgree
      <3> QED
        BY <1>1, <3>2
    <2>2. Settings!Ids(columns)' = Settings!Ids(columns')
      BY DEF Settings!Ids
    <2>3. Settings!Ids(columns') = Settings!Ids(columns)
      BY <1>1
    <2>4. "columns" \notin unheard => Settings!Ids(columns) = Settings!Ids(shown') \ GoneColumns'
      <3>1. CASE q.kind = "removeColumn"
        <4>1. GoneColumns = GoneColumns' \cup {q.id}
          <5>1. \A s \in Request \ {r} : requests'[s].id = requests[s].id /\ (Gone(s, "removeColumn")' <=> Gone(s, "removeColumn"))
            BY <1>5, <1>15
          <5>2. Gone(r, "removeColumn") /\ ~Gone(r, "removeColumn")' /\ requests[r].id = q.id
            BY <1>16, <3>1 DEF q
          <5> QED
            BY <5>1, <5>2 DEF GoneColumns
        <4> QED
          BY <1>10, <1>18, <3>1, <4>1 DEF ColumnsAgree
      <3>2. CASE q.kind # "removeColumn"
        <4>1. GoneColumns' = GoneColumns
          <5>1. \A s \in Request \ {r} : requests'[s].id = requests[s].id /\ (Gone(s, "removeColumn")' <=> Gone(s, "removeColumn"))
            BY <1>5, <1>15
          <5>2. ~Gone(r, "removeColumn") /\ ~Gone(r, "removeColumn")'
            BY <1>16, <3>2
          <5> QED
            BY <5>1, <5>2 DEF GoneColumns
        <4> QED
          BY <1>1, <1>18, <3>2, <4>1 DEF ColumnsAgree
      <3> QED
        BY <3>1, <3>2
    <2>5. ASSUME NEW i \in DOMAIN shown', NEW j \in DOMAIN columns',
                 shown'[i].id = columns'[j].id, shown'[i] # columns'[j]
          PROVE  shown'[i].id \in renamed'
      <3>1. PICK l \in DOMAIN shown : shown'[i] = shown[l]
        BY <1>10
      <3> QED
        BY <1>1, <1>18, <2>5, <3>1 DEF ColumnsAgree
    <2> QED
      BY <1>1, <2>1, <2>3, <2>4, <2>5 DEF ColumnsAgree
  <1>19. ASSUME MembersAgree PROVE MembersAgree'
    <2>1. CASE q.kind = "removeMember"
      <3> SUFFICES ASSUME "members" \notin unheard', ~crossed'
                   PROVE  /\ \A s \in Request : ~Gone(s, "removeMember")'
                          /\ listed' = members'
        BY DEF MembersAgree
      <3>1. listed' = members'
        <4>1. Gone(r, "removeMember")
          BY <1>16, <2>1
        <4>2. members = Settings!WithoutMember(listed, q.id)
          BY <1>1, <1>19, <4>1 DEF MembersAgree, q
        <4> QED
          BY <1>1, <2>1, <4>2
      <3>2. ASSUME NEW s \in Request, Gone(s, "removeMember")' PROVE FALSE
        <4>1. s # r /\ requests[s].kind = "removeMember"
          BY <1>5, <1>16, <3>2 DEF Gone
        <4>2. Goes(requests[s]) = "removeMember"
          BY <4>1 DEF Goes
        <4> QED
          BY <1>2, <1>7, <2>1, <4>1, <4>2 DEF SettingsWaits, q
      <3> QED
        BY <3>1, <3>2
    <2>2. CASE q.kind = "invite"
      <3>1. requests'[r].kind = "members"
        BY <1>4, <1>5, <2>2
      <3>2. ASSUME NEW s \in Request, Gone(s, "removeMember")', "members" \notin unheard, ~crossed
            PROVE  members = Settings!WithoutMember(listed, requests'[s].id)
        <4>1. s # r /\ requests'[s].id = requests[s].id
          BY <1>5, <1>16, <3>2
        <4> QED
          BY <1>15, <1>19, <3>2, <4>1 DEF MembersAgree
      <3>3. listed' = listed
        BY <1>1, <2>2
      <3> QED
        BY <1>1, <3>1, <3>2, <3>3 DEF MembersAgree
    <2>3. CASE q.kind \notin {"removeMember", "invite"}
      <3>1. /\ \A s \in Request : Gone(s, "removeMember")' <=> Gone(s, "removeMember")
            /\ \A s \in Request : Gone(s, "invite") => Gone(s, "invite")'
        BY <1>15, <1>16, <2>3
      <3>2. /\ \A s \in Request : Gone(s, "removeMember") => requests'[s].id = requests[s].id
            /\ \A s \in Request : requests[s].kind = "members" => requests'[s].kind = "members"
        BY <1>5, <1>6, <1>16, <2>3 DEF q
      <3> QED
        BY <1>1, <1>19, <2>3, <3>1, <3>2, MembersStay
    <2> QED
      BY <2>1, <2>2, <2>3
  <1>20. FormAgrees'
    <2>1. \A s \in Request : requests[s].kind = "info" /\ requests[s].pc = "sent"
               => requests'[s].kind = "info" /\ requests'[s].pc = "sent"
      BY <1>1, <1>5 DEF q
    <2> QED
      BY <1>1, <2>1, SettingsFormStays DEF SettingsInv
  <1>21. EnoughColumns'
    <2>1. \A s \in Request : requests'[s].kind = "removeColumn" /\ requests'[s].pc = "sent"
               => s # r /\ requests[s].kind = "removeColumn" /\ requests[s].pc = "sent"
      BY <1>4, <1>5
    <2>2. ~together /\ q.kind = "removeColumn" => \A s \in Request \ {r} : requests[s].kind # "removeColumn"
      BY <1>2 DEF SettingsWaits, q
    <2> QED
      BY <1>1, <2>1, <2>2 DEF EnoughColumns, SettingsInv
  <1>22. failed => shown' = <<>>
    BY <1>1, NothingToRemove DEF SettingsInv
  <1> QED
    BY <1>1, <1>6, <1>12, <1>13, <1>14, <1>17, <1>18, <1>19, <1>20, <1>21, <1>22 DEF SettingsInv

LEMMA ServeKeepsSettings ==
  ASSUME SettingsInv, NEW r \in Request, NEW known \in BOOLEAN, Settings!Serve(r, known)
  PROVE  SettingsInv'
  <1> DEFINE q == requests[r]
             ok == Settings!Accepted(q)
  <1>1. /\ q.pc = "sent" /\ q.kind \notin {"load", "members"}
        /\ requests' = [requests EXCEPT ![r] = [q EXCEPT !.pc = "served", !.ok = ok]]
        /\ info' = IF q.kind = "info" THEN Settings!Stored(q.info) ELSE info
        /\ columns' = IF q.kind = "removeColumn" /\ ok THEN Settings!WithoutColumn(columns, q.id) ELSE columns
        /\ members' = CASE q.kind = "removeMember" -> Settings!WithoutMember(members, q.id)
                        [] q.kind = "invite" /\ ok /\ known -> Append(members, q.id)
                        [] OTHER -> members
        /\ UNCHANGED <<held, open, loading, form, shown, listed, busy, removing,
                       unheard, crossed, unsaved, failed, renamed, together>>
    BY DEF Settings!Serve, Settings!view, Settings!history, SettingsInv, SettingsTyped
  <1>2. q \in SettingsRequests /\ SettingsShape(q) /\ SettingsWaits(r) /\ SettingsFetches(q)
    BY DEF SettingsInv, SettingsTyped
  <1>3. /\ ok \in BOOLEAN
        /\ ok => q.kind \notin {"saveColumn", "addColumn"}
        /\ q.kind = "removeMember" => (ok <=> q.id \in Settings!Range(members))
    <2>1. /\ q.kind \in {"saveColumn", "addColumn"} => ok = FALSE
          /\ q.kind = "removeColumn" => ok = (q.id \in Settings!Ids(columns) \ held)
          /\ q.kind = "removeMember" => ok = (q.id \in Settings!Range(members))
          /\ q.kind = "invite" => ok = (q.id \notin Settings!Range(members))
          /\ q.kind \notin {"saveColumn", "addColumn", "removeColumn", "removeMember", "invite"} => ok = TRUE
      BY DEF Settings!Accepted
    <2> HIDE DEF ok, q
    <2>2. CASE q.kind \in {"saveColumn", "addColumn"}
      BY <2>1, <2>2
    <2>3. CASE q.kind = "removeColumn"
      BY <2>1, <2>3
    <2>4. CASE q.kind = "removeMember"
      <3>1. ok = (q.id \in Settings!Range(members))
        BY <2>1, <2>4
      <3>2. ok \in BOOLEAN
        BY <3>1, SMT
      <3>3. ok <=> q.id \in Settings!Range(members)
        BY <3>1, Zenon
      <3>4. q.kind \notin {"saveColumn", "addColumn"}
        BY <2>4
      <3> QED
        BY <3>2, <3>3, <3>4
    <2>5. CASE q.kind = "invite"
      BY <2>1, <2>5
    <2>6. CASE q.kind \notin {"saveColumn", "addColumn", "removeColumn", "removeMember", "invite"}
      <3>1. ok = TRUE /\ q.kind \notin {"saveColumn", "addColumn"} /\ q.kind # "removeMember"
        BY <2>1, <2>6
      <3> QED
        BY <3>1
    <2> QED
      BY <2>2, <2>3, <2>4, <2>5, <2>6
  <1>4. PICK n : n = [q EXCEPT !.pc = "served", !.ok = ok]
    OBVIOUS
  <1>5. /\ n \in SettingsRequests /\ n.kind = q.kind /\ n.pc = "served" /\ n.id = q.id /\ (n.ok <=> ok)
        /\ n.left = q.left /\ n.info = q.info /\ n.columns = q.columns /\ n.members = q.members
    <2> HIDE DEF ok, q
    <2> QED
      BY <1>2, <1>3, <1>4 DEF SettingsRequests
  <1>6. /\ requests' \in [Request -> SettingsRequests] /\ requests'[r] = n
        /\ \A s \in Request \ {r} : requests'[s] = requests[s]
    BY <1>1, <1>4, <1>5, SettingsSlot DEF SettingsInv
  <1>7. ~loading /\ q.kind # "none"
    BY <1>1, <1>2 DEF SettingsShape, SettingsWaits
  <1>8. q.info \in Settings!Info /\ (q.kind = "invite" => q.id \in Member)
    BY <1>2 DEF SettingsRequests, SettingsShape
  <1>9. \A s \in Request \ {r} : q.kind \in {"info", "invite", "removeMember"} => Goes(requests[s]) # q.kind
    BY <1>1, <1>2 DEF SettingsWaits, Goes
  <1>10. ~crossed => \A s \in Request \ {r} : ~({q.kind, Goes(requests[s])} = {"invite", "removeMember"})
    BY <1>1, <1>2 DEF SettingsWaits, Goes
  <1>11. ~together /\ q.kind = "removeColumn" => \A s \in Request \ {r} : requests[s].kind # "removeColumn"
    BY <1>2 DEF SettingsWaits
  <1> HIDE DEF q, ok
  <1>12. info' \in Settings!Info
    BY <1>1, <1>8 DEF Settings!Stored, Settings!Info, SettingsInv, SettingsTyped
  <1>13. columns \in Settings!Columns /\ shown \in Settings!Columns /\ Distinct(columns) /\ Distinct(shown)
    BY DEF SettingsInv, SettingsTyped
  <1>14. /\ columns' \in Settings!Columns /\ Distinct(columns')
         /\ \A i \in DOMAIN columns' : \E j \in DOMAIN columns : columns'[i] = columns[j]
         /\ q.kind = "removeColumn" /\ ok => /\ Settings!Ids(columns') = Settings!Ids(columns) \ {q.id}
                                             /\ Len(columns') >= Len(columns) - 1
    <2>1. CASE q.kind = "removeColumn" /\ ok
      BY <1>1, <1>13, <2>1, WithoutColumnIs
    <2>2. CASE ~(q.kind = "removeColumn" /\ ok)
      BY <1>1, <1>13, <2>2
    <2> QED
      BY <2>1, <2>2
  <1>15. members \in Seq(Member)
    BY DEF SettingsInv, SettingsTyped
  <1>16. /\ q.kind = "removeMember" => members' = Settings!WithoutMember(members, q.id)
         /\ q.kind = "invite" /\ ok /\ known => members' = Append(members, q.id)
         /\ q.kind = "invite" /\ ~ok => members' = members
         /\ q.kind \notin {"invite", "removeMember"} => members' = members
         /\ q.kind = "invite" /\ ~known => members' = members
    BY <1>1
  <1>17. members' \in Seq(Member)
    <2>1. Settings!WithoutMember(members, q.id) \in Seq(Member)
      BY <1>15, WithoutMemberIs
    <2>2. q.kind = "invite" => Append(members, q.id) \in Seq(Member)
      BY <1>8, <1>15
    <2> QED
      BY <1>3, <1>15, <1>16, <2>1, <2>2
  <1>18. SettingsTyped'
    BY <1>1, <1>6, <1>12, <1>14, <1>17 DEF SettingsInv, SettingsTyped
  <1>19. ASSUME NEW s \in Request
         PROVE  (SettingsShape(requests[s]) /\ SettingsWaits(s) /\ SettingsFetches(requests[s]))'
    <2>1. SettingsWaits(s)'
      <3>1. \A t \in Request : requests'[t].kind = requests[t].kind
        BY <1>5, <1>6 DEF q
      <3> QED
        BY <1>1, <3>1, WaitsStay DEF SettingsInv
    <2>2. CASE s = r
      <3>1. SettingsShape(n)'
        BY <1>1, <1>2, <1>3, <1>5, <1>7 DEF SettingsShape
      <3>2. SettingsFetches(n)'
        BY <1>1, <1>2, <1>5 DEF SettingsFetches
      <3> QED
        BY <1>6, <2>1, <2>2, <3>1, <3>2
    <2>3. CASE s # r
      <3>1. requests'[s] = requests[s] /\ SettingsShape(requests[s]) /\ SettingsFetches(requests[s])
        BY <1>6, <2>3 DEF SettingsInv
      <3>2. requests[s].kind # "load"
        BY <1>7, FetchedBefore
      <3>3. requests[s].kind = "members" /\ ~crossed => members' = members
        <4> SUFFICES ASSUME requests[s].kind = "members", ~crossed PROVE q.kind \notin {"invite", "removeMember"}
          BY <1>16
        <4>1. Goes(requests[s]) = "invite" /\ s \in Request \ {r}
          BY <2>3 DEF Goes
        <4>2. q.kind # "invite"
          BY <1>9, <4>1
        <4>3. {"removeMember", "invite"} = {"invite", "removeMember"}
          OBVIOUS
        <4>4. q.kind # "removeMember"
          BY <1>10, <4>1, <4>3
        <4> QED
          BY <4>2, <4>4
      <3>4. SettingsShape(requests[s])' /\ SettingsFetches(requests[s])'
        BY <1>1, <3>1, <3>2, <3>3 DEF SettingsShape, SettingsFetches
      <3> QED
        BY <2>1, <3>4
    <2> QED
      BY <2>2, <2>3
  <1>20. \A s \in Request \ {r} : \A x : Gone(s, x)' <=> Gone(s, x)
    BY <1>6 DEF Gone
  <1>21. \A x : ~Gone(r, x) /\ (Gone(r, x)' <=> q.kind = x /\ ok)
    BY <1>1, <1>5, <1>6 DEF Gone, q
  <1>22. Distinct(columns)' /\ Distinct(shown)'
    BY <1>1, <1>13, <1>14 DEF Distinct
  <1>23. requests'[r].id = q.id /\ \A s \in Request : requests'[s].id = requests[s].id
    BY <1>5, <1>6 DEF q
  <1>24. ASSUME ColumnsAgree PROVE ColumnsAgree'
    <2>1. InOrder(columns', shown')
      <3>1. q.kind = "removeColumn" /\ ok => InOrder(columns', shown)
        BY <1>1, <1>13, <1>24, WithoutColumnInOrder DEF ColumnsAgree
      <3>2. InOrder(columns', shown)
        BY <1>1, <1>24, <3>1 DEF ColumnsAgree
      <3> QED
        BY <1>1, <3>2
    <2>2. "columns" \notin unheard => Settings!Ids(columns') = Settings!Ids(shown) \ GoneColumns'
      <3>1. CASE q.kind = "removeColumn" /\ ok
        <4>1. GoneColumns' = GoneColumns \cup {q.id}
          <5>1. Gone(r, "removeColumn")' /\ ~Gone(r, "removeColumn")
            BY <1>21, <3>1
          <5> QED
            BY <1>20, <1>23, <5>1 DEF GoneColumns
        <4> QED
          BY <1>14, <1>24, <3>1, <4>1 DEF ColumnsAgree
      <3>2. CASE ~(q.kind = "removeColumn" /\ ok)
        <4>1. GoneColumns' = GoneColumns
          <5>1. ~Gone(r, "removeColumn")' /\ ~Gone(r, "removeColumn")
            BY <1>21, <3>2
          <5> QED
            BY <1>20, <1>23, <5>1 DEF GoneColumns
        <4> QED
          BY <1>1, <1>24, <3>2, <4>1 DEF ColumnsAgree
      <3> QED
        BY <3>1, <3>2
    <2>3. ASSUME NEW i \in DOMAIN shown', NEW j \in DOMAIN columns',
                 shown'[i].id = columns'[j].id, shown'[i] # columns'[j]
          PROVE  shown'[i].id \in renamed'
      <3>1. PICK l \in DOMAIN columns : columns'[j] = columns[l]
        BY <1>14
      <3> QED
        BY <1>1, <1>24, <2>3, <3>1 DEF ColumnsAgree
    <2>4. shown' = shown /\ unheard' = unheard
      BY <1>1
    <2> QED
      BY <2>1, <2>2, <2>3, <2>4 DEF ColumnsAgree
  <1>25. ASSUME MembersAgree PROVE MembersAgree'
    <2>1. CASE q.kind = "removeMember"
      <3> SUFFICES ASSUME "members" \notin unheard, ~crossed PROVE MembersAgree'
        BY <1>1 DEF MembersAgree
      <3>1. \A s \in Request \ {r} : requests[s].kind \notin {"invite", "members", "removeMember"}
        <4>1. \A s \in Request \ {r} : requests[s].kind # "removeMember"
          BY <1>9, <2>1 DEF Goes
        <4>2. {"removeMember", "invite"} = {"invite", "removeMember"}
          OBVIOUS
        <4>3. \A s \in Request \ {r} : Goes(requests[s]) # "invite"
          BY <1>10, <2>1, <4>2
        <4>4. \A s \in Request \ {r} : requests[s].kind \notin {"invite", "members"}
          BY <4>3 DEF Goes
        <4> QED
          BY <4>1, <4>4
      <3>2. listed = members
        <4>1. \A s \in Request : ~Gone(s, "removeMember") /\ ~Gone(s, "invite") /\ requests[s].kind # "members"
          BY <1>1, <1>21, <3>1 DEF Gone, q
        <4> QED
          BY <1>25, <4>1 DEF MembersAgree
      <3>3. ASSUME NEW s \in Request, Gone(s, "removeMember")'
            PROVE  members' = Settings!WithoutMember(listed', requests'[s].id)
        <4>1. s = r
          BY <1>6, <3>1, <3>3 DEF Gone
        <4> QED
          BY <1>1, <1>16, <1>23, <2>1, <3>2, <4>1
      <3>4. ASSUME ~Gone(r, "removeMember")' PROVE listed' = members'
        <4>1. q.id \notin Settings!Range(members)
          BY <1>3, <1>21, <2>1, <3>4
        <4>2. members' = members
          BY <1>15, <1>16, <2>1, <4>1, WithoutMemberIs
        <4> QED
          BY <1>1, <3>2, <4>2
      <3> QED
        BY <3>3, <3>4 DEF MembersAgree
    <2>2. CASE q.kind = "invite" /\ ok
      <3> SUFFICES ASSUME "members" \notin unheard, ~crossed PROVE MembersAgree'
        BY <1>1 DEF MembersAgree
      <3>1. Gone(r, "invite")'
        BY <1>21, <2>2
      <3>2. ASSUME NEW s \in Request, Gone(s, "removeMember")' PROVE FALSE
        <4>1. s # r /\ requests[s].kind = "removeMember"
          BY <1>6, <1>21, <2>2, <3>2 DEF Gone
        <4>2. Goes(requests[s]) = "removeMember"
          BY <4>1 DEF Goes
        <4> QED
          BY <1>10, <2>2, <4>1, <4>2
      <3> QED
        BY <3>1, <3>2 DEF MembersAgree
    <2>3. CASE q.kind # "removeMember" /\ ~(q.kind = "invite" /\ ok)
      <3>1. /\ \A s \in Request : Gone(s, "removeMember")' <=> Gone(s, "removeMember")
            /\ \A s \in Request : Gone(s, "invite") => Gone(s, "invite")'
        BY <1>20, <1>21, <2>3
      <3>2. \A s \in Request : requests[s].kind = "members" => requests'[s].kind = "members"
        BY <1>5, <1>6 DEF q
      <3>3. members' = members
        BY <1>16, <2>3
      <3> QED
        BY <1>1, <1>23, <1>25, <3>1, <3>2, <3>3, MembersStay
    <2> QED
      BY <2>1, <2>2, <2>3
  <1>26. FormAgrees'
    <2>1. CASE q.kind = "info"
      <3>1. ~failed => info'.title # None
        BY <1>1, <1>2, <1>8, <2>1 DEF SettingsFetches, Settings!Stored, Settings!Info
      <3>2. ~unsaved => q.info = form
        BY <1>1, <1>2, <2>1 DEF SettingsFetches
      <3>3. ~unsaved => info'.title = form.title /\ form.deadline \in {info'.deadline, None}
        BY <1>1, <1>8, <2>1, <3>2 DEF Settings!Stored, Settings!Info
      <3> QED
        BY <1>1, <3>1, <3>3 DEF FormAgrees, SettingsInv
    <2>2. CASE q.kind # "info"
      <3>1. \A s \in Request : requests[s].kind = "info" /\ requests[s].pc = "sent"
               => requests'[s].kind = "info" /\ requests'[s].pc = "sent"
        BY <1>6, <2>2 DEF q
      <3> QED
        BY <1>1, <2>2, <3>1, SettingsFormStays DEF SettingsInv
    <2> QED
      BY <2>1, <2>2
  <1>27. \A s \in Request : requests'[s].kind = "removeColumn" /\ requests'[s].pc = "sent"
               => requests[s].kind = "removeColumn" /\ requests[s].pc = "sent"
    BY <1>5, <1>6
  <1>28. EnoughColumns'
    <2>1. CASE q.kind = "removeColumn" /\ ok
      <3> SUFFICES ASSUME ~together, "columns" \notin unheard PROVE Len(columns') >= 2
        BY <1>1, <1>27 DEF EnoughColumns, SettingsInv
      <3>1. Len(shown) > 2
        BY <1>1, <2>1 DEF EnoughColumns, SettingsInv, q
      <3>2. ~failed
        BY <3>1 DEF SettingsInv
      <3>3. ColumnsAgree
        BY <1>7, <3>2 DEF SettingsInv
      <3>4. GoneColumns = {}
        BY <1>11, <1>21, <2>1 DEF GoneColumns, Gone
      <3>5. Settings!Ids(columns) = Settings!Ids(shown) /\ InOrder(columns, shown)
        BY <3>3, <3>4 DEF ColumnsAgree
      <3>6. Len(columns) = Len(shown)
        BY <1>13, <3>5, SameColumns
      <3>7. Len(columns) \in Nat /\ Len(columns') \in Nat
        BY <1>13, <1>14 DEF Settings!Columns
      <3> QED
        BY <1>14, <2>1, <3>1, <3>6, <3>7
    <2>2. CASE ~(q.kind = "removeColumn" /\ ok)
      <3>1. columns' = columns
        BY <1>1, <2>2
      <3> QED
        BY <1>1, <1>27, <3>1, EnoughStays DEF SettingsInv
    <2> QED
      BY <2>1, <2>2
  <1> QED
    BY <1>1, <1>7, <1>18, <1>19, <1>22, <1>24, <1>25, <1>26, <1>28 DEF SettingsInv

LEMMA NextKeepsSettings ==
  ASSUME SettingsInv, Settings!Next \/ UNCHANGED Settings!vars
  PROVE  SettingsInv'
  <1>1. ASSUME Settings!Others PROVE SettingsInv'
    <2>1. UNCHANGED <<info, columns, members, open, loading, form, shown, listed, busy, removing, requests,
                      unheard, crossed, unsaved, failed, renamed, together>>
      BY <1>1 DEF Settings!Others, Settings!view, Settings!history
    <2> QED
      BY <2>1, OthersKeepSettings
  <1>2. ASSUME UNCHANGED Settings!vars PROVE SettingsInv'
    <2>1. UNCHANGED <<info, columns, members, open, loading, form, shown, listed, busy, removing, requests,
                      unheard, crossed, unsaved, failed, renamed, together>>
      BY <1>2 DEF Settings!vars, Settings!server, Settings!view, Settings!history
    <2> QED
      BY <2>1, OthersKeepSettings
  <1>3. ASSUME NEW r \in Request, NEW k \in {"info", "addColumn", "close"}, Settings!Start(r, k, None)
        PROVE  SettingsInv'
    BY <1>3, StartKeepsSettings
  <1>4. ASSUME NEW r \in Request, NEW c \in Settings!Ids(shown),
               Settings!Start(r, "saveColumn", c) \/ Settings!RemoveColumn(r, c)
        PROVE  SettingsInv'
    <2>1. c \in SettingsColumn
      <3>1. PICK i \in DOMAIN shown : c = shown[i].id
        BY DEF Settings!Ids
      <3>2. shown \in Seq([id : SettingsColumn, title : ColumnTitle])
        BY DEF SettingsInv, SettingsTyped, Settings!Columns
      <3>3. shown[i] \in [id : SettingsColumn, title : ColumnTitle]
        BY <3>2, ColumnIn
      <3> QED
        BY <3>1, <3>3
    <2> QED
      BY <1>4, <2>1, StartKeepsSettings, RemoveColumnKeepsSettings
  <1>5. ASSUME NEW r \in Request, NEW m \in Member, Settings!Start(r, "invite", m)
        PROVE  SettingsInv'
    BY <1>5, StartKeepsSettings
  <1>6. ASSUME NEW r \in Request, NEW m \in Settings!Range(listed), Settings!Start(r, "removeMember", m)
        PROVE  SettingsInv'
    <2>1. m \in Member
      BY DEF SettingsInv, SettingsTyped, Settings!Range
    <2> QED
      BY <1>6, <2>1, StartKeepsSettings
  <1>7. ASSUME Settings!Next PROVE SettingsInv'
    BY <1>1, <1>3, <1>4, <1>5, <1>6, <1>7, TypeKeepsSettings, UpdateColumnNameKeepsSettings, ReadKeepsSettings,
       MissMembersKeepsSettings, FailLoadKeepsSettings, LandSettingsKeepsSettings, LandMembersKeepsSettings,
       LandKeepsSettings, FailKeepsSettings, ServeKeepsSettings
    DEF Settings!Next
  <1> QED
    BY <1>2, <1>7

LEMMA SettingsInvSettles == SettingsInv => Settings!SettingsSettle
  <1> SUFFICES ASSUME SettingsInv PROVE Settings!SettingsSettle
    OBVIOUS
  <1>1. ASSUME Settings!AtRest, ~failed
        PROVE  /\ "columns" \notin unheard => Settings!Named(shown) = Settings!Named(columns)
               /\ "members" \notin unheard /\ ~crossed => listed = members
               /\ \A i \in DOMAIN shown, j \in DOMAIN columns :
                     shown[i].id = columns[j].id /\ shown[i] # columns[j] => shown[i].id \in renamed
    <2>1. ~loading /\ \A r \in Request : requests[r].kind = "none" /\ requests[r].pc = "idle"
      BY <1>1 DEF Settings!AtRest, Settings!Page, SettingsInv, SettingsShape
    <2>2. ColumnsAgree /\ MembersAgree
      BY <1>1, <2>1 DEF SettingsInv
    <2>3. \A r \in Request, k \in {"removeColumn", "removeMember", "invite"} : ~Gone(r, k)
      BY <2>1 DEF Gone
    <2>4. GoneColumns = {}
      BY <2>3 DEF GoneColumns
    <2>5. "columns" \notin unheard => Settings!Named(shown) = Settings!Named(columns)
      <3>1. columns \in Settings!Columns /\ shown \in Settings!Columns /\ Distinct(columns) /\ Distinct(shown)
        BY DEF SettingsInv, SettingsTyped
      <3>2. "columns" \notin unheard => Settings!Ids(columns) = Settings!Ids(shown) /\ InOrder(columns, shown)
        BY <2>2, <2>4 DEF ColumnsAgree
      <3> QED
        BY <3>1, <3>2, SameColumns
    <2>6. "members" \notin unheard /\ ~crossed => listed = members
      BY <2>1, <2>2, <2>3 DEF MembersAgree
    <2> QED
      BY <2>2, <2>5, <2>6 DEF ColumnsAgree
  <1>2. Settings!ShowsTheProject
    BY <1>1 DEF Settings!ShowsTheProject
  <1>3. Settings!InfoIsStored
    <2>1. Settings!AtRest => ~loading /\ \A r \in Request : requests[r].pc # "sent"
      BY DEF Settings!AtRest, Settings!Page
    <2> QED
      BY <2>1 DEF Settings!InfoIsStored, SettingsInv, FormAgrees
  <1>4. Settings!TwoColumnsStay
    BY DEF Settings!TwoColumnsStay, SettingsInv, EnoughColumns
  <1> QED
    BY <1>2, <1>3, <1>4 DEF Settings!SettingsSettle

\* board-settings.tsx: settings at rest that could load the project show its
\* columns in their order and its members, but for lists of which an answer was
\* lost and for a removal that crossed an invitation; what the form shows after it
\* was saved is stored, but for a deadline that was cleared; and this page leaves a
\* project two columns, unless two removals overlapped or an answer was lost.
THEOREM SettingsAlwaysSettle == Spec => []SettingsSettle
  <1> DEFINE I == part = "settings" => SettingsInv
  <1>1. Init => I
    BY InitSettings DEF Init
  <1>2. I /\ [Next]_vars => I'
    <2> SUFFICES ASSUME I, [Next]_vars, part' = "settings" PROVE SettingsInv'
      OBVIOUS
    <2>1. part = "settings" /\ (Settings!Next \/ UNCHANGED Settings!vars)
      BY DEF Next, vars, common, settingsOwn, Settings!vars, Settings!server, Settings!view, Settings!history
    <2> QED
      BY <2>1, NextKeepsSettings
  <1>3. I => SettingsSettle
    BY SettingsInvSettles DEF SettingsSettle
  <1> QED
    BY <1>1, <1>2, <1>3, PTL DEF Spec

------------------------------------------------------------------------------
(* The tables of the administrator                                            *)

RowChanges == {"delete", "suspend", "activate"}

TableShape(q) ==
    /\ q = [kind |-> q.kind, pc |-> q.pc, mine |-> q.mine, id |-> q.id, query |-> q.query,
            drawer |-> q.drawer, answer |-> q.answer, ok |-> q.ok]
    /\ q.kind \in Tables!Actions \cup {"none", "fetch"} /\ q.pc \in {"idle", "sent", "served"}
    /\ q.kind = "none" <=> q.pc = "idle"
    /\ q.mine \in BOOLEAN /\ q.ok \in BOOLEAN
    /\ q.query \in Tables!Query /\ q.answer.total \in Nat
    /\ q.kind = "create" => q.id \in User

TablesTyped ==
    /\ rows \in [Tables!Page -> Seq(Tables!Item)] /\ page \in Tables!Page
    /\ query \in Tables!Query /\ shown.total \in Nat
    /\ loading \in BOOLEAN /\ error \in BOOLEAN /\ creating \in BOOLEAN
    /\ astray \in BOOLEAN /\ unseen \in BOOLEAN /\ shrunk \in BOOLEAN /\ late \in BOOLEAN
    /\ DOMAIN requests = Request /\ youngest \in Request
    /\ \A r \in Request : TableShape(requests[r])

\* A fetch of this page, and a change of a row that was made and the page was not told of yet.
FetchesRows(q) == q.mine /\ q.kind = "fetch"
Untold(q) == q.mine /\ q.kind \in Tables!Actions /\ q.pc = "served" /\ q.ok
AllTold == \A r \in Request : ~Untold(requests[r])

\* The page loads while the fetch sent last is on its way, and its buttons wait
\* for a change of a row or for a new user.
TablesWait ==
    /\ loading => FetchesRows(requests[youngest])
    /\ busy # None => \E r \in Request : requests[r].mine /\ requests[r].kind \in RowChanges
    /\ creating => \E r \in Request : requests[r].mine /\ requests[r].kind = "create"

\* The fetch sent last, and once it has landed the table, holds what the
\* database does.
RowsAgree ==
    ~unseen /\ AllTold =>
        IF FetchesRows(requests[youngest])
        THEN requests[youngest].pc = "served" =>
                requests[youngest].answer = Tables!Answer(rows[page], requests[youngest].query)
        ELSE ~error /\ ~astray => shown = Tables!Answer(rows[page], query)

PagesOf(total, limit) == (total + limit - 1) \div limit

PageThere ==
    ~shrunk => query.page = 1 \/ query.page <= PagesOf(Tables!Answer(rows[page], query).total, query.limit)

\* The row in the drawer is there, or is of a delete that closes the drawer; no
\* other delete of that row is on its way.
ClosesDrawer(q) == q.mine /\ q.drawer = q.id

DrawerThere ==
    ~late /\ drawer # Tables!NoItem =>
        /\ \/ drawer.id \in Tables!Ids(rows[page])
           \/ \E r \in Request : Untold(requests[r]) /\ requests[r].kind = "delete" /\ requests[r].id = drawer.id
        /\ \A r \in Request : requests[r].kind = "delete" /\ requests[r].id = drawer.id => ClosesDrawer(requests[r])

TablesInv == TablesTyped /\ TablesWait /\ RowsAgree /\ PageThere /\ DrawerThere

LEMMA TableCounts == \A S : Tables!Cardinality(S) = Cardinality(S)
  BY DEF Tables!Cardinality, Cardinality

LEMMA LeastLimit == Tables!FirstPage \in Tables!Query /\ Tables!FirstPage.page = 1
  <1>1. PICK l \in TableLimit : l \in Nat \ {0} /\ \A k \in TableLimit : l <= k
    BY ClientsAssumption
  <1>2. TableLimit \subseteq Nat
    BY ClientsAssumption
  <1>3. Tables!Min(TableLimit) \in TableLimit
    BY <1>1, <1>2 DEF Tables!Min
  <1> QED
    BY <1>3 DEF Tables!FirstPage, Tables!Query

LEMMA IdleShape == TableShape(Tables!Idle) /\ Tables!Idle.kind = "none" /\ Tables!Idle.mine = FALSE
  BY LeastLimit DEF TableShape, Tables!Idle, Tables!NoAnswer, Tables!Actions

\* What an answer counts is a number, which depends on the filter alone.
LEMMA AnswerCounts ==
  ASSUME NEW list \in Seq(Tables!Item), NEW q
  PROVE  /\ Tables!Answer(list, q).total \in Nat
         /\ \A p : p.filter = q.filter => Tables!Answer(list, p).total = Tables!Answer(list, q).total
  <1> DEFINE S(f) == {i \in DOMAIN list : f = "all" \/ list[i].active}
  <1>1. \A p : Tables!Answer(list, p).total = Cardinality(S(p.filter))
    BY TableCounts DEF Tables!Answer
  <1>2. IsFiniteSet(DOMAIN list)
    BY FS_Interval
  <1>3. \A f : IsFiniteSet(S(f))
    BY <1>2, FS_Subset
  <1>4. \A f : Cardinality(S(f)) \in Nat
    BY <1>3, FS_CardinalityType
  <1> QED
    BY <1>1, <1>4

\* More rows have no fewer pages, and none or one have one at most.
LEMMA MorePages ==
  ASSUME NEW m \in Nat, NEW n \in Nat, m <= n, NEW l \in Nat \ {0}
  PROVE  PagesOf(m, l) \in Int /\ PagesOf(m, l) <= PagesOf(n, l)
  <1> DEFINE a == m + l - 1
             b == n + l - 1
             x == a \div l
             y == b \div l
  <1>1. a \in Nat /\ b \in Nat /\ a <= b
    OBVIOUS
  <1> HIDE DEF a, b
  <1>2. x \in Int /\ y \in Int /\ l * x <= a /\ b < l * (y + 1)
    BY <1>1
  <1>3. x <= y
    <2>1. SUFFICES ASSUME y + 1 <= x PROVE FALSE
      BY <1>2
    <2> HIDE DEF x, y
    <2>2. l * (y + 1) <= l * x
      BY <1>2, <2>1
    <2>3. l * (y + 1) \in Int /\ l * x \in Int
      BY <1>2
    <2> QED
      BY <1>1, <1>2, <2>2, <2>3
  <1> QED
    BY <1>2, <1>3 DEF PagesOf, a, b, x, y

LEMMA TakenOut ==
  ASSUME NEW S, NEW list \in Seq(S), NEW c \in DOMAIN list
  PROVE  /\ Tables!WithoutAt(list, c) \in Seq(S)
         /\ Len(Tables!WithoutAt(list, c)) = Len(list) - 1
         /\ \A i \in 1 .. Len(list) - 1 : Tables!WithoutAt(list, c)[i] = IF i < c THEN list[i] ELSE list[i + 1]
  BY RemovedAt DEF Tables!WithoutAt, Settings!WithoutAt

LEMMA ChangedRows ==
  ASSUME rows \in [Tables!Page -> Seq(Tables!Item)], NEW q,
         q.kind \in Tables!Actions, q.kind = "create" => q.id \in User, Tables!Accepted(q)
  PROVE  /\ Tables!Changed(q) \in [Tables!Page -> Seq(Tables!Item)]
         /\ \A p \in Tables!Page : \A x \in Tables!Ids(rows[p]) :
               x \in Tables!Ids(Tables!Changed(q)[p]) \/ (q.kind = "delete" /\ x = q.id)
  <1> DEFINE t == Tables!Of(q.id)
             list == rows[t]
  <1>1. t \in Tables!Page /\ list \in Seq(Tables!Item)
    BY DEF Tables!Of, Tables!Page
  <1>2. ASSUME NEW after \in Seq(Tables!Item), Tables!Changed(q) = [rows EXCEPT ![t] = after],
               \A i \in DOMAIN list : \/ \E j \in DOMAIN after : after[j].id = list[i].id
                                      \/ q.kind = "delete" /\ list[i].id = q.id
        PROVE  /\ Tables!Changed(q) \in [Tables!Page -> Seq(Tables!Item)]
               /\ \A p \in Tables!Page : \A x \in Tables!Ids(rows[p]) :
                     x \in Tables!Ids(Tables!Changed(q)[p]) \/ (q.kind = "delete" /\ x = q.id)
    <2>1. \A p \in Tables!Page : Tables!Changed(q)[p] = IF p = t THEN after ELSE rows[p]
      BY <1>2
    <2>2. Tables!Changed(q) \in [Tables!Page -> Seq(Tables!Item)]
      BY <1>1, <1>2
    <2> QED
      BY <1>2, <2>1, <2>2 DEF Tables!Ids
  <1>3. CASE q.kind = "create"
    <2> DEFINE row == [id |-> q.id, active |-> TRUE]
               after == <<row>> \o list
    <2>1. row \in Tables!Item /\ <<row>> \in Seq(Tables!Item) /\ Len(<<row>>) = 1
      BY <1>3 DEF Tables!Item, Tables!Row
    <2> HIDE DEF row
    <2>2. /\ after \in Seq(Tables!Item) /\ Len(after) = Len(list) + 1
          /\ \A i \in 1 .. Len(list) + 1 : after[i] = IF i <= 1 THEN <<row>>[i] ELSE list[i - 1]
      BY <1>1, <2>1, ConcatProperties
    <2>3. Tables!Changed(q) = [rows EXCEPT ![t] = after]
      BY <1>3 DEF Tables!Changed, row
    <2> HIDE DEF after, list
    <2>4. \A i \in DOMAIN list : i + 1 \in DOMAIN after /\ after[i + 1] = list[i]
      BY <1>1, <2>2
    <2> QED
      BY <1>2, <2>2, <2>3, <2>4 DEF list
  <1>4. CASE q.kind = "delete"
    <2> DEFINE after == Tables!WithoutAt(list, Tables!Place(list, q.id))
    <2>1. PICK k : k = Tables!Place(list, q.id)
      OBVIOUS
    <2>2. k \in DOMAIN list /\ list[k].id = q.id
      <3>1. \E i \in DOMAIN list : list[i].id = q.id
        BY <1>4 DEF Tables!Accepted, Tables!Ids
      <3> QED
        BY <2>1, <3>1 DEF Tables!Place
    <2>3. Tables!Changed(q) = [rows EXCEPT ![t] = after]
      BY <1>4 DEF Tables!Changed
    <2>4. /\ after \in Seq(Tables!Item) /\ Len(after) = Len(list) - 1
          /\ \A i \in 1 .. Len(list) - 1 : after[i] = IF i < k THEN list[i] ELSE list[i + 1]
      BY <1>1, <2>1, <2>2, TakenOut
    <2> HIDE DEF after, list
    <2>5. ASSUME NEW i \in DOMAIN list, list[i].id # q.id PROVE \E j \in DOMAIN after : after[j].id = list[i].id
      <3>1. i \in 1 .. Len(list) /\ k \in 1 .. Len(list) /\ i # k
        BY <1>1, <2>2, <2>5
      <3>2. CASE i < k
        <4>1. i \in 1 .. Len(list) - 1 /\ i \in DOMAIN after
          BY <1>1, <2>4, <3>1, <3>2
        <4> QED
          BY <2>4, <3>2, <4>1
      <3>3. CASE ~(i < k)
        <4>1. i - 1 \in 1 .. Len(list) - 1 /\ i - 1 \in DOMAIN after /\ ~(i - 1 < k) /\ i - 1 + 1 = i
          BY <1>1, <2>4, <3>1, <3>3
        <4> QED
          BY <2>4, <4>1
      <3> QED
        BY <3>2, <3>3
    <2> QED
      BY <1>2, <1>4, <2>3, <2>4, <2>5 DEF list
  <1>5. CASE q.kind \notin {"create", "delete"}
    <2> DEFINE on == q.kind = "activate"
               switched(i) == IF list[i].id = q.id THEN [list[i] EXCEPT !.active = on] ELSE list[i]
               after == [i \in DOMAIN list |-> switched(i)]
    <2>1. on \in BOOLEAN
      OBVIOUS
    <2>2. Tables!Changed(q) = [rows EXCEPT ![t] = after]
      BY <1>5 DEF Tables!Changed
    <2> HIDE DEF on
    <2>3. \A i \in DOMAIN list : switched(i) \in Tables!Item /\ switched(i).id = list[i].id
      <3>1. \A i \in DOMAIN list : list[i] \in Tables!Item
        BY <1>1
      <3> HIDE DEF list
      <3> QED
        BY <2>1, <3>1 DEF Tables!Item
    <2>4. DOMAIN list = 1 .. Len(list) /\ Len(list) \in Nat
      BY <1>1
    <2> HIDE DEF list, switched
    <2>5. after \in [1 .. Len(list) -> Tables!Item]
      BY <2>3, <2>4
    <2>6. after \in Seq(Tables!Item) /\ DOMAIN after = DOMAIN list /\ \A i \in DOMAIN list : after[i] = switched(i)
      BY <2>4, <2>5, MapIsSeq
    <2> HIDE DEF after
    <2> QED
      BY <1>2, <2>2, <2>3, <2>6 DEF list
  <1> QED
    BY <1>3, <1>4, <1>5

\* A fetch that is sent is the youngest one, and nothing is known of its answer.
LEMMA FetchSent ==
  ASSUME NEW r \in Request, NEW base, NEW q \in Tables!Query,
         DOMAIN base = Request, \A s \in Request : TableShape(base[s]), Tables!Fetch(r, base, q)
  PROVE  /\ DOMAIN requests' = Request /\ youngest' = r /\ loading' = TRUE /\ error' = FALSE
         /\ \A s \in Request \ {r} : requests'[s] = base[s]
         /\ requests'[r].kind = "fetch" /\ requests'[r].pc = "sent"
         /\ \A s \in Request : TableShape(requests'[s])
         /\ FetchesRows(requests'[r]) /\ RowsAgree'
  <1> DEFINE sent == [Tables!Idle EXCEPT !.kind = "fetch", !.pc = "sent", !.mine = TRUE, !.query = q]
  <1>1. /\ sent.kind = "fetch" /\ sent.pc = "sent" /\ sent.mine = TRUE /\ sent.query = q
        /\ sent = [kind |-> sent.kind, pc |-> sent.pc, mine |-> sent.mine, id |-> sent.id, query |-> sent.query,
                   drawer |-> sent.drawer, answer |-> sent.answer, ok |-> sent.ok]
        /\ sent.answer.total \in Nat /\ sent.ok \in BOOLEAN
    <2> DEFINE Alike(kind, pc, mine, x) ==
                  [kind : {kind}, pc : {pc}, mine : {mine}, id : {None}, query : {x}, drawer : {None},
                   answer : {Tables!NoAnswer}, ok : {FALSE}]
    <2>1. Tables!Idle \in Alike("none", "idle", FALSE, Tables!FirstPage)
      BY DEF Tables!Idle
    <2>2. sent \in Alike("fetch", "sent", TRUE, q)
      BY <2>1
    <2>3. Tables!NoAnswer.total \in Nat
      BY DEF Tables!NoAnswer
    <2> HIDE DEF sent
    <2> QED
      BY <2>2, <2>3
  <1>2. TableShape(sent)
    BY <1>1 DEF TableShape, Tables!Actions
  <1>3. requests' = [base EXCEPT ![r] = sent] /\ youngest' = r /\ loading' = TRUE /\ error' = FALSE
    BY DEF Tables!Fetch
  <1> HIDE DEF sent
  <1>4. DOMAIN requests' = Request /\ requests'[r] = sent /\ \A s \in Request \ {r} : requests'[s] = base[s]
    BY <1>3
  <1>5. \A s \in Request : TableShape(requests'[s])
    BY <1>2, <1>4
  <1>6. FetchesRows(requests'[r])
    BY <1>1, <1>4 DEF FetchesRows
  <1>7. RowsAgree'
    BY <1>1, <1>3, <1>4, <1>6 DEF RowsAgree
  <1> QED
    BY <1>1, <1>3, <1>4, <1>5, <1>6, <1>7

\* A slot that has a fetch or nothing, before and after, concerns no button and
\* no drawer.
LEMMA NoChangeSent ==
  ASSUME TablesInv, NEW r \in Request, \A s \in Request \ {r} : requests'[s] = requests[s],
         requests[r].kind \in {"none", "fetch"}, requests'[r].kind \in {"none", "fetch"},
         UNCHANGED <<rows, page, busy, creating, drawer, late>>
  PROVE  /\ (busy # None => \E s \in Request : requests[s].mine /\ requests[s].kind \in RowChanges)'
         /\ (creating => \E s \in Request : requests[s].mine /\ requests[s].kind = "create")'
         /\ DrawerThere'
         /\ AllTold <=> AllTold'
  <1>1. \A s \in Request : requests[s].kind \in Tables!Actions => requests'[s] = requests[s]
    BY DEF Tables!Actions
  <1>2. \A s \in Request : requests'[s].kind \in Tables!Actions => requests'[s] = requests[s]
    BY DEF Tables!Actions
  <1>3. (busy # None => \E s \in Request : requests[s].mine /\ requests[s].kind \in RowChanges)'
    <2>1. RowChanges \subseteq Tables!Actions
      BY DEF RowChanges, Tables!Actions
    <2> QED
      BY <1>1, <2>1 DEF TablesInv, TablesWait
  <1>4. (creating => \E s \in Request : requests[s].mine /\ requests[s].kind = "create")'
    BY <1>1 DEF TablesInv, TablesWait, Tables!Actions
  <1>5. \A s \in Request : Untold(requests[s]) <=> Untold(requests'[s])
    BY <1>1, <1>2 DEF Untold
  <1>6. DrawerThere'
    <2> SUFFICES ASSUME (~late /\ drawer # Tables!NoItem)' PROVE
             /\ \/ drawer'.id \in Tables!Ids(rows[page])
                \/ \E s \in Request : Untold(requests'[s]) /\ requests'[s].kind = "delete" /\ requests'[s].id = drawer.id
             /\ \A s \in Request : requests'[s].kind = "delete" /\ requests'[s].id = drawer.id => ClosesDrawer(requests'[s])
      BY DEF DrawerThere, Tables!Ids
    <2>1. /\ \/ drawer.id \in Tables!Ids(rows[page])
             \/ \E s \in Request : Untold(requests[s]) /\ requests[s].kind = "delete" /\ requests[s].id = drawer.id
          /\ \A s \in Request : requests[s].kind = "delete" /\ requests[s].id = drawer.id => ClosesDrawer(requests[s])
      BY DEF TablesInv, DrawerThere
    <2>2. \A s \in Request : Untold(requests[s]) => requests'[s] = requests[s]
      BY <1>1 DEF Untold
    <2>3. \A s \in Request : requests'[s].kind = "delete" => requests'[s] = requests[s]
      BY <1>2 DEF Tables!Actions
    <2> QED
      BY <2>1, <2>2, <2>3
  <1>7. AllTold <=> AllTold'
    BY <1>5 DEF AllTold
  <1> QED
    BY <1>3, <1>4, <1>6, <1>7

\* A fetch for this page with another filter, another page of it or again.
LEMMA Refetched ==
  ASSUME TablesInv, NEW r \in Request, requests[r].pc = "idle", NEW q \in Tables!Query,
         Tables!Fetch(r, requests, q), query' \in Tables!Query, shrunk' \in BOOLEAN, PageThere',
         UNCHANGED <<rows, page, shown, busy, creating, drawer, astray, unseen, late>>
  PROVE  TablesInv'
  <1>1. DOMAIN requests = Request /\ (\A s \in Request : TableShape(requests[s])) /\ requests[r].kind = "none"
    BY DEF TablesInv, TablesTyped, TableShape
  <1>2. /\ DOMAIN requests' = Request /\ youngest' = r /\ loading' = TRUE /\ error' = FALSE
        /\ \A s \in Request \ {r} : requests'[s] = requests[s]
        /\ requests'[r].kind = "fetch" /\ requests'[r].pc = "sent"
        /\ \A s \in Request : TableShape(requests'[s])
        /\ FetchesRows(requests'[r]) /\ RowsAgree'
    BY <1>1, FetchSent
  <1>3. TablesTyped'
    BY <1>2 DEF TablesInv, TablesTyped
  <1>4. /\ (busy # None => \E s \in Request : requests[s].mine /\ requests[s].kind \in RowChanges)'
        /\ (creating => \E s \in Request : requests[s].mine /\ requests[s].kind = "create")'
        /\ DrawerThere'
    BY <1>1, <1>2, NoChangeSent
  <1>5. TablesWait'
    BY <1>2, <1>4 DEF TablesWait
  <1> QED
    BY <1>2, <1>3, <1>4, <1>5 DEF TablesInv

LEMMA TablesRefine ==
  ASSUME TablesInv, NEW r \in Request, NEW filter \in {"all", "active"}, NEW limit \in TableLimit,
         Tables!Refine(r, filter, limit)
  PROVE  TablesInv'
  <1>1. query' \in Tables!Query /\ query'.page = 1
    BY DEF Tables!Refine, Tables!Query
  <1>2. PageThere'
    BY <1>1 DEF PageThere
  <1>3. /\ requests[r].pc = "idle" /\ Tables!Fetch(r, requests, query') /\ shrunk' = FALSE
        /\ UNCHANGED <<rows, page, shown, busy, creating, drawer, astray, unseen, late>>
    BY DEF Tables!Refine
  <1> QED
    BY <1>1, <1>2, <1>3, Refetched

LEMMA TablesRetry ==
  ASSUME TablesInv, NEW r \in Request, Tables!Retry(r)
  PROVE  TablesInv'
  <1>1. /\ requests[r].pc = "idle" /\ Tables!Fetch(r, requests, query)
        /\ UNCHANGED <<rows, page, query, shown, busy, creating, drawer, astray, unseen, shrunk, late>>
    BY DEF Tables!Retry
  <1>2. query \in Tables!Query /\ shrunk \in BOOLEAN
    BY DEF TablesInv, TablesTyped
  <1>3. PageThere'
    BY <1>1 DEF TablesInv, PageThere, Tables!Answer, Tables!PageOf
  <1> QED
    BY <1>1, <1>2, <1>3, Refetched

LEMMA TablesTurn ==
  ASSUME TablesInv, NEW r \in Request, NEW n \in 1 .. (shown.total + query.page), Tables!Turn(r, n)
  PROVE  TablesInv'
  <1>1. /\ requests[r].pc = "idle" /\ Tables!Fetch(r, requests, query')
        /\ query' = [query EXCEPT !.page = n]
        /\ shrunk' = (n > Tables!TotalPages \/ Tables!Answer(rows[page], query).total < shown.total)
        /\ UNCHANGED <<rows, page, shown, busy, creating, drawer, astray, unseen, late>>
    BY DEF Tables!Turn
  <1>2. /\ query \in Tables!Query /\ query.page \in Nat \ {0} /\ query.limit \in Nat \ {0}
        /\ shown.total \in Nat /\ rows[page] \in Seq(Tables!Item)
    BY ClientsAssumption DEF TablesInv, TablesTyped, Tables!Query
  <1>3. n \in Nat \ {0}
    BY <1>2
  <1>4. query' \in Tables!Query /\ query'.page = n /\ query'.filter = query.filter /\ query'.limit = query.limit
    BY <1>1, <1>2, <1>3 DEF Tables!Query
  <1> DEFINE total == Tables!Answer(rows[page], query).total
  <1>5. total \in Nat /\ Tables!Answer(rows[page], query').total = total
    BY <1>2, <1>4, AnswerCounts
  <1>6. shrunk' \in BOOLEAN
    BY <1>1
  <1>7. ~shrunk' => n <= PagesOf(total, query.limit)
    <2>1. SUFFICES ASSUME ~shrunk' PROVE n <= PagesOf(total, query.limit)
      OBVIOUS
    <2>2. ~(n > Tables!TotalPages) /\ ~(total < shown.total)
      BY <1>1, <2>1
    <2>3. Tables!TotalPages = PagesOf(shown.total, query.limit)
      BY DEF Tables!TotalPages, PagesOf
    <2> HIDE DEF total
    <2>4. shown.total <= total
      BY <1>2, <1>5, <2>2
    <2>5. /\ PagesOf(shown.total, query.limit) \in Int
          /\ PagesOf(shown.total, query.limit) <= PagesOf(total, query.limit)
      BY <1>2, <1>5, <2>4, MorePages
    <2>6. PagesOf(total, query.limit) \in Int
      BY <1>2, <1>5, MorePages
    <2> QED
      BY <1>3, <2>2, <2>3, <2>5, <2>6
  <1>8. Tables!Answer(rows[page], query)' = Tables!Answer(rows[page], query')
    BY <1>1
  <1>9. PageThere'
    BY <1>4, <1>5, <1>7, <1>8 DEF PageThere
  <1> QED
    BY <1>1, <1>4, <1>6, <1>9, Refetched

LEMMA TablesOpen ==
  ASSUME TablesInv, NEW r \in Request, NEW p \in Tables!Page, Tables!Open(r, p)
  PROVE  TablesInv'
  <1> DEFINE base == Tables!Orphaned
  <1>1. /\ page' = p /\ query' = Tables!FirstPage /\ shown' = Tables!NoAnswer
        /\ busy' = None /\ creating' = FALSE /\ drawer' = Tables!NoItem
        /\ astray' = FALSE /\ unseen' = FALSE /\ shrunk' = FALSE /\ late' = FALSE /\ rows' = rows
        /\ Tables!Fetch(r, base, Tables!FirstPage)
    BY DEF Tables!Open, Tables!Fresh
  <1>2. DOMAIN base = Request /\ \A s \in Request : TableShape(base[s])
    <2>1. DOMAIN base = Request /\ \A s \in Request : base[s] = [requests[s] EXCEPT !.mine = FALSE]
      BY DEF Tables!Orphaned
    <2>2. ASSUME NEW s \in Request PROVE TableShape([requests[s] EXCEPT !.mine = FALSE])
      <3>1. PICK o : o = requests[s]
        OBVIOUS
      <3>2. TableShape(o)
        BY <3>1 DEF TablesInv, TablesTyped
      <3> DEFINE Alike(mine) ==
                    [kind : {o.kind}, pc : {o.pc}, mine : {mine}, id : {o.id}, query : {o.query},
                     drawer : {o.drawer}, answer : {o.answer}, ok : {o.ok}]
      <3>3. o \in Alike(o.mine)
        BY <3>2 DEF TableShape
      <3>4. [o EXCEPT !.mine = FALSE] \in Alike(FALSE)
        BY <3>3
      <3>5. PICK x : x = [o EXCEPT !.mine = FALSE]
        OBVIOUS
      <3>6. TableShape(x)
        BY <3>2, <3>4, <3>5 DEF TableShape
      <3> QED
        BY <3>1, <3>5, <3>6
    <2> QED
      BY <2>1, <2>2
  <1> HIDE DEF base
  <1>3. /\ DOMAIN requests' = Request /\ youngest' = r /\ loading' = TRUE /\ error' = FALSE
        /\ \A s \in Request : TableShape(requests'[s])
        /\ FetchesRows(requests'[r]) /\ RowsAgree'
    BY <1>1, <1>2, LeastLimit, FetchSent
  <1>4. TablesTyped'
    BY <1>1, <1>3, LeastLimit DEF TablesInv, TablesTyped, Tables!NoAnswer
  <1>5. TablesWait'
    BY <1>1, <1>3 DEF TablesWait
  <1>6. PageThere'
    BY <1>1, LeastLimit DEF PageThere
  <1>7. DrawerThere'
    BY <1>1 DEF DrawerThere
  <1> QED
    BY <1>3, <1>4, <1>5, <1>6, <1>7 DEF TablesInv

LEMMA TablesLandFetch ==
  ASSUME TablesInv, NEW r \in Request, Tables!LandFetch(r)
  PROVE  TablesInv'
  <1> DEFINE q == requests[r]
  <1>1. /\ q.kind = "fetch" /\ q.pc = "served" /\ q.mine
        /\ requests' = [requests EXCEPT ![r] = Tables!Idle]
        /\ shown' = q.answer /\ loading' = FALSE
        /\ astray' = (r # youngest \/ q.query # query)
        /\ unseen' = (unseen /\ (r # youngest \/ q.answer # Tables!Answer(rows[page], q.query)))
        /\ UNCHANGED <<rows, page, query, error, busy, creating, drawer, youngest, shrunk, late>>
    BY DEF Tables!LandFetch, Tables!Free
  <1>2. TablesTyped /\ TableShape(q)
    BY DEF TablesInv, TablesTyped
  <1>3. /\ DOMAIN requests' = Request /\ requests'[r] = Tables!Idle
        /\ \A s \in Request \ {r} : requests'[s] = requests[s]
    BY <1>1, <1>2 DEF TablesTyped
  <1>4. TablesTyped'
    <2>1. \A s \in Request : TableShape(requests'[s])
      BY <1>2, <1>3, IdleShape DEF TablesTyped
    <2>2. astray' \in BOOLEAN /\ unseen' \in BOOLEAN /\ shown'.total \in Nat
      BY <1>1, <1>2 DEF TableShape
    <2> QED
      BY <1>1, <1>2, <1>3, <2>1, <2>2 DEF TablesTyped
  <1>5. /\ (busy # None => \E s \in Request : requests[s].mine /\ requests[s].kind \in RowChanges)'
        /\ (creating => \E s \in Request : requests[s].mine /\ requests[s].kind = "create")'
        /\ DrawerThere' /\ (AllTold <=> AllTold')
    BY <1>1, <1>3, IdleShape, NoChangeSent
  <1>6. TablesWait'
    BY <1>1, <1>5 DEF TablesWait
  <1>7. PageThere'
    <2>1. Tables!Answer(rows[page], query)' = Tables!Answer(rows[page], query)
      BY <1>1
    <2> QED
      BY <1>1, <2>1 DEF TablesInv, PageThere
  <1>8. RowsAgree'
    <2> SUFFICES ASSUME ~unseen', AllTold PROVE
             IF FetchesRows(requests'[youngest])
             THEN requests'[youngest].pc = "served" =>
                     requests'[youngest].answer = Tables!Answer(rows[page], requests'[youngest].query)
             ELSE ~error /\ ~astray' => shown' = Tables!Answer(rows[page], query)
      BY <1>1, <1>5 DEF RowsAgree
    <2>1. CASE r = youngest
      <3>1. ~FetchesRows(requests'[youngest])
        BY <1>3, <2>1, IdleShape DEF FetchesRows
      <3>2. q.answer = Tables!Answer(rows[page], q.query)
        <4>1. CASE unseen
          BY <1>1, <2>1, <4>1
        <4>2. CASE ~unseen
          BY <1>1, <2>1, <4>2 DEF TablesInv, RowsAgree, FetchesRows
        <4> QED
          BY <4>1, <4>2
      <3> QED
        BY <1>1, <3>1, <3>2
    <2>2. CASE r # youngest
      <3>1. youngest \in Request /\ requests'[youngest] = requests[youngest] /\ ~unseen /\ astray'
        <4>1. unseen \in BOOLEAN /\ youngest \in Request
          BY <1>2 DEF TablesTyped
        <4> QED
          BY <1>1, <1>3, <2>2, <4>1
      <3> QED
        BY <3>1 DEF TablesInv, RowsAgree
    <2> QED
      BY <2>1, <2>2
  <1> QED
    BY <1>4, <1>6, <1>7, <1>8, <1>5 DEF TablesInv

LEMMA TablesCloseDrawer ==
  ASSUME TablesInv, Tables!CloseDrawer
  PROVE  TablesInv'
  <1>1. /\ drawer' = Tables!NoItem
        /\ UNCHANGED <<rows, page, query, shown, loading, error, busy, creating, requests,
                       youngest, astray, unseen, shrunk, late>>
    BY DEF Tables!CloseDrawer, Tables!history
  <1>2. TablesTyped'
    BY <1>1 DEF TablesInv, TablesTyped
  <1>3. TablesWait' /\ RowsAgree' /\ PageThere'
    <2>1. AllTold <=> AllTold'
      BY <1>1 DEF AllTold
    <2> QED
      BY <1>1, <2>1 DEF TablesInv, TablesWait, RowsAgree, PageThere
  <1>4. DrawerThere'
    BY <1>1 DEF DrawerThere
  <1> QED
    BY <1>2, <1>3, <1>4 DEF TablesInv

LEMMA TablesOpenDrawer ==
  ASSUME TablesInv, NEW item, Tables!OpenDrawer(item)
  PROVE  TablesInv'
  <1>1. /\ drawer' = item
        /\ late' = \/ item.id \notin Tables!Ids(rows[page])
                   \/ \E r \in Request : requests[r].kind = "delete" /\ requests[r].id = item.id
        /\ UNCHANGED <<rows, page, query, shown, loading, error, busy, creating, requests,
                       youngest, astray, unseen, shrunk>>
    BY DEF Tables!OpenDrawer
  <1>2. TablesTyped'
    BY <1>1 DEF TablesInv, TablesTyped
  <1>3. TablesWait' /\ RowsAgree' /\ PageThere'
    <2>1. AllTold <=> AllTold'
      BY <1>1 DEF AllTold
    <2> QED
      BY <1>1, <2>1 DEF TablesInv, TablesWait, RowsAgree, PageThere
  <1>4. DrawerThere'
    <2>1. Tables!Ids(rows[page])' = Tables!Ids(rows[page])
      BY <1>1
    <2> QED
      BY <1>1, <2>1 DEF DrawerThere
  <1> QED
    BY <1>2, <1>3, <1>4 DEF TablesInv

\* A change that is sent waits for its answer, and its button with it.
LEMMA ChangeSent ==
  ASSUME TablesInv, NEW r \in Request, NEW kind \in Tables!Actions, NEW id, Tables!Send(r, kind, id),
         kind = "create" => id \in User
  PROVE  LET q == requests'[r]
         IN /\ DOMAIN requests' = Request /\ \A s \in Request \ {r} : requests'[s] = requests[s]
            /\ requests[r].kind = "none"
            /\ q.kind = kind /\ q.pc = "sent" /\ q.mine = TRUE /\ q.id = id /\ q.drawer = drawer.id
            /\ \A s \in Request : TableShape(requests'[s])
  <1> DEFINE sent == [Tables!Idle EXCEPT !.kind = kind, !.pc = "sent", !.mine = TRUE, !.id = id,
                                         !.query = query, !.drawer = drawer.id]
             Alike(k, pc, mine, i, x, d) ==
                 [kind : {k}, pc : {pc}, mine : {mine}, id : {i}, query : {x}, drawer : {d},
                  answer : {Tables!NoAnswer}, ok : {FALSE}]
  <1>1. TablesTyped /\ requests' = [requests EXCEPT ![r] = sent] /\ requests[r].pc = "idle"
    BY DEF TablesInv, Tables!Send
  <1>2. Tables!Idle \in Alike("none", "idle", FALSE, None, Tables!FirstPage, None)
    BY DEF Tables!Idle
  <1>3. sent \in Alike(kind, "sent", TRUE, id, query, drawer.id)
    BY <1>2
  <1>4. Tables!NoAnswer.total \in Nat /\ query \in Tables!Query /\ kind \notin {"none", "fetch"}
    BY <1>1 DEF Tables!NoAnswer, TablesTyped, Tables!Actions
  <1> HIDE DEF sent
  <1>5. TableShape(sent)
    BY <1>3, <1>4 DEF TableShape
  <1>6. DOMAIN requests' = Request /\ requests'[r] = sent /\ \A s \in Request \ {r} : requests'[s] = requests[s]
    BY <1>1 DEF TablesTyped
  <1>7. \A s \in Request : TableShape(requests'[s])
    BY <1>1, <1>5, <1>6 DEF TablesTyped
  <1>8. requests[r].kind = "none"
    BY <1>1 DEF TablesTyped, TableShape
  <1> QED
    BY <1>3, <1>6, <1>7, <1>8

\* What a change that was sent leaves as it was.
LEMMA ChangeSentKeeps ==
  ASSUME TablesInv, NEW r \in Request, NEW kind \in Tables!Actions, NEW id, Tables!Send(r, kind, id),
         kind = "create" => id \in User,
         UNCHANGED <<rows, page, query, shown, loading, error, drawer, youngest, astray, unseen, shrunk, late>>
  PROVE  RowsAgree' /\ PageThere' /\ DrawerThere' /\ (loading => FetchesRows(requests[youngest]))'
  <1>1. /\ \A s \in Request \ {r} : requests'[s] = requests[s]
        /\ requests[r].kind = "none"
        /\ requests'[r].kind = kind /\ requests'[r].pc = "sent" /\ requests'[r].mine = TRUE
        /\ requests'[r].id = id /\ requests'[r].drawer = drawer.id
    BY ChangeSent
  <1>2. youngest \in Request
    BY DEF TablesInv, TablesTyped
  <1>3. \A s \in Request : Untold(requests[s]) <=> Untold(requests'[s])
    BY <1>1 DEF Untold, Tables!Actions
  <1>4. \A s \in Request : FetchesRows(requests[s]) <=> FetchesRows(requests'[s])
    BY <1>1 DEF FetchesRows, Tables!Actions
  <1>5. \A s \in Request : FetchesRows(requests[s]) => requests'[s] = requests[s]
    BY <1>1 DEF FetchesRows
  <1>6. \A s \in Request : Untold(requests[s]) => requests'[s] = requests[s]
    BY <1>1 DEF Untold, Tables!Actions
  <1>7. Tables!Answer(rows[page], query)' = Tables!Answer(rows[page], query)
    OBVIOUS
  <1>8. AllTold' <=> AllTold
    BY <1>3 DEF AllTold
  <1>9. RowsAgree'
    <2> SUFFICES ASSUME ~unseen, AllTold PROVE
             IF FetchesRows(requests'[youngest])
             THEN requests'[youngest].pc = "served" =>
                     requests'[youngest].answer = Tables!Answer(rows[page], requests'[youngest].query)
             ELSE ~error /\ ~astray => shown = Tables!Answer(rows[page], query)
      BY <1>8 DEF RowsAgree
    <2> QED
      BY <1>2, <1>4, <1>5 DEF TablesInv, RowsAgree
  <1>10. PageThere'
    BY <1>7 DEF TablesInv, PageThere
  <1>11. DrawerThere'
    <2> SUFFICES ASSUME ~late, drawer # Tables!NoItem PROVE
             /\ \/ drawer.id \in Tables!Ids(rows[page])
                \/ \E s \in Request : Untold(requests'[s]) /\ requests'[s].kind = "delete" /\ requests'[s].id = drawer.id
             /\ \A s \in Request : requests'[s].kind = "delete" /\ requests'[s].id = drawer.id => ClosesDrawer(requests'[s])
      BY DEF DrawerThere, Tables!Ids
    <2>1. /\ \/ drawer.id \in Tables!Ids(rows[page])
             \/ \E s \in Request : Untold(requests[s]) /\ requests[s].kind = "delete" /\ requests[s].id = drawer.id
          /\ \A s \in Request : requests[s].kind = "delete" /\ requests[s].id = drawer.id => ClosesDrawer(requests[s])
      BY DEF TablesInv, DrawerThere
    <2>2. requests'[r].id = drawer.id => ClosesDrawer(requests'[r])
      BY <1>1 DEF ClosesDrawer
    <2>3. \/ drawer.id \in Tables!Ids(rows[page])
          \/ \E s \in Request : Untold(requests'[s]) /\ requests'[s].kind = "delete" /\ requests'[s].id = drawer.id
      BY <1>6, <2>1
    <2>4. \A s \in Request : requests'[s].kind = "delete" /\ requests'[s].id = drawer.id => ClosesDrawer(requests'[s])
      BY <1>1, <2>1, <2>2
    <2> QED
      BY <2>3, <2>4
  <1>12. (loading => FetchesRows(requests[youngest]))'
    BY <1>2, <1>4 DEF TablesInv, TablesWait
  <1> QED
    BY <1>9, <1>10, <1>11, <1>12

LEMMA TablesAct ==
  ASSUME TablesInv, NEW r \in Request, NEW kind \in Tables!Actions, NEW item, Tables!Act(r, kind, item)
  PROVE  TablesInv'
  <1>1. /\ busy' = item.id /\ Tables!Send(r, kind, item.id)
        /\ UNCHANGED <<rows, page, query, shown, loading, error, creating, drawer,
                       youngest, astray, unseen, shrunk, late>>
    BY DEF Tables!Act, Tables!history
  <1>2. kind \in RowChanges /\ kind # "create"
    BY DEF Tables!Act, Tables!Offers, RowChanges
  <1>3. /\ DOMAIN requests' = Request /\ \A s \in Request \ {r} : requests'[s] = requests[s]
        /\ requests[r].kind = "none"
        /\ requests'[r].kind = kind /\ requests'[r].mine = TRUE
        /\ \A s \in Request : TableShape(requests'[s])
    BY <1>1, <1>2, ChangeSent
  <1>4. TablesTyped'
    BY <1>1, <1>3 DEF TablesInv, TablesTyped
  <1>5. RowsAgree' /\ PageThere' /\ DrawerThere' /\ (loading => FetchesRows(requests[youngest]))'
    BY <1>1, <1>2, ChangeSentKeeps
  <1>6. TablesWait'
    <2>1. (busy # None => \E s \in Request : requests[s].mine /\ requests[s].kind \in RowChanges)'
      BY <1>2, <1>3
    <2>2. (creating => \E s \in Request : requests[s].mine /\ requests[s].kind = "create")'
      BY <1>1, <1>3 DEF TablesInv, TablesWait
    <2> QED
      BY <1>5, <2>1, <2>2 DEF TablesWait
  <1> QED
    BY <1>4, <1>5, <1>6 DEF TablesInv

LEMMA TablesCreateUser ==
  ASSUME TablesInv, NEW r \in Request, NEW u \in User, Tables!HandleCreateUser(r, u)
  PROVE  TablesInv'
  <1>1. /\ creating' = TRUE /\ Tables!Send(r, "create", u)
        /\ UNCHANGED <<rows, page, query, shown, loading, error, busy, drawer,
                       youngest, astray, unseen, shrunk, late>>
    BY DEF Tables!HandleCreateUser, Tables!history
  <1>2. "create" \in Tables!Actions
    BY DEF Tables!Actions
  <1>3. /\ DOMAIN requests' = Request /\ \A s \in Request \ {r} : requests'[s] = requests[s]
        /\ requests[r].kind = "none"
        /\ requests'[r].kind = "create" /\ requests'[r].mine = TRUE
        /\ \A s \in Request : TableShape(requests'[s])
    BY <1>1, <1>2, ChangeSent
  <1>4. TablesTyped'
    BY <1>1, <1>3 DEF TablesInv, TablesTyped
  <1>5. RowsAgree' /\ PageThere' /\ DrawerThere' /\ (loading => FetchesRows(requests[youngest]))'
    BY <1>1, <1>2, ChangeSentKeeps
  <1>6. TablesWait'
    <2>1. (busy # None => \E s \in Request : requests[s].mine /\ requests[s].kind \in RowChanges)'
      BY <1>1, <1>3 DEF TablesInv, TablesWait, RowChanges
    <2>2. (creating => \E s \in Request : requests[s].mine /\ requests[s].kind = "create")'
      BY <1>3
    <2> QED
      BY <1>5, <2>1, <2>2 DEF TablesWait
  <1> QED
    BY <1>4, <1>5, <1>6 DEF TablesInv

\* The slot of a request that was served.
ServedWith(r, answer, ok) ==
    /\ requests[r].pc = "sent" /\ answer.total \in Nat /\ ok \in BOOLEAN
    /\ \/ requests' = [requests EXCEPT ![r].pc = "served", ![r].answer = answer] /\ ok = requests[r].ok
       \/ requests' = [requests EXCEPT ![r].pc = "served", ![r].ok = ok] /\ answer = requests[r].answer

LEMMA SlotServed ==
  ASSUME TablesTyped, NEW r \in Request, NEW answer, NEW ok, ServedWith(r, answer, ok)
  PROVE  /\ DOMAIN requests' = Request /\ \A s \in Request \ {r} : requests'[s] = requests[s]
         /\ requests'[r].pc = "served" /\ requests'[r].answer = answer /\ requests'[r].ok = ok
         /\ requests'[r].kind = requests[r].kind /\ requests'[r].mine = requests[r].mine
         /\ requests'[r].id = requests[r].id /\ requests'[r].drawer = requests[r].drawer
         /\ requests'[r].query = requests[r].query
         /\ \A s \in Request : TableShape(requests'[s])
  <1>1. PICK o : o = requests[r]
    OBVIOUS
  <1>2. TableShape(o) /\ o.pc = "sent"
    BY <1>1 DEF TablesTyped, ServedWith
  <1>3. DOMAIN requests' = Request /\ \A s \in Request \ {r} : requests'[s] = requests[s]
    BY DEF TablesTyped, ServedWith
  <1> DEFINE Alike(pc, a, x) ==
                [kind : {o.kind}, pc : {pc}, mine : {o.mine}, id : {o.id}, query : {o.query},
                 drawer : {o.drawer}, answer : {a}, ok : {x}]
  <1>4. o \in Alike(o.pc, o.answer, o.ok)
    BY <1>2 DEF TableShape
  <1>5. \/ requests'[r] = [o EXCEPT !.pc = "served", !.answer = answer] /\ ok = o.ok
        \/ requests'[r] = [o EXCEPT !.pc = "served", !.ok = ok] /\ answer = o.answer
    BY <1>1 DEF TablesTyped, ServedWith
  <1>6. requests'[r] \in Alike("served", answer, ok)
    BY <1>4, <1>5
  <1>7. PICK x : x = requests'[r]
    OBVIOUS
  <1>8. TableShape(x)
    BY <1>2, <1>6, <1>7 DEF TableShape, ServedWith
  <1>9. \A s \in Request : TableShape(requests'[s])
    BY <1>3, <1>7, <1>8 DEF TablesTyped
  <1> QED
    BY <1>1, <1>3, <1>6, <1>9

LEMMA TablesServeFetch ==
  ASSUME TablesInv, NEW r \in Request, Tables!Serve(r), requests[r].kind = "fetch"
  PROVE  TablesInv'
  <1> DEFINE q == requests[r]
  <1>0. PICK answer : answer = Tables!Answer(rows[page], q.query)
    OBVIOUS
  <1>1. /\ q.pc = "sent"
        /\ requests' = [requests EXCEPT ![r].pc = "served", ![r].answer = answer]
        /\ late' = (late \/ (~q.mine /\ q.id = drawer.id))
        /\ UNCHANGED <<rows, unseen, shrunk, page, query, shown, loading, error, busy, creating,
                       drawer, youngest, astray>>
    BY <1>0 DEF Tables!Serve, Tables!view
  <1>2. TablesTyped /\ rows[page] \in Seq(Tables!Item) /\ late \in BOOLEAN /\ youngest \in Request
    BY DEF TablesInv, TablesTyped
  <1>3. answer.total \in Nat /\ q.ok \in BOOLEAN
    BY <1>0, <1>2, AnswerCounts DEF TablesTyped, TableShape
  <1>4. /\ DOMAIN requests' = Request /\ \A s \in Request \ {r} : requests'[s] = requests[s]
        /\ requests'[r].pc = "served" /\ requests'[r].answer = answer
        /\ requests'[r].kind = q.kind /\ requests'[r].mine = q.mine /\ requests'[r].query = q.query
        /\ \A s \in Request : TableShape(requests'[s])
    <2>1. ServedWith(r, answer, q.ok)
      BY <1>1, <1>3 DEF ServedWith
    <2> QED
      BY <1>2, <2>1, SlotServed
  <1>5. TablesTyped'
    <2>1. late' \in BOOLEAN
      BY <1>1, <1>2
    <2> QED
      BY <1>1, <1>4, <2>1 DEF TablesInv, TablesTyped
  <1>6. late => late'
    BY <1>1, <1>2
  <1>7. /\ (busy # None => \E s \in Request : requests[s].mine /\ requests[s].kind \in RowChanges)'
        /\ (creating => \E s \in Request : requests[s].mine /\ requests[s].kind = "create")'
    BY <1>1, <1>4 DEF TablesInv, TablesWait
  <1>8. \A s \in Request : FetchesRows(requests'[s]) <=> FetchesRows(requests[s])
    BY <1>4 DEF FetchesRows
  <1>9. TablesWait'
    BY <1>1, <1>2, <1>7, <1>8 DEF TablesInv, TablesWait
  <1>10. \A s \in Request : Untold(requests'[s]) <=> Untold(requests[s])
    BY <1>4 DEF Untold, Tables!Actions
  <1>11. PageThere'
    <2>1. Tables!Answer(rows[page], query)' = Tables!Answer(rows[page], query)
      BY <1>1
    <2> QED
      BY <1>1, <2>1 DEF TablesInv, PageThere
  <1>12. RowsAgree'
    <2> SUFFICES ASSUME ~unseen, AllTold PROVE
             IF FetchesRows(requests'[youngest])
             THEN requests'[youngest].pc = "served" =>
                     requests'[youngest].answer = Tables!Answer(rows[page], requests'[youngest].query)
             ELSE ~error /\ ~astray => shown = Tables!Answer(rows[page], query)
      BY <1>1, <1>10 DEF RowsAgree, AllTold
    <2>1. CASE youngest = r
      <3>1. requests'[r].answer = Tables!Answer(rows[page], requests'[r].query)
        BY <1>0, <1>4
      <3> QED
        BY <1>2, <1>8, <2>1, <3>1 DEF TablesInv, RowsAgree
    <2>2. CASE youngest # r
      BY <1>2, <1>4, <2>2 DEF TablesInv, RowsAgree
    <2> QED
      BY <2>1, <2>2
  <1>13. DrawerThere'
    <2> SUFFICES ASSUME ~late, drawer # Tables!NoItem PROVE
             /\ \/ drawer.id \in Tables!Ids(rows[page])
                \/ \E s \in Request : Untold(requests'[s]) /\ requests'[s].kind = "delete" /\ requests'[s].id = drawer.id
             /\ \A s \in Request : requests'[s].kind = "delete" /\ requests'[s].id = drawer.id => ClosesDrawer(requests'[s])
      BY <1>1, <1>6 DEF DrawerThere, Tables!Ids
    <2>1. /\ \/ drawer.id \in Tables!Ids(rows[page])
             \/ \E s \in Request : Untold(requests[s]) /\ requests[s].kind = "delete" /\ requests[s].id = drawer.id
          /\ \A s \in Request : requests[s].kind = "delete" /\ requests[s].id = drawer.id => ClosesDrawer(requests[s])
      BY DEF TablesInv, DrawerThere
    <2>2. requests'[r].kind # "delete" /\ requests[r].kind # "delete"
      BY <1>4
    <2> QED
      BY <1>4, <1>10, <2>1, <2>2
  <1> QED
    BY <1>5, <1>9, <1>11, <1>12, <1>13 DEF TablesInv

LEMMA TablesServeChange ==
  ASSUME TablesInv, NEW r \in Request, Tables!Serve(r), requests[r].kind # "fetch"
  PROVE  TablesInv'
  <1> DEFINE q == requests[r]
  <1>0. PICK ok : ok = Tables!Accepted(q)
    OBVIOUS
  <1>1. /\ q.pc = "sent"
        /\ requests' = [requests EXCEPT ![r].pc = "served", ![r].ok = ok]
        /\ rows' = IF ok THEN Tables!Changed(q) ELSE rows
        /\ unseen' = (unseen \/ (~q.mine /\ rows' # rows))
        /\ shrunk' = (shrunk \/ Tables!Answer(rows'[page], query).total < Tables!Answer(rows[page], query).total)
        /\ late' = (late \/ (~q.mine /\ q.id = drawer.id))
        /\ UNCHANGED <<page, query, shown, loading, error, busy, creating, drawer, youngest, astray>>
    BY <1>0 DEF Tables!Serve, Tables!view
  <1>2. TablesTyped /\ TableShape(q) /\ page \in Tables!Page /\ q.kind \in Tables!Actions
    <2>1. TablesTyped /\ TableShape(q) /\ page \in Tables!Page
      BY DEF TablesInv, TablesTyped
    <2> QED
      BY <1>1, <2>1 DEF TableShape
  <1>3. q.answer.total \in Nat /\ ok \in BOOLEAN
    <2>1. CASE q.kind = "create"
      BY <1>2, <1>0, <2>1 DEF TableShape, Tables!Accepted
    <2>2. CASE q.kind = "delete"
      BY <1>2, <1>0, <2>2 DEF TableShape, Tables!Accepted
    <2>3. CASE q.kind \notin {"create", "delete"}
      <3>1. ok = (q.id \in Tables!Ids(rows[Tables!Of(q.id)]))
        BY <1>0, <2>3 DEF Tables!Accepted
      <3>2. q.answer.total \in Nat
        BY <1>2 DEF TableShape
      <3> QED
        BY <3>1, <3>2
    <2> QED
      BY <2>1, <2>2, <2>3
  <1>4. /\ rows \in [Tables!Page -> Seq(Tables!Item)]
        /\ rows' \in [Tables!Page -> Seq(Tables!Item)]
        /\ \A x \in Tables!Ids(rows[page]) :
              x \in Tables!Ids(rows'[page]) \/ (ok /\ q.kind = "delete" /\ x = q.id)
    <2>1. rows \in [Tables!Page -> Seq(Tables!Item)] /\ (q.kind = "create" => q.id \in User)
      BY <1>2 DEF TablesTyped, TableShape
    <2>2. CASE ok
      BY <1>0, <1>1, <1>2, <2>1, <2>2, ChangedRows
    <2>3. CASE ~ok
      BY <1>1, <2>1, <2>3
    <2> QED
      BY <2>1, <2>2, <2>3
  <1>5. /\ DOMAIN requests' = Request /\ \A s \in Request \ {r} : requests'[s] = requests[s]
        /\ requests'[r].pc = "served" /\ requests'[r].ok = ok
        /\ requests'[r].kind = q.kind /\ requests'[r].mine = q.mine /\ requests'[r].id = q.id
        /\ requests'[r].drawer = q.drawer
        /\ \A s \in Request : TableShape(requests'[s])
    <2>1. ServedWith(r, q.answer, ok)
      BY <1>1, <1>3 DEF ServedWith
    <2> QED
      BY <1>2, <2>1, SlotServed
  <1>6. /\ unseen \in BOOLEAN /\ late \in BOOLEAN /\ shrunk \in BOOLEAN /\ youngest \in Request
        /\ query \in Tables!Query
    BY <1>2 DEF TablesTyped
  <1>7. /\ late' \in BOOLEAN /\ unseen' \in BOOLEAN /\ shrunk' \in BOOLEAN
        /\ (~late' => ~late /\ ~(~q.mine /\ q.id = drawer.id))
        /\ (~unseen' => ~unseen /\ (q.mine \/ rows' = rows))
    BY <1>1, <1>6
  <1>8. TablesTyped'
    BY <1>1, <1>2, <1>4, <1>5, <1>7 DEF TablesTyped
  <1>9. /\ (busy # None => \E s \in Request : requests[s].mine /\ requests[s].kind \in RowChanges)'
        /\ (creating => \E s \in Request : requests[s].mine /\ requests[s].kind = "create")'
    BY <1>1, <1>5 DEF TablesInv, TablesWait
  <1>10. \A s \in Request : FetchesRows(requests'[s]) <=> FetchesRows(requests[s])
    BY <1>5 DEF FetchesRows
  <1>11. TablesWait'
    BY <1>1, <1>6, <1>9, <1>10 DEF TablesInv, TablesWait
  <1>12. ~Untold(q) /\ (Untold(requests'[r]) <=> q.mine /\ ok)
    BY <1>1, <1>2, <1>5 DEF Untold
  <1>13. ~FetchesRows(q)
    BY <1>2 DEF FetchesRows, Tables!Actions
  <1>14. RowsAgree'
    <2> SUFFICES ASSUME ~unseen', AllTold' PROVE
             IF FetchesRows(requests'[youngest])
             THEN requests'[youngest].pc = "served" =>
                     requests'[youngest].answer = Tables!Answer(rows'[page], requests'[youngest].query)
             ELSE ~error /\ ~astray => shown = Tables!Answer(rows'[page], query)
      BY <1>1 DEF RowsAgree
    <2>1. ~(q.mine /\ ok)
      BY <1>12 DEF AllTold
    <2>2. rows' = rows /\ ~unseen
      BY <1>1, <1>7, <2>1
    <2>3. AllTold
      <3>1. \A s \in Request \ {r} : ~Untold(requests[s])
        BY <1>5 DEF AllTold
      <3> QED
        BY <1>12, <3>1 DEF AllTold
    <2>4. FetchesRows(requests'[youngest]) => requests'[youngest] = requests[youngest]
      BY <1>5, <1>6, <1>10, <1>13
    <2> QED
      BY <1>6, <1>10, <2>2, <2>3, <2>4 DEF TablesInv, RowsAgree
  <1>15. PageThere'
    <2> DEFINE m == Tables!Answer(rows[page], query).total
               n == Tables!Answer(rows'[page], query).total
    <2>1. m \in Nat /\ n \in Nat
      BY <1>2, <1>4, AnswerCounts
    <2>2. Tables!Answer(rows[page], query)'.total = n
      BY <1>1
    <2>3. shrunk' = (shrunk \/ n < m)
      BY <1>1
    <2> HIDE DEF m, n
    <2>4. SUFFICES ASSUME ~shrunk' PROVE query.page = 1 \/ query.page <= PagesOf(n, query.limit)
      BY <1>1, <2>2 DEF PageThere
    <2>5. ~shrunk /\ m <= n
      <3>1. ~shrunk /\ ~(n < m)
        BY <2>3, <2>4, Zenon
      <3> QED
        BY <2>1, <3>1
    <2>6. query.page = 1 \/ query.page <= PagesOf(m, query.limit)
      BY <2>5 DEF TablesInv, PageThere, m
    <2>7. query.page \in Nat /\ query.limit \in Nat \ {0}
      BY <1>6, ClientsAssumption DEF Tables!Query
    <2>8. PagesOf(m, query.limit) \in Int /\ PagesOf(m, query.limit) <= PagesOf(n, query.limit)
      BY <2>1, <2>5, <2>7, MorePages
    <2>9. PagesOf(n, query.limit) \in Int
      BY <2>1, <2>7, MorePages
    <2> QED
      BY <2>6, <2>7, <2>8, <2>9
  <1>16. DrawerThere'
    <2> SUFFICES ASSUME ~late', drawer # Tables!NoItem PROVE
             /\ \/ drawer.id \in Tables!Ids(rows'[page])
                \/ \E s \in Request : Untold(requests'[s]) /\ requests'[s].kind = "delete" /\ requests'[s].id = drawer.id
             /\ \A s \in Request : requests'[s].kind = "delete" /\ requests'[s].id = drawer.id => ClosesDrawer(requests'[s])
      BY <1>1 DEF DrawerThere, Tables!Ids
    <2>1. /\ \/ drawer.id \in Tables!Ids(rows[page])
             \/ \E s \in Request : Untold(requests[s]) /\ requests[s].kind = "delete" /\ requests[s].id = drawer.id
          /\ \A s \in Request : requests[s].kind = "delete" /\ requests[s].id = drawer.id => ClosesDrawer(requests[s])
      BY <1>7 DEF TablesInv, DrawerThere
    <2>2. \A s \in Request : requests'[s].kind = "delete" /\ requests'[s].id = drawer.id => ClosesDrawer(requests'[s])
      BY <1>5, <2>1 DEF ClosesDrawer
    <2>3. CASE drawer.id \in Tables!Ids(rows[page])
      <3>1. CASE drawer.id \in Tables!Ids(rows'[page])
        BY <2>2, <3>1
      <3>2. CASE drawer.id \notin Tables!Ids(rows'[page])
        <4>1. ok /\ q.kind = "delete" /\ drawer.id = q.id
          BY <1>4, <2>3, <3>2
        <4>2. q.mine
          BY <2>1, <4>1 DEF ClosesDrawer
        <4>3. Untold(requests'[r]) /\ requests'[r].kind = "delete" /\ requests'[r].id = drawer.id
          BY <1>5, <1>12, <4>1, <4>2
        <4> QED
          BY <2>2, <4>3
      <3> QED
        BY <3>1, <3>2
    <2>4. CASE \E s \in Request : Untold(requests[s]) /\ requests[s].kind = "delete" /\ requests[s].id = drawer.id
      BY <1>5, <1>12, <2>2, <2>4
    <2> QED
      BY <2>1, <2>3, <2>4
  <1> QED
    BY <1>8, <1>11, <1>14, <1>15, <1>16 DEF TablesInv

LEMMA TablesLandAction ==
  ASSUME TablesInv, NEW r \in Request, Tables!LandAction(r)
  PROVE  TablesInv'
  <1>0. PICK q : q = requests[r]
    OBVIOUS
  <1>1. /\ q.kind \in Tables!Actions /\ q.pc = "served" /\ q.mine
        /\ IF q.ok THEN Tables!Fetch(r, requests, q.query)
                   ELSE requests' = [requests EXCEPT ![r] = Tables!Idle] /\ UNCHANGED <<loading, error, youngest>>
        /\ drawer' = IF q.ok /\ q.kind = "delete" /\ q.drawer = q.id THEN Tables!NoItem ELSE drawer
        /\ IF q.kind = "create" THEN creating' = FALSE /\ UNCHANGED busy
                                ELSE busy' = None /\ UNCHANGED creating
        /\ UNCHANGED <<rows, page, query, shown, astray, unseen, shrunk, late>>
    BY <1>0 DEF Tables!LandAction, Tables!Free
  <1>2. /\ TablesTyped /\ TableShape(q) /\ youngest \in Request /\ DOMAIN requests = Request
        /\ \A s \in Request : TableShape(requests[s])
    BY <1>0 DEF TablesInv, TablesTyped
  <1>3. ~FetchesRows(q)
    BY <1>1 DEF FetchesRows, Tables!Actions
  <1>4. /\ DOMAIN requests' = Request /\ \A s \in Request \ {r} : requests'[s] = requests[s]
        /\ requests'[r].kind \in {"none", "fetch"} /\ youngest' \in Request
        /\ loading' \in BOOLEAN /\ error' \in BOOLEAN
        /\ \A s \in Request : TableShape(requests'[s])
        /\ RowsAgree' /\ (loading => FetchesRows(requests[youngest]))'
    <2>1. CASE q.ok
      <3>1. q.query \in Tables!Query /\ Tables!Fetch(r, requests, q.query)
        BY <1>1, <1>2, <2>1 DEF TableShape
      <3> QED
        BY <1>2, <3>1, FetchSent
    <2>2. CASE ~q.ok
      <3>1. requests' = [requests EXCEPT ![r] = Tables!Idle] /\ UNCHANGED <<loading, error, youngest>>
        BY <1>1, <2>2
      <3>2. /\ DOMAIN requests' = Request /\ requests'[r] = Tables!Idle
            /\ \A s \in Request \ {r} : requests'[s] = requests[s]
        BY <1>2, <3>1
      <3>3. \A s \in Request : TableShape(requests'[s])
        BY <1>2, <3>2, IdleShape
      <3>4. \A s \in Request : FetchesRows(requests'[s]) <=> FetchesRows(requests[s])
        BY <1>0, <1>3, <3>2, IdleShape DEF FetchesRows
      <3>5. \A s \in Request : Untold(requests'[s]) <=> Untold(requests[s])
        BY <1>0, <2>2, <3>2, IdleShape DEF Untold
      <3>6. RowsAgree'
        <4> SUFFICES ASSUME ~unseen, AllTold PROVE
                 IF FetchesRows(requests'[youngest])
                 THEN requests'[youngest].pc = "served" =>
                         requests'[youngest].answer = Tables!Answer(rows[page], requests'[youngest].query)
                 ELSE ~error /\ ~astray => shown = Tables!Answer(rows[page], query)
          BY <1>1, <3>1, <3>5 DEF RowsAgree, AllTold
        <4>1. FetchesRows(requests'[youngest]) => requests'[youngest] = requests[youngest]
          BY <1>0, <1>2, <1>3, <3>2, <3>4
        <4> QED
          BY <1>2, <3>4, <4>1 DEF TablesInv, RowsAgree
      <3>7. (loading => FetchesRows(requests[youngest]))'
        BY <1>2, <3>1, <3>4 DEF TablesInv, TablesWait
      <3> QED
        BY <1>2, <3>1, <3>2, <3>3, <3>6, <3>7, IdleShape DEF TablesTyped
    <2> QED
      BY <2>1, <2>2
  <1>5. TablesTyped'
    <2>1. creating' \in BOOLEAN
      BY <1>1, <1>2 DEF TablesTyped
    <2> QED
      BY <1>1, <1>2, <1>4, <2>1 DEF TablesTyped
  <1>6. TablesWait'
    <2>1. (busy # None => \E s \in Request : requests[s].mine /\ requests[s].kind \in RowChanges)'
      <3> SUFFICES ASSUME busy' # None PROVE \E s \in Request : requests'[s].mine /\ requests'[s].kind \in RowChanges
        OBVIOUS
      <3>1. q.kind = "create" /\ busy # None
        BY <1>1
      <3>2. PICK s \in Request : requests[s].mine /\ requests[s].kind \in RowChanges
        BY <3>1 DEF TablesInv, TablesWait
      <3>3. s # r
        BY <1>0, <3>1, <3>2 DEF RowChanges
      <3> QED
        BY <1>4, <3>2, <3>3
    <2>2. (creating => \E s \in Request : requests[s].mine /\ requests[s].kind = "create")'
      <3> SUFFICES ASSUME creating' PROVE \E s \in Request : requests'[s].mine /\ requests'[s].kind = "create"
        OBVIOUS
      <3>1. q.kind # "create" /\ creating
        BY <1>1
      <3>2. PICK s \in Request : requests[s].mine /\ requests[s].kind = "create"
        BY <3>1 DEF TablesInv, TablesWait
      <3>3. s # r
        BY <1>0, <3>1, <3>2
      <3> QED
        BY <1>4, <3>2, <3>3
    <2> QED
      BY <1>4, <2>1, <2>2 DEF TablesWait
  <1>7. PageThere'
    <2>1. Tables!Answer(rows[page], query)' = Tables!Answer(rows[page], query)
      BY <1>1
    <2> QED
      BY <1>1, <2>1 DEF TablesInv, PageThere
  <1>8. DrawerThere'
    <2> SUFFICES ASSUME ~late, drawer' # Tables!NoItem PROVE
             /\ \/ drawer'.id \in Tables!Ids(rows[page])
                \/ \E s \in Request : Untold(requests'[s]) /\ requests'[s].kind = "delete" /\ requests'[s].id = drawer'.id
             /\ \A s \in Request : requests'[s].kind = "delete" /\ requests'[s].id = drawer'.id => ClosesDrawer(requests'[s])
      BY <1>1 DEF DrawerThere, Tables!Ids
    <2>1. drawer' = drawer /\ drawer # Tables!NoItem /\ ~(q.ok /\ q.kind = "delete" /\ q.drawer = q.id)
      BY <1>1
    <2>2. /\ \/ drawer.id \in Tables!Ids(rows[page])
             \/ \E s \in Request : Untold(requests[s]) /\ requests[s].kind = "delete" /\ requests[s].id = drawer.id
          /\ \A s \in Request : requests[s].kind = "delete" /\ requests[s].id = drawer.id => ClosesDrawer(requests[s])
      BY <2>1 DEF TablesInv, DrawerThere
    <2>3. ASSUME Untold(q), q.kind = "delete", q.id = drawer.id PROVE FALSE
      BY <1>0, <2>1, <2>2, <2>3 DEF Untold, ClosesDrawer
    <2>4. \/ drawer.id \in Tables!Ids(rows[page])
          \/ \E s \in Request : Untold(requests'[s]) /\ requests'[s].kind = "delete" /\ requests'[s].id = drawer.id
      BY <1>0, <1>4, <2>2, <2>3
    <2>5. \A s \in Request : requests'[s].kind = "delete" /\ requests'[s].id = drawer.id => ClosesDrawer(requests'[s])
      BY <1>4, <2>2
    <2> QED
      BY <2>1, <2>4, <2>5
  <1> QED
    BY <1>4, <1>5, <1>6, <1>7, <1>8 DEF TablesInv

LEMMA TablesLost ==
  ASSUME TablesInv, NEW r \in Request, Tables!Lost(r)
  PROVE  TablesInv'
  <1>0. PICK q : q = requests[r]
    OBVIOUS
  <1>1. /\ q.pc # "idle" /\ requests' = [requests EXCEPT ![r] = Tables!Idle]
        /\ IF q.mine
           THEN /\ loading' = (loading /\ q.kind # "fetch")
                /\ error' = (error \/ q.kind = "fetch")
                /\ busy' = IF q.kind \in RowChanges THEN None ELSE busy
                /\ creating' = (creating /\ q.kind # "create")
                /\ unseen' = (unseen \/ (q.kind \in Tables!Actions /\ q.pc = "served"))
                /\ late' = (late \/ (q.kind = "delete" /\ q.id = drawer.id))
           ELSE UNCHANGED <<loading, error, busy, creating, unseen, late>>
        /\ UNCHANGED <<rows, page, query, shown, drawer, youngest, astray, shrunk>>
    BY <1>0 DEF Tables!Lost, Tables!Free, RowChanges
  <1>2. /\ TablesTyped /\ TableShape(q) /\ youngest \in Request /\ DOMAIN requests = Request
        /\ \A s \in Request : TableShape(requests[s])
        /\ loading \in BOOLEAN /\ error \in BOOLEAN /\ creating \in BOOLEAN /\ unseen \in BOOLEAN /\ late \in BOOLEAN
    BY <1>0 DEF TablesInv, TablesTyped
  <1>3. /\ DOMAIN requests' = Request /\ requests'[r] = Tables!Idle
        /\ \A s \in Request \ {r} : requests'[s] = requests[s]
        /\ requests'[r].kind = "none" /\ requests'[r].mine = FALSE
    BY <1>1, <1>2, IdleShape
  <1>4. \A s \in Request : TableShape(requests'[s])
    BY <1>2, <1>3, IdleShape
  <1>5. /\ loading' \in BOOLEAN /\ error' \in BOOLEAN /\ creating' \in BOOLEAN /\ unseen' \in BOOLEAN /\ late' \in BOOLEAN
        /\ (loading' => loading /\ ~(q.mine /\ q.kind = "fetch"))
        /\ (~error' => ~error /\ ~(q.mine /\ q.kind = "fetch"))
        /\ (creating' => creating /\ ~(q.mine /\ q.kind = "create"))
        /\ (~unseen' => ~unseen /\ ~(q.mine /\ q.kind \in Tables!Actions /\ q.pc = "served"))
        /\ (~late' => ~late /\ ~(q.mine /\ q.kind = "delete" /\ q.id = drawer.id))
    <2>1. CASE q.mine
      BY <1>1, <1>2, <2>1
    <2>2. CASE ~q.mine
      BY <1>1, <1>2, <2>2
    <2> QED
      BY <2>1, <2>2
  <1>6. TablesTyped'
    BY <1>1, <1>2, <1>3, <1>4, <1>5 DEF TablesTyped
  <1>7. \A s \in Request : FetchesRows(requests'[s]) => FetchesRows(requests[s]) /\ requests'[s] = requests[s]
    BY <1>3 DEF FetchesRows
  <1>8. TablesWait'
    <2>1. (busy # None => \E s \in Request : requests[s].mine /\ requests[s].kind \in RowChanges)'
      <3> SUFFICES ASSUME busy' # None PROVE \E s \in Request : requests'[s].mine /\ requests'[s].kind \in RowChanges
        OBVIOUS
      <3>1. busy # None /\ ~(q.mine /\ q.kind \in RowChanges)
        BY <1>1
      <3>2. PICK s \in Request : requests[s].mine /\ requests[s].kind \in RowChanges
        BY <3>1 DEF TablesInv, TablesWait
      <3>3. s # r
        BY <1>0, <3>1, <3>2
      <3> QED
        BY <1>3, <3>2, <3>3
    <2>2. (creating => \E s \in Request : requests[s].mine /\ requests[s].kind = "create")'
      <3> SUFFICES ASSUME creating' PROVE \E s \in Request : requests'[s].mine /\ requests'[s].kind = "create"
        OBVIOUS
      <3>1. creating /\ ~(q.mine /\ q.kind = "create")
        BY <1>5
      <3>2. PICK s \in Request : requests[s].mine /\ requests[s].kind = "create"
        BY <3>1 DEF TablesInv, TablesWait
      <3>3. s # r
        BY <1>0, <3>1, <3>2
      <3> QED
        BY <1>3, <3>2, <3>3
    <2>3. (loading => FetchesRows(requests[youngest]))'
      <3> SUFFICES ASSUME loading' PROVE FetchesRows(requests'[youngest])
        BY <1>1
      <3>1. FetchesRows(requests[youngest]) /\ ~FetchesRows(q)
        BY <1>5 DEF TablesInv, TablesWait, FetchesRows
      <3> QED
        BY <1>0, <1>2, <1>3, <3>1
    <2> QED
      BY <2>1, <2>2, <2>3 DEF TablesWait
  <1>9. PageThere'
    <2>1. Tables!Answer(rows[page], query)' = Tables!Answer(rows[page], query)
      BY <1>1
    <2> QED
      BY <1>1, <2>1 DEF TablesInv, PageThere
  <1>10. RowsAgree'
    <2> SUFFICES ASSUME ~unseen', AllTold' PROVE
             IF FetchesRows(requests'[youngest])
             THEN requests'[youngest].pc = "served" =>
                     requests'[youngest].answer = Tables!Answer(rows[page], requests'[youngest].query)
             ELSE ~error' /\ ~astray => shown = Tables!Answer(rows[page], query)
      BY <1>1 DEF RowsAgree
    <2>1. ~unseen /\ ~Untold(q)
      BY <1>5 DEF Untold
    <2>2. AllTold
      <3>1. \A s \in Request \ {r} : ~Untold(requests[s])
        BY <1>3 DEF AllTold
      <3> QED
        BY <1>0, <2>1, <3>1 DEF AllTold
    <2>3. CASE FetchesRows(requests'[youngest])
      BY <1>2, <1>7, <2>1, <2>2, <2>3 DEF TablesInv, RowsAgree
    <2>4. CASE ~FetchesRows(requests'[youngest]) /\ ~error'
      <3>1. ~error /\ ~FetchesRows(q)
        BY <1>5, <2>4 DEF FetchesRows
      <3>2. ~FetchesRows(requests[youngest])
        BY <1>0, <1>2, <1>3, <2>4, <3>1
      <3> QED
        BY <2>1, <2>2, <2>4, <3>1, <3>2 DEF TablesInv, RowsAgree
    <2> QED
      BY <2>3, <2>4
  <1>11. DrawerThere'
    <2> SUFFICES ASSUME ~late', drawer # Tables!NoItem PROVE
             /\ \/ drawer.id \in Tables!Ids(rows[page])
                \/ \E s \in Request : Untold(requests'[s]) /\ requests'[s].kind = "delete" /\ requests'[s].id = drawer.id
             /\ \A s \in Request : requests'[s].kind = "delete" /\ requests'[s].id = drawer.id => ClosesDrawer(requests'[s])
      BY <1>1 DEF DrawerThere, Tables!Ids
    <2>1. ~late /\ ~(q.mine /\ q.kind = "delete" /\ q.id = drawer.id)
      BY <1>5
    <2>2. /\ \/ drawer.id \in Tables!Ids(rows[page])
             \/ \E s \in Request : Untold(requests[s]) /\ requests[s].kind = "delete" /\ requests[s].id = drawer.id
          /\ \A s \in Request : requests[s].kind = "delete" /\ requests[s].id = drawer.id => ClosesDrawer(requests[s])
      BY <2>1 DEF TablesInv, DrawerThere
    <2>3. ~(Untold(q) /\ q.kind = "delete" /\ q.id = drawer.id)
      BY <2>1 DEF Untold
    <2>4. \/ drawer.id \in Tables!Ids(rows[page])
          \/ \E s \in Request : Untold(requests'[s]) /\ requests'[s].kind = "delete" /\ requests'[s].id = drawer.id
      BY <1>0, <1>3, <2>2, <2>3
    <2>5. \A s \in Request : requests'[s].kind = "delete" /\ requests'[s].id = drawer.id => ClosesDrawer(requests'[s])
      BY <1>3, <2>2
    <2> QED
      BY <2>4, <2>5
  <1> QED
    BY <1>6, <1>8, <1>9, <1>10, <1>11 DEF TablesInv

LEMMA InitTables == Tables!Init => TablesInv
  <1> SUFFICES ASSUME Tables!Init PROVE TablesInv
    OBVIOUS
  <1>1. PICK r \in Request :
          /\ requests = [s \in Request |->
                IF s = r THEN [Tables!Idle EXCEPT !.kind = "fetch", !.pc = "sent", !.mine = TRUE] ELSE Tables!Idle]
          /\ youngest = r
    BY DEF Tables!Init
  <1>2. PICK sent : sent = [Tables!Idle EXCEPT !.kind = "fetch", !.pc = "sent", !.mine = TRUE]
    OBVIOUS
  <1>3. TableShape(sent) /\ sent.kind = "fetch" /\ sent.pc = "sent" /\ sent.mine = TRUE
    <2> DEFINE Alike(k, pc, mine) ==
                 [kind : {k}, pc : {pc}, mine : {mine}, id : {None}, query : {Tables!FirstPage}, drawer : {None},
                  answer : {Tables!NoAnswer}, ok : {FALSE}]
    <2>1. Tables!Idle \in Alike("none", "idle", FALSE)
      BY DEF Tables!Idle
    <2>2. sent \in Alike("fetch", "sent", TRUE)
      BY <1>2, <2>1
    <2>3. Tables!NoAnswer.total \in Nat
      BY DEF Tables!NoAnswer
    <2> QED
      BY <2>2, <2>3, LeastLimit DEF TableShape, Tables!Actions
  <1>4. requests[r] = sent /\ \A s \in Request \ {r} : requests[s] = Tables!Idle
    BY <1>1, <1>2
  <1>5. rows \in [Tables!Page -> Seq(Tables!Item)]
    <2>1. rows \in [Tables!Page -> UNION {[1 .. n -> Tables!Item] : n \in 0 .. 2}]
      BY DEF Tables!Init
    <2>2. \A p \in Tables!Page : \E n \in 0 .. 2 : rows[p] \in [1 .. n -> Tables!Item]
      BY <2>1
    <2>3. \A p \in Tables!Page : rows[p] \in Seq(Tables!Item)
      <3> SUFFICES ASSUME NEW p \in Tables!Page PROVE rows[p] \in Seq(Tables!Item)
        OBVIOUS
      <3>1. PICK n \in 0 .. 2 : rows[p] \in [1 .. n -> Tables!Item]
        BY <2>2
      <3> QED
        BY <3>1, MapIsSeq
    <2> QED
      BY <2>1, <2>3
  <1>6. /\ page \in Tables!Page /\ query = Tables!FirstPage /\ shown = Tables!NoAnswer
        /\ error = FALSE /\ loading = TRUE /\ busy = None /\ creating = FALSE /\ drawer = Tables!NoItem
        /\ astray = FALSE /\ unseen = FALSE /\ shrunk = FALSE /\ late = FALSE
    BY DEF Tables!Init
  <1>7. TablesTyped
    <2>1. DOMAIN requests = Request /\ \A s \in Request : TableShape(requests[s])
      BY <1>1, <1>3, <1>4, IdleShape
    <2> QED
      BY <1>1, <1>5, <1>6, <2>1, LeastLimit DEF TablesTyped, Tables!NoAnswer
  <1>8. FetchesRows(requests[youngest])
    BY <1>1, <1>3, <1>4 DEF FetchesRows
  <1>9. TablesWait /\ RowsAgree
    BY <1>1, <1>3, <1>4, <1>6, <1>8 DEF TablesWait, RowsAgree
  <1>10. PageThere /\ DrawerThere
    BY <1>6, LeastLimit DEF PageThere, DrawerThere
  <1> QED
    BY <1>7, <1>9, <1>10 DEF TablesInv

LEMMA NextKeepsTables ==
  ASSUME TablesInv, Tables!Next \/ UNCHANGED Tables!vars
  PROVE  TablesInv'
  <1>1. CASE UNCHANGED Tables!vars
    <2>1. UNCHANGED <<rows, page, query, shown, loading, error, busy, creating, drawer, requests,
                      youngest, astray, unseen, shrunk, late>>
      BY <1>1 DEF Tables!vars, Tables!view, Tables!history
    <2>2. TablesTyped' /\ TablesWait'
      BY <2>1 DEF TablesInv, TablesTyped, TablesWait
    <2>3. AllTold' <=> AllTold
      BY <2>1 DEF AllTold
    <2>4. RowsAgree' /\ PageThere' /\ DrawerThere'
      BY <2>1, <2>3 DEF TablesInv, RowsAgree, PageThere, DrawerThere
    <2> QED
      BY <2>2, <2>4 DEF TablesInv
  <1>2. ASSUME NEW r \in Request, Tables!Serve(r) PROVE TablesInv'
    BY <1>2, TablesServeFetch, TablesServeChange
  <1>3. CASE Tables!Next
    BY <1>2, <1>3, TablesCloseDrawer, TablesOpenDrawer, TablesOpen, TablesRefine, TablesTurn, TablesAct,
       TablesCreateUser, TablesRetry, TablesLandFetch, TablesLandAction, TablesLost
    DEF Tables!Next
  <1> QED
    BY <1>1, <1>3

LEMMA TablesInvSettles == TablesInv => Tables!TablesSettle
  <1> SUFFICES ASSUME TablesInv PROVE Tables!TablesSettle
    OBVIOUS
  <1>1. TablesTyped /\ youngest \in Request
    BY DEF TablesInv, TablesTyped
  <1>2. ASSUME Tables!AtRest PROVE \A r \in Request : requests[r].kind = "none" /\ ~Untold(requests[r])
    BY <1>1, <1>2 DEF Tables!AtRest, TablesTyped, TableShape, Untold
  <1>3. Tables!ShowsTheRows
    <2> SUFFICES ASSUME Tables!AtRest, ~error, ~astray, ~unseen
                 PROVE  shown = Tables!Answer(rows[page], query) /\ ~loading /\ busy = None /\ ~creating
      BY DEF Tables!ShowsTheRows
    <2>1. AllTold /\ ~FetchesRows(requests[youngest])
      BY <1>1, <1>2 DEF AllTold, FetchesRows
    <2>2. shown = Tables!Answer(rows[page], query)
      BY <2>1 DEF TablesInv, RowsAgree
    <2>3. ~loading /\ busy = None /\ ~creating
      BY <1>2, <2>1 DEF TablesInv, TablesWait, RowChanges
    <2> QED
      BY <2>2, <2>3
  <1>4. Tables!PageExists
    <2> SUFFICES ASSUME Tables!AtRest, ~error, ~astray, ~unseen, ~shrunk
                 PROVE  query.page \in 1 .. Tables!Max({1, Tables!TotalPages})
      BY DEF Tables!PageExists
    <2>1. shown = Tables!Answer(rows[page], query)
      BY <1>3 DEF Tables!ShowsTheRows
    <2> DEFINE n == Tables!TotalPages
    <2>2. query.page = 1 \/ query.page <= n
      BY <2>1 DEF TablesInv, PageThere, Tables!TotalPages, PagesOf
    <2>3. query.page \in Nat \ {0} /\ query.limit \in Nat \ {0} /\ shown.total \in Nat
      BY <1>1, ClientsAssumption DEF TablesTyped, Tables!Query
    <2>4. n \in Int
      <3>1. n = PagesOf(shown.total, query.limit)
        BY DEF Tables!TotalPages, PagesOf
      <3> QED
        BY <2>3, <3>1, MorePages
    <2> HIDE DEF n
    <2>5. Tables!Max({1, n}) \in {1, n} /\ Tables!Max({1, n}) >= 1 /\ Tables!Max({1, n}) >= n
      <3>1. \E x \in {1, n} : \A y \in {1, n} : x >= y
        BY <2>4
      <3> QED
        BY <2>4, <3>1 DEF Tables!Max
    <2>6. PICK x : x = Tables!Max({1, n})
      OBVIOUS
    <2>7. query.page \in 1 .. x
      BY <2>2, <2>3, <2>4, <2>5, <2>6
    <2> QED
      BY <2>6, <2>7 DEF n
  <1>5. Tables!DrawerExists
    BY <1>2 DEF Tables!DrawerExists, TablesInv, DrawerThere
  <1> QED
    BY <1>3, <1>4, <1>5 DEF Tables!TablesSettle

------------------------------------------------------------------------------
(* The overview of the administrator                                          *)

Figures == {"users", "active", "projects", "tasks"}
TrendKinds == {"users", "projects", "tasks"}
Suspended == {u \in Person : rows[u].state = "suspended"}
CreatedNow(kind) == {x \in Overview!Created(kind) : rows[x].month = today.month}

OverviewCounts == [users : Nat, active : Nat, projects : Nat, tasks : Nat]
OverviewTrends == [TrendKinds -> [Overview!MonthLabels -> Nat]]

\* No row is of a month to come.
OverviewTyped ==
    /\ rows \in [Overview!Row -> [state : {"none", "active", "suspended", "deleted"}, month : Int]]
    /\ today \in Today /\ \A x \in Overview!Row : rows[x].month <= today.month
    /\ changes \in Nat /\ loading \in BOOLEAN /\ error \in BOOLEAN
    /\ request = [pc |-> request.pc, left |-> request.left, count |-> request.count,
                  trends |-> request.trends, top |-> request.top, missed |-> request.missed]
    /\ request.pc \in {"idle", "counts", "trends", "top", "answer"}
    /\ request.count \in OverviewCounts /\ request.trends \in OverviewTrends
    /\ loading <=> request.pc # "idle"

\* Each figure that was found is off by no more than the changes since, and so
\* is what the two that were found of the users leave for the suspended ones.
CountsAgree(count, known) ==
    /\ \A f \in known : Overview!Near(count[f], Overview!Count[f])
    /\ {"users", "active"} \subseteq known => Overview!Near(count["users"] - count["active"], Cardinality(Suspended))

TrendsAgree(trends, known) ==
    \A kind \in known :
        /\ Overview!Near(Overview!Sum(trends[kind]), Cardinality(Overview!Created(kind)))
        /\ Overview!Near(trends[kind][today.month], Cardinality(CreatedNow(kind)))

TopAgrees(top) ==
    \A p \in Overview!There(Project) \ {top[i].project : i \in DOMAIN top} :
        /\ Cardinality(DOMAIN top) = Top
        /\ \A i \in DOMAIN top : Overview!TaskCount(p) <= top[i].tasks

KnownCounts == IF request.pc = "counts" THEN Figures \ request.left ELSE Figures
KnownTrends ==
    CASE request.pc = "counts" -> {}
      [] request.pc = "trends" -> TrendKinds \ request.left
      [] OTHER                 -> TrendKinds

AnswerAgrees ==
    /\ CountsAgree(request.count, KnownCounts)
    /\ "trends" \notin request.missed => TrendsAgree(request.trends, KnownTrends)
    /\ request.pc = "answer" /\ changes = 0 /\ "top" \notin request.missed => TopAgrees(request.top)

StatsAgree ==
    /\ stats.count \in OverviewCounts /\ stats.trends \in OverviewTrends
    /\ stats.suspended = stats.count.users - stats.count.active
    /\ CountsAgree(stats.count, Figures)
    /\ "trends" \notin missed => TrendsAgree(stats.trends, TrendKinds)
    /\ changes = 0 /\ "top" \notin missed => TopAgrees(stats.top)

OverviewInv ==
    /\ OverviewTyped
    /\ request.pc # "idle" => AnswerAgrees
    /\ Overview!AtRest => StatsAgree

LEMMA OverviewCountsAlike == \A S : Overview!Cardinality(S) = Cardinality(S)
  BY DEF Overview!Cardinality, Cardinality

LEMMA OverviewNames ==
  /\ DOMAIN Overview!NoFigures = Figures /\ DOMAIN Overview!Kind = TrendKinds /\ DOMAIN Overview!Count = Figures
  /\ Overview!Kind["users"] = Person /\ Overview!Kind["projects"] = Project /\ Overview!Kind["tasks"] = WorkTask
  /\ Overview!NoFigures \in OverviewCounts
  BY DEF Overview!NoFigures, Overview!Kind, Overview!Count, Figures, TrendKinds, OverviewCounts

\* Sets with the same elements but for one differ by one in size, at most.
LEMMA NearlySame ==
  ASSUME NEW S, NEW T, NEW x, IsFiniteSet(S), IsFiniteSet(T), S \ {x} = T \ {x}
  PROVE  /\ Cardinality(S) \in Nat /\ Cardinality(T) \in Nat
         /\ Cardinality(S) - Cardinality(T) \in -1 .. 1
  <1>1. Cardinality(S) \in Nat /\ Cardinality(T) \in Nat
    BY FS_CardinalityType
  <1>2. Cardinality(S \ {x}) = IF x \in S THEN Cardinality(S) - 1 ELSE Cardinality(S)
    BY FS_RemoveElement
  <1>3. Cardinality(T \ {x}) = IF x \in T THEN Cardinality(T) - 1 ELSE Cardinality(T)
    BY FS_RemoveElement
  <1> QED
    BY <1>1, <1>2, <1>3

LEMMA RowsAreFinite ==
  /\ IsFiniteSet(Person) /\ IsFiniteSet(Project) /\ IsFiniteSet(WorkTask)
  /\ \A kind \in TrendKinds : IsFiniteSet(Overview!Kind[kind]) /\ Overview!Kind[kind] \subseteq Overview!Row
  <1>1. IsFiniteSet(Person) /\ IsFiniteSet(Project) /\ IsFiniteSet(WorkTask)
    BY ClientsAssumption
  <1> QED
    BY <1>1, OverviewNames DEF TrendKinds, Overview!Row

\* The first of the six months, and the last of them.
LEMMA SixMonths ==
  ASSUME OverviewTyped
  PROVE  /\ today.month \in Int /\ Overview!FirstMonth \in Int
         /\ Overview!FirstMonth <= today.month /\ today.month <= Overview!FirstMonth + 5
         /\ Overview!MonthLabels = Overview!FirstMonth .. Overview!FirstMonth + 5
         /\ today.month \in Overview!MonthLabels
  <1>1. today.month \in Int
    BY ClientsAssumption DEF OverviewTyped
  <1>2. Overview!FirstMonth \in {today.month - 4, today.month - 5}
    BY DEF Overview!FirstMonth
  <1> QED
    BY <1>1, <1>2 DEF Overview!MonthLabels

\* What a trend has of each month, from rows of one kind.
LEMMA FilledTrend ==
  ASSUME NEW raw, IsFiniteSet(raw)
  PROVE  /\ Overview!FillTrend(raw) \in [Overview!MonthLabels -> Nat]
         /\ \A m \in Overview!MonthLabels : Overview!FillTrend(raw)[m] = Cardinality({x \in raw : rows[x].month = m})
  <1>1. \A m : IsFiniteSet({x \in raw : rows[x].month = m})
    BY FS_Subset
  <1>2. \A m : Cardinality({x \in raw : rows[x].month = m}) \in Nat
    BY <1>1, FS_CardinalityType
  <1> QED
    BY <1>2, OverviewCountsAlike DEF Overview!FillTrend

\* The six months of a trend count what is of one of them.
LEMMA TrendCountsAll ==
  ASSUME OverviewTyped, NEW raw, IsFiniteSet(raw), raw \subseteq Overview!Row,
         \A x \in raw : rows[x].month >= Overview!FirstMonth
  PROVE  Overview!Sum(Overview!FillTrend(raw)) = Cardinality(raw)
  <1>1. PICK a : a = Overview!FirstMonth
    OBVIOUS
  <1>2. a \in Int /\ Overview!MonthLabels = a .. a + 5 /\ today.month <= a + 5 /\ today.month \in Int
    BY <1>1, SixMonths
  <1> DEFINE of(m) == {x \in raw : rows[x].month = m}
             until(m) == {x \in raw : rows[x].month \in a .. m}
  <1>3. \A x \in raw : rows[x].month \in a .. a + 5
    <2>1. \A x \in raw : rows[x].month \in Int /\ rows[x].month <= today.month
      BY DEF OverviewTyped
    <2> QED
      BY <1>1, <1>2, <2>1
  <1>4. \A m \in Int : /\ IsFiniteSet(of(m)) /\ IsFiniteSet(until(m))
                       /\ Cardinality(of(m)) \in Nat /\ Cardinality(until(m)) \in Nat
    BY FS_Subset, FS_CardinalityType
  <1>5. ASSUME NEW m \in Int, NEW n \in Int, n = m + 1, a <= n
        PROVE  Cardinality(until(n)) = Cardinality(until(m)) + Cardinality(of(n))
    <2>1. until(n) = until(m) \cup of(n)
      BY <1>2, <1>3, <1>5
    <2>2. until(m) \cap of(n) = {}
      BY <1>2, <1>5
    <2>3. Cardinality(until(m) \cup of(n)) =
             Cardinality(until(m)) + Cardinality(of(n)) - Cardinality(until(m) \cap of(n))
      BY <1>4, <1>5, FS_Union
    <2>4. Cardinality(until(m) \cap of(n)) = 0
      BY <2>2, FS_EmptySet
    <2>5. Cardinality(until(m)) \in Nat /\ Cardinality(of(n)) \in Nat
      BY <1>4
    <2> HIDE DEF of, until
    <2> QED
      BY <2>1, <2>3, <2>4, <2>5
  <1>6. until(a - 1) = {} /\ until(a + 5) = raw
    BY <1>2, <1>3
  <1>7. Cardinality(until(a - 1)) = 0
    BY <1>6, FS_EmptySet
  <1>8. PICK f : f = Overview!FillTrend(raw)
    OBVIOUS
  <1>9. \A m \in a .. a + 5 : f[m] = Cardinality(of(m))
    BY <1>2, <1>8, FilledTrend
  <1> HIDE DEF of, until
  <1>10. Overview!Sum(f) = f[a] + f[a + 1] + f[a + 2] + f[a + 3] + f[a + 4] + f[a + 5]
    BY <1>1 DEF Overview!Sum
  <1>11. /\ Cardinality(until(a)) = Cardinality(of(a))
         /\ Cardinality(until(a + 1)) = Cardinality(until(a)) + Cardinality(of(a + 1))
         /\ Cardinality(until(a + 2)) = Cardinality(until(a + 1)) + Cardinality(of(a + 2))
         /\ Cardinality(until(a + 3)) = Cardinality(until(a + 2)) + Cardinality(of(a + 3))
         /\ Cardinality(until(a + 4)) = Cardinality(until(a + 3)) + Cardinality(of(a + 4))
         /\ Cardinality(until(a + 5)) = Cardinality(until(a + 4)) + Cardinality(of(a + 5))
    <2>1. a = (a - 1) + 1 /\ a + 1 = a + 1 /\ a + 2 = (a + 1) + 1 /\ a + 3 = (a + 2) + 1 /\ a + 4 = (a + 3) + 1 /\ a + 5 = (a + 4) + 1
      BY <1>2
    <2>2. Cardinality(until(a)) = Cardinality(until(a - 1)) + Cardinality(of(a))
      BY <1>2, <1>5, <2>1
    <2>3. Cardinality(until(a + 1)) = Cardinality(until(a)) + Cardinality(of(a + 1))
      BY <1>2, <1>5
    <2>4. Cardinality(until(a + 2)) = Cardinality(until(a + 1)) + Cardinality(of(a + 2))
      BY <1>2, <1>5, <2>1
    <2>5. Cardinality(until(a + 3)) = Cardinality(until(a + 2)) + Cardinality(of(a + 3))
      BY <1>2, <1>5, <2>1
    <2>6. Cardinality(until(a + 4)) = Cardinality(until(a + 3)) + Cardinality(of(a + 4))
      BY <1>2, <1>5, <2>1
    <2>7. Cardinality(until(a + 5)) = Cardinality(until(a + 4)) + Cardinality(of(a + 5))
      BY <1>2, <1>5, <2>1
    <2>8. Cardinality(of(a)) \in Nat
      BY <1>2, <1>4
    <2> QED
      BY <1>7, <2>2, <2>3, <2>4, <2>5, <2>6, <2>7, <2>8
  <1>12. \A i \in 0 .. 5 : a + i \in a .. a + 5 /\ a + i \in Int
    BY <1>2
  <1>13. \A i \in 0 .. 5 : Cardinality(of(a + i)) \in Nat
    BY <1>4, <1>12
  <1>14. /\ f[a] = Cardinality(of(a)) /\ f[a + 1] = Cardinality(of(a + 1)) /\ f[a + 2] = Cardinality(of(a + 2))
         /\ f[a + 3] = Cardinality(of(a + 3)) /\ f[a + 4] = Cardinality(of(a + 4)) /\ f[a + 5] = Cardinality(of(a + 5))
    BY <1>2, <1>9
  <1>15. Cardinality(raw) = Overview!Sum(f)
    BY <1>2, <1>6, <1>10, <1>11, <1>13, <1>14
  <1> QED
    BY <1>8, <1>15

\* What the overview counts: finite sets, of which the change of one row moves one
\* element at most.
CountedOf(figure) ==
    CASE figure = "users"    -> Overview!There(Person)
      [] figure = "active"   -> {u \in Person : rows[u].state = "active"}
      [] figure = "projects" -> Overview!There(Project)
      [] figure = "tasks"    -> Overview!There(WorkTask)

LEMMA CountIsOf ==
  \A f \in Figures : IsFiniteSet(CountedOf(f)) /\ Cardinality(CountedOf(f)) \in Nat /\ Overview!Count[f] = Cardinality(CountedOf(f))
  <1> SUFFICES ASSUME NEW f \in Figures
               PROVE  IsFiniteSet(CountedOf(f)) /\ Cardinality(CountedOf(f)) \in Nat /\ Overview!Count[f] = Cardinality(CountedOf(f))
    OBVIOUS
  <1>1. \/ CountedOf(f) \subseteq Person \/ CountedOf(f) \subseteq Project \/ CountedOf(f) \subseteq WorkTask
    BY DEF CountedOf, Figures, Overview!There
  <1>2. IsFiniteSet(CountedOf(f))
    BY <1>1, RowsAreFinite, FS_Subset
  <1>3. Overview!Count[f] = Cardinality(CountedOf(f))
    BY OverviewCountsAlike DEF CountedOf, Figures, Overview!Count
  <1> QED
    BY <1>2, <1>3, FS_CardinalityType

LEMMA CreatedIsFinite ==
  \A kind \in TrendKinds : /\ IsFiniteSet(Overview!Created(kind)) /\ IsFiniteSet(CreatedNow(kind))
                           /\ Cardinality(Overview!Created(kind)) \in Nat /\ Cardinality(CreatedNow(kind)) \in Nat
  <1> SUFFICES ASSUME NEW kind \in TrendKinds
               PROVE  /\ IsFiniteSet(Overview!Created(kind)) /\ IsFiniteSet(CreatedNow(kind))
                      /\ Cardinality(Overview!Created(kind)) \in Nat /\ Cardinality(CreatedNow(kind)) \in Nat
    OBVIOUS
  <1>1. Overview!Created(kind) \subseteq Overview!Kind[kind] /\ CreatedNow(kind) \subseteq Overview!Kind[kind]
    BY DEF Overview!Created, CreatedNow
  <1>2. IsFiniteSet(Overview!Created(kind)) /\ IsFiniteSet(CreatedNow(kind))
    BY <1>1, RowsAreFinite, FS_Subset
  <1> QED
    BY <1>2, FS_CardinalityType

\* The users that are neither of these are suspended.
LEMMA SuspendedAreOthers ==
  /\ IsFiniteSet(Suspended) /\ Cardinality(Suspended) \in Nat
  /\ Overview!Count["users"] \in Nat /\ Overview!Count["active"] \in Nat
  /\ Cardinality(Suspended) = Overview!Count["users"] - Overview!Count["active"]
  <1> DEFINE A == CountedOf("active")
             U == CountedOf("users")
  <1>1. U = A \cup Suspended /\ A \cap Suspended = {}
    BY DEF CountedOf, Suspended, Overview!There
  <1>2. "users" \in Figures /\ "active" \in Figures
    BY DEF Figures
  <1>3. /\ IsFiniteSet(A) /\ Cardinality(A) \in Nat /\ Cardinality(U) \in Nat
        /\ Overview!Count["users"] = Cardinality(U) /\ Overview!Count["active"] = Cardinality(A)
    BY <1>2, CountIsOf
  <1>4. IsFiniteSet(Suspended) /\ Cardinality(Suspended) \in Nat
    BY RowsAreFinite, FS_Subset, FS_CardinalityType DEF Suspended
  <1> HIDE DEF A, U
  <1>5. Cardinality(A \cup Suspended) = Cardinality(A) + Cardinality(Suspended) - Cardinality(A \cap Suspended)
    BY <1>3, <1>4, FS_Union
  <1>6. Cardinality(A \cap Suspended) = 0
    BY <1>1, FS_EmptySet
  <1> QED
    BY <1>1, <1>3, <1>4, <1>5, <1>6

\* A change touches one row, and leaves none of a month to come.
LEMMA ChangeOfOne ==
  ASSUME OverviewTyped, Overview!Change
  PROVE  /\ OverviewTyped' /\ today' = today /\ changes' = changes + 1 /\ changes \in Nat
         /\ \E x \in Overview!Row : \A y \in Overview!Row \ {x} : rows'[y] = rows[y]
  <1> DEFINE Shape == [state : {"none", "active", "suspended", "deleted"}, month : Int]
  <1>1. changes' = changes + 1 /\ UNCHANGED <<today, request, stats, loading, error, missed>> /\ today.month \in Int
    BY SixMonths DEF Overview!Change, Overview!page
  <1>2. \E x \in Overview!Row, after \in Shape : rows' = [rows EXCEPT ![x] = after] /\ after.month <= today.month
    <2>1. ASSUME NEW x \in Overview!Row, Overview!Create(x)
          PROVE  LET after == [state |-> "active", month |-> today.month]
                 IN  rows' = [rows EXCEPT ![x] = after] /\ after \in Shape /\ after.month <= today.month
      BY <1>1, <2>1 DEF Overview!Create
    <2>2. ASSUME NEW x \in Overview!Row, NEW from, NEW to \in {"active", "suspended", "deleted"}, Overview!SetState(x, from, to)
          PROVE  LET after == [rows[x] EXCEPT !.state = to]
                 IN  rows' = [rows EXCEPT ![x] = after] /\ after \in Shape /\ after.month <= today.month
      <3>1. rows[x] \in Shape /\ rows[x].month <= today.month
        BY DEF OverviewTyped
      <3>2. rows' = [rows EXCEPT ![x] = [rows[x] EXCEPT !.state = to]]
        BY <2>2 DEF Overview!SetState
      <3> QED
        BY <3>1, <3>2
    <2>3. Person \subseteq Overview!Row
      BY DEF Overview!Row
    <2>4. CASE \E x \in Overview!Row : Overview!Create(x) \/ Overview!SetState(x, {"active", "suspended"}, "deleted")
      BY <2>1, <2>2, <2>4
    <2>5. CASE \E u \in Person : Overview!SetState(u, {"active"}, "suspended") \/ Overview!SetState(u, {"suspended"}, "active")
      BY <2>2, <2>3, <2>5
    <2> QED
      BY <2>4, <2>5 DEF Overview!Change
  <1>3. PICK x \in Overview!Row, after \in Shape :
               /\ rows' = [rows EXCEPT ![x] = after]
               /\ after.month <= today.month
    BY <1>2
  <1>4. /\ rows' \in [Overview!Row -> Shape]
        /\ \A y \in Overview!Row : rows'[y].month <= today.month
        /\ \A y \in Overview!Row \ {x} : rows'[y] = rows[y]
    BY <1>3 DEF OverviewTyped
  <1>5. changes \in Nat /\ changes' \in Nat
    BY <1>1 DEF OverviewTyped
  <1>6. OverviewTrends' = OverviewTrends
    BY <1>1 DEF OverviewTrends, Overview!MonthLabels, Overview!FirstMonth, Overview!DaysIn
  <1>7. OverviewTyped'
    BY <1>1, <1>4, <1>5, <1>6 DEF OverviewTyped, OverviewCounts
  <1> QED
    BY <1>1, <1>4, <1>5, <1>7

FiguresAre ==
    /\ \A f \in Figures : /\ IsFiniteSet(CountedOf(f)) /\ Cardinality(CountedOf(f)) \in Nat
                          /\ Overview!Count[f] = Cardinality(CountedOf(f))
    /\ IsFiniteSet(Suspended) /\ Cardinality(Suspended) \in Nat
    /\ \A kind \in TrendKinds : /\ IsFiniteSet(Overview!Created(kind)) /\ IsFiniteSet(CreatedNow(kind))
                                /\ Cardinality(Overview!Created(kind)) \in Nat /\ Cardinality(CreatedNow(kind)) \in Nat

LEMMA FiguresKnown == FiguresAre
  BY CountIsOf, SuspendedAreOthers, CreatedIsFinite DEF FiguresAre

LEMMA FiguresKnownNext == FiguresAre'
  BY FiguresKnown, PTL

LEMMA StillNear ==
  ASSUME NEW a \in Int, NEW b \in Int, NEW d \in Int, NEW c \in Nat, a - b \in -c .. c, b - d \in -1 .. 1
  PROVE  a - d \in -(c + 1) .. (c + 1)
  OBVIOUS

\* A change moves every figure by one at most.
LEMMA FiguresMove ==
  ASSUME OverviewTyped, Overview!Change
  PROVE  /\ \A f \in Figures : Overview!Count[f] - Overview!Count'[f] \in -1 .. 1
         /\ Cardinality(Suspended) - Cardinality(Suspended') \in -1 .. 1
         /\ \A kind \in TrendKinds :
               /\ Cardinality(Overview!Created(kind)) - Cardinality(Overview!Created(kind)') \in -1 .. 1
               /\ Cardinality(CreatedNow(kind)) - Cardinality(CreatedNow(kind)') \in -1 .. 1
  <1>1. today' = today
    BY ChangeOfOne
  <1>2. PICK x \in Overview!Row : \A y \in Overview!Row \ {x} : rows'[y] = rows[y]
    BY ChangeOfOne
  <1>3. Person \subseteq Overview!Row /\ Project \subseteq Overview!Row /\ WorkTask \subseteq Overview!Row
    BY DEF Overview!Row
  <1>4. \A f \in Figures : Overview!Count[f] - Overview!Count'[f] \in -1 .. 1
    <2> SUFFICES ASSUME NEW f \in Figures PROVE Overview!Count[f] - Overview!Count'[f] \in -1 .. 1
      OBVIOUS
    <2>1. CountedOf(f) \ {x} = CountedOf(f)' \ {x}
      BY <1>2, <1>3 DEF CountedOf, Figures, Overview!There
    <2>2. IsFiniteSet(CountedOf(f)) /\ Overview!Count[f] = Cardinality(CountedOf(f))
      BY FiguresKnown DEF FiguresAre
    <2>3. IsFiniteSet(CountedOf(f)') /\ Overview!Count'[f] = Cardinality(CountedOf(f)')
      BY FiguresKnownNext DEF FiguresAre
    <2> QED
      BY <2>1, <2>2, <2>3, NearlySame
  <1>5. Cardinality(Suspended) - Cardinality(Suspended') \in -1 .. 1
    <2>1. Suspended \ {x} = Suspended' \ {x}
      BY <1>2, <1>3 DEF Suspended
    <2>2. IsFiniteSet(Suspended) /\ IsFiniteSet(Suspended')
      BY FiguresKnown, FiguresKnownNext DEF FiguresAre
    <2> QED
      BY <2>1, <2>2, NearlySame
  <1>6. ASSUME NEW kind \in TrendKinds
        PROVE  /\ Cardinality(Overview!Created(kind)) - Cardinality(Overview!Created(kind)') \in -1 .. 1
               /\ Cardinality(CreatedNow(kind)) - Cardinality(CreatedNow(kind)') \in -1 .. 1
    <2>1. Overview!FirstMonth' = Overview!FirstMonth
      BY <1>1 DEF Overview!FirstMonth, Overview!DaysIn
    <2>2. Overview!Kind[kind] \subseteq Overview!Row
      BY RowsAreFinite
    <2>3. Overview!Created(kind) \ {x} = Overview!Created(kind)' \ {x}
      BY <1>2, <2>1, <2>2 DEF Overview!Created
    <2>4. CreatedNow(kind) \ {x} = CreatedNow(kind)' \ {x}
      <3>1. Overview!Created(kind) \subseteq Overview!Row /\ Overview!Created(kind)' \subseteq Overview!Row
        BY <2>2 DEF Overview!Created
      <3>2. \A y \in Overview!Created(kind) \ {x} : rows'[y] = rows[y]
        BY <1>2, <3>1
      <3> QED
        BY <1>1, <2>3, <3>2 DEF CreatedNow
    <2>5. /\ IsFiniteSet(Overview!Created(kind)) /\ IsFiniteSet(Overview!Created(kind)')
          /\ IsFiniteSet(CreatedNow(kind)) /\ IsFiniteSet(CreatedNow(kind)')
      BY FiguresKnown, FiguresKnownNext DEF FiguresAre
    <2> QED
      BY <2>3, <2>4, <2>5, NearlySame
  <1> QED
    BY <1>4, <1>5, <1>6

\* What agreed with the figures still does.
LEMMA ChangeKeepsAgreement ==
  ASSUME OverviewTyped, Overview!Change
  PROVE  /\ \A count \in OverviewCounts, known \in SUBSET Figures :
               CountsAgree(count, known) => CountsAgree(count, known)'
         /\ \A trends \in OverviewTrends, known \in SUBSET TrendKinds :
               TrendsAgree(trends, known) => TrendsAgree(trends, known)'
  <1>1. changes' = changes + 1 /\ changes \in Nat /\ today' = today
    BY ChangeOfOne
  <1>2. PICK c \in Nat : c = changes
    BY <1>1
  <1>3. \A a, b : Overview!Near(a, b) <=> a - b \in -c .. c
    BY <1>2 DEF Overview!Near
  <1>4. ASSUME NEW a \in Int, NEW b \in Int, NEW d \in Int, Overview!Near(a, b), b - d \in -1 .. 1
        PROVE  a - d \in -changes' .. changes'
    BY <1>1, <1>2, <1>3, <1>4, StillNear
  <1>5. ASSUME NEW count \in OverviewCounts, NEW known \in SUBSET Figures, CountsAgree(count, known)
        PROVE  CountsAgree(count, known)'
    <2>1. \A f \in Figures : count[f] \in Int
      BY DEF OverviewCounts, Figures
    <2>2. \A f \in known : count[f] - Overview!Count'[f] \in -changes' .. changes'
      <3> SUFFICES ASSUME NEW f \in known PROVE count[f] - Overview!Count'[f] \in -changes' .. changes'
        OBVIOUS
      <3>1. f \in Figures /\ Overview!Near(count[f], Overview!Count[f]) /\ Overview!Count[f] - Overview!Count'[f] \in -1 .. 1
        BY <1>5, FiguresMove DEF CountsAgree
      <3>2. Overview!Count[f] \in Int /\ Overview!Count'[f] \in Int
        BY <3>1, FiguresKnown, FiguresKnownNext DEF FiguresAre
      <3> QED
        BY <1>4, <2>1, <3>1, <3>2
    <2>3. ASSUME {"users", "active"} \subseteq known
          PROVE  count["users"] - count["active"] - Cardinality(Suspended') \in -changes' .. changes'
      <3>1. /\ Overview!Near(count["users"] - count["active"], Cardinality(Suspended))
            /\ Cardinality(Suspended) - Cardinality(Suspended') \in -1 .. 1
        BY <1>5, <2>3, FiguresMove DEF CountsAgree
      <3>2. Cardinality(Suspended) \in Int /\ Cardinality(Suspended') \in Int
        BY FiguresKnown, FiguresKnownNext DEF FiguresAre
      <3>3. count["users"] - count["active"] \in Int
        BY <2>1 DEF Figures
      <3> QED
        BY <1>4, <3>1, <3>2, <3>3
    <2> QED
      BY <2>2, <2>3 DEF CountsAgree, Overview!Near
  <1>6. ASSUME NEW trends \in OverviewTrends, NEW known \in SUBSET TrendKinds, TrendsAgree(trends, known)
        PROVE  TrendsAgree(trends, known)'
    <2>1. Overview!FirstMonth' = Overview!FirstMonth
      BY <1>1 DEF Overview!FirstMonth, Overview!DaysIn
    <2> SUFFICES ASSUME NEW kind \in known
                 PROVE  /\ Overview!Sum(trends[kind]) - Cardinality(Overview!Created(kind)') \in -changes' .. changes'
                        /\ trends[kind][today.month] - Cardinality(CreatedNow(kind)') \in -changes' .. changes'
      BY <1>1, <2>1 DEF TrendsAgree, Overview!Near, Overview!Sum
    <2>2. kind \in TrendKinds /\ trends[kind] \in [Overview!MonthLabels -> Nat]
      BY DEF OverviewTrends
    <2>3. Overview!Sum(trends[kind]) \in Int /\ trends[kind][today.month] \in Int
      <3>1. PICK f, a : f = trends[kind] /\ a = Overview!FirstMonth
        OBVIOUS
      <3>2. a \in Int /\ f \in [a .. a + 5 -> Nat]
        BY <2>2, <3>1, SixMonths
      <3>3. f[a] \in Int /\ f[a + 1] \in Int /\ f[a + 2] \in Int /\ f[a + 3] \in Int /\ f[a + 4] \in Int /\ f[a + 5] \in Int
        BY <3>2
      <3>4. Overview!Sum(f) \in Int
        BY <3>1, <3>3 DEF Overview!Sum
      <3> QED
        BY <2>2, <3>1, <3>4, SixMonths
    <2>4. /\ Overview!Near(Overview!Sum(trends[kind]), Cardinality(Overview!Created(kind)))
          /\ Overview!Near(trends[kind][today.month], Cardinality(CreatedNow(kind)))
      BY <1>6 DEF TrendsAgree
    <2>5. /\ Cardinality(Overview!Created(kind)) - Cardinality(Overview!Created(kind)') \in -1 .. 1
          /\ Cardinality(CreatedNow(kind)) - Cardinality(CreatedNow(kind)') \in -1 .. 1
      BY <2>2, FiguresMove
    <2>6. /\ Cardinality(Overview!Created(kind)) \in Int /\ Cardinality(Overview!Created(kind)') \in Int
          /\ Cardinality(CreatedNow(kind)) \in Int /\ Cardinality(CreatedNow(kind)') \in Int
      BY <2>2, FiguresKnown, FiguresKnownNext DEF FiguresAre
    <2> QED
      BY <1>4, <2>3, <2>4, <2>5, <2>6
  <1> QED
    BY <1>5, <1>6

\* Nothing but the answer under way changed, and it is still under way.
LEMMA AnswerGoesOn ==
  ASSUME OverviewTyped, UNCHANGED <<rows, today, stats, loading, error, changes, missed>>,
         request.pc # "idle",
         request' = [pc |-> request'.pc, left |-> request'.left, count |-> request'.count,
                     trends |-> request'.trends, top |-> request'.top, missed |-> request'.missed],
         request'.pc \in {"counts", "trends", "top", "answer"},
         request'.count \in OverviewCounts, request'.trends \in OverviewTrends,
         CountsAgree(request'.count, KnownCounts'),
         "trends" \notin request'.missed => TrendsAgree(request'.trends, KnownTrends'),
         request'.pc = "answer" /\ changes = 0 /\ "top" \notin request'.missed => TopAgrees(request'.top)
  PROVE  OverviewInv'
  <1>1. loading'
    BY DEF OverviewTyped
  <1>2. OverviewTrends' = OverviewTrends
    BY DEF OverviewTrends, Overview!MonthLabels, Overview!FirstMonth, Overview!DaysIn
  <1>3. OverviewTyped'
    BY <1>1, <1>2 DEF OverviewTyped, OverviewCounts
  <1>4. AnswerAgrees'
    <2>1. CountsAgree(request.count, KnownCounts)'
      BY DEF CountsAgree, Overview!Near, Overview!Count, Suspended, Overview!There
    <2>2. ("trends" \notin request.missed => TrendsAgree(request.trends, KnownTrends))'
      BY DEF TrendsAgree, Overview!Near, Overview!Sum, Overview!Created, CreatedNow, Overview!FirstMonth, Overview!DaysIn
    <2>3. (request.pc = "answer" /\ changes = 0 /\ "top" \notin request.missed => TopAgrees(request.top))'
      BY DEF TopAgrees, Overview!There, Overview!TaskCount
    <2> QED
      BY <2>1, <2>2, <2>3 DEF AnswerAgrees
  <1>5. ~Overview!AtRest'
    BY <1>1 DEF Overview!AtRest
  <1> QED
    BY <1>3, <1>4, <1>5 DEF OverviewInv

LEMMA OverviewCountRows ==
  ASSUME OverviewInv, NEW f \in Figures, Overview!CountRows(f)
  PROVE  OverviewInv'
  <1> DEFINE q == [request EXCEPT !.left = @ \ {f}, !.count[f] = Overview!Count[f]]
  <1>1. /\ request.pc = "counts" /\ f \in request.left
        /\ request' = IF q.left = {} THEN [q EXCEPT !.pc = "trends", !.left = TrendKinds] ELSE q
        /\ UNCHANGED <<rows, today, stats, loading, error, changes, missed>>
    BY OverviewNames DEF Overview!CountRows, Overview!Proceeds, Overview!page, Overview!history
  <1>2. OverviewTyped /\ AnswerAgrees /\ changes \in Nat
    BY <1>1 DEF OverviewInv, OverviewTyped
  <1>3. PICK o : o = request
    OBVIOUS
  <1>4. PICK n : n = Overview!Count[f]
    OBVIOUS
  <1>5. n \in Nat
    BY <1>4, FiguresKnown DEF FiguresAre
  <1> DEFINE Alike(pc, left, count) ==
               [pc : {pc}, left : {left}, count : {count}, trends : {o.trends}, top : {o.top}, missed : {o.missed}]
  <1>6. o \in Alike(o.pc, o.left, o.count)
    BY <1>2, <1>3 DEF OverviewTyped
  <1>7. q \in Alike(o.pc, o.left \ {f}, [o.count EXCEPT ![f] = n])
    BY <1>3, <1>4, <1>6
  <1> HIDE DEF q
  <1>8. \/ o.left \ {f} # {} /\ request' \in Alike(o.pc, o.left \ {f}, [o.count EXCEPT ![f] = n])
        \/ o.left \ {f} = {} /\ request' \in Alike("trends", TrendKinds, [o.count EXCEPT ![f] = n])
    BY <1>1, <1>7
  <1>9. [o.count EXCEPT ![f] = n] \in OverviewCounts /\ o.count \in OverviewCounts
    BY <1>2, <1>3, <1>5 DEF OverviewTyped, OverviewCounts, Figures
  <1>10. /\ request' = [pc |-> request'.pc, left |-> request'.left, count |-> request'.count,
                        trends |-> request'.trends, top |-> request'.top, missed |-> request'.missed]
         /\ request'.pc \in {"counts", "trends"} /\ request'.count = [o.count EXCEPT ![f] = n]
         /\ request'.trends = o.trends
    BY <1>1, <1>3, <1>8
  <1>11. KnownCounts' = KnownCounts \cup {f} /\ KnownTrends' = {} /\ KnownCounts \subseteq Figures
    BY <1>1, <1>3, <1>8 DEF KnownCounts, KnownTrends
  <1>12. CountsAgree(request'.count, KnownCounts')
    <2>1. /\ \A g \in KnownCounts : Overview!Near(o.count[g], Overview!Count[g])
          /\ {"users", "active"} \subseteq KnownCounts =>
                Overview!Near(o.count["users"] - o.count["active"], Cardinality(Suspended))
      BY <1>2, <1>3 DEF AnswerAgrees, CountsAgree
    <2>2. PICK c : c = [o.count EXCEPT ![f] = n]
      OBVIOUS
    <2>3. c[f] = n /\ \A g \in Figures \ {f} : c[g] = o.count[g]
      BY <1>9, <2>2 DEF OverviewCounts, Figures
    <2>4. \A g \in Figures : c[g] \in Int /\ o.count[g] \in Int
      BY <1>9, <2>2 DEF OverviewCounts, Figures
    <2>5. Overview!Near(n, n)
      BY <1>2, <1>5 DEF Overview!Near
    <2>6. \A g \in KnownCounts \cup {f} : Overview!Near(c[g], Overview!Count[g])
      BY <1>4, <1>11, <2>1, <2>3, <2>5
    <2>7. ASSUME {"users", "active"} \subseteq KnownCounts \cup {f}
          PROVE  Overview!Near(c["users"] - c["active"], Cardinality(Suspended))
      <3>1. CASE f \notin {"users", "active"}
        BY <2>1, <2>3, <2>7, <3>1 DEF Figures
      <3>2. /\ Cardinality(Suspended) \in Nat /\ Overview!Count["users"] \in Nat /\ Overview!Count["active"] \in Nat
            /\ Cardinality(Suspended) = Overview!Count["users"] - Overview!Count["active"]
        BY SuspendedAreOthers
      <3>3. Overview!Near(c["users"], Overview!Count["users"]) /\ Overview!Near(c["active"], Overview!Count["active"])
        BY <2>6, <2>7
      <3>4. c["users"] \in Int /\ c["active"] \in Int
        BY <2>4 DEF Figures
      <3>5. CASE f = "users"
        <4>1. c["users"] = Overview!Count["users"]
          BY <1>4, <2>3, <3>5
        <4> QED
          BY <1>2, <3>2, <3>3, <3>4, <4>1 DEF Overview!Near
      <3>6. CASE f = "active"
        <4>1. c["active"] = Overview!Count["active"]
          BY <1>4, <2>3, <3>6
        <4> QED
          BY <1>2, <3>2, <3>3, <3>4, <4>1 DEF Overview!Near
      <3> QED
        BY <3>1, <3>5, <3>6
    <2> QED
      BY <1>10, <1>11, <2>2, <2>6, <2>7 DEF CountsAgree
  <1>13. TrendsAgree(request'.trends, KnownTrends')
    BY <1>11 DEF TrendsAgree
  <1>14. request'.trends \in OverviewTrends
    BY <1>2, <1>3, <1>10 DEF OverviewTyped
  <1> QED
    BY <1>1, <1>2, <1>9, <1>10, <1>12, <1>13, <1>14, AnswerGoesOn

LEMMA OverviewTrend ==
  ASSUME OverviewInv, NEW kind \in TrendKinds, Overview!Trend(kind)
  PROVE  OverviewInv'
  <1> DEFINE q == [request EXCEPT !.left = @ \ {kind}, !.trends[kind] = Overview!FillTrend(Overview!Created(kind))]
  <1>1. /\ request.pc = "trends" /\ kind \in request.left
        /\ request' = IF q.left = {} THEN [q EXCEPT !.pc = "top", !.left = {}] ELSE q
        /\ UNCHANGED <<rows, today, stats, loading, error, changes, missed>>
    BY OverviewNames DEF Overview!Trend, Overview!Proceeds, Overview!page, Overview!history
  <1>2. OverviewTyped /\ AnswerAgrees /\ changes \in Nat
    BY <1>1 DEF OverviewInv, OverviewTyped
  <1>3. PICK o : o = request
    OBVIOUS
  <1>4. PICK n : n = Overview!FillTrend(Overview!Created(kind))
    OBVIOUS
  <1>5. IsFiniteSet(Overview!Created(kind)) /\ Cardinality(Overview!Created(kind)) \in Nat /\ Cardinality(CreatedNow(kind)) \in Nat
    BY FiguresKnown DEF FiguresAre
  <1>6. /\ n \in [Overview!MonthLabels -> Nat]
        /\ Overview!Sum(n) = Cardinality(Overview!Created(kind))
        /\ n[today.month] = Cardinality(CreatedNow(kind))
    <2>1. Overview!Created(kind) \subseteq Overview!Row
      BY RowsAreFinite DEF Overview!Created
    <2>2. \A x \in Overview!Created(kind) : rows[x].month >= Overview!FirstMonth
      BY DEF Overview!Created
    <2>3. today.month \in Overview!MonthLabels
      BY <1>2, SixMonths
    <2> QED
      BY <1>2, <1>4, <1>5, <2>1, <2>2, <2>3, FilledTrend, TrendCountsAll DEF CreatedNow
  <1> DEFINE Alike(pc, left, trends) ==
               [pc : {pc}, left : {left}, count : {o.count}, trends : {trends}, top : {o.top}, missed : {o.missed}]
  <1>7. o \in Alike(o.pc, o.left, o.trends)
    BY <1>2, <1>3 DEF OverviewTyped
  <1>8. q \in Alike(o.pc, o.left \ {kind}, [o.trends EXCEPT ![kind] = n])
    BY <1>3, <1>4, <1>7
  <1> HIDE DEF q
  <1>9. \/ o.left \ {kind} # {} /\ request' \in Alike(o.pc, o.left \ {kind}, [o.trends EXCEPT ![kind] = n])
        \/ o.left \ {kind} = {} /\ request' \in Alike("top", {}, [o.trends EXCEPT ![kind] = n])
    BY <1>1, <1>8
  <1>10. /\ request' = [pc |-> request'.pc, left |-> request'.left, count |-> request'.count,
                        trends |-> request'.trends, top |-> request'.top, missed |-> request'.missed]
         /\ request'.pc \in {"trends", "top"} /\ request'.trends = [o.trends EXCEPT ![kind] = n]
         /\ request'.count = o.count /\ request'.missed = o.missed
    BY <1>1, <1>3, <1>9
  <1>11. KnownTrends' = KnownTrends \cup {kind} /\ KnownCounts' = KnownCounts /\ KnownTrends \subseteq TrendKinds
    BY <1>1, <1>3, <1>9 DEF KnownCounts, KnownTrends
  <1>12. o.trends \in OverviewTrends /\ [o.trends EXCEPT ![kind] = n] \in OverviewTrends
    <2>1. o.trends \in OverviewTrends
      BY <1>2, <1>3 DEF OverviewTyped
    <2> QED
      BY <1>6, <2>1 DEF OverviewTrends
  <1>13. "trends" \notin request'.missed => TrendsAgree(request'.trends, KnownTrends')
    <2> SUFFICES ASSUME "trends" \notin o.missed, NEW k \in KnownTrends \cup {kind}
                 PROVE  /\ Overview!Near(Overview!Sum([o.trends EXCEPT ![kind] = n][k]), Cardinality(Overview!Created(k)))
                        /\ Overview!Near([o.trends EXCEPT ![kind] = n][k][today.month], Cardinality(CreatedNow(k)))
      BY <1>10, <1>11 DEF TrendsAgree
    <2>1. CASE k = kind
      <3>1. [o.trends EXCEPT ![kind] = n][k] = n
        BY <1>12, <2>1 DEF OverviewTrends
      <3> QED
        BY <1>2, <1>5, <1>6, <2>1, <3>1 DEF Overview!Near
    <2>2. CASE k # kind
      <3>1. [o.trends EXCEPT ![kind] = n][k] = o.trends[k]
        BY <1>11, <1>12, <2>2 DEF OverviewTrends
      <3> QED
        BY <1>2, <1>3, <2>2, <3>1 DEF AnswerAgrees, TrendsAgree
    <2> QED
      BY <2>1, <2>2
  <1>14. request'.count \in OverviewCounts /\ CountsAgree(request'.count, KnownCounts')
    BY <1>2, <1>3, <1>10, <1>11 DEF AnswerAgrees, OverviewTyped
  <1> QED
    BY <1>1, <1>2, <1>10, <1>12, <1>13, <1>14, AnswerGoesOn

\* A statement that failed, or the list of the projects, is the next to last step.
LEMMA OverviewMiss ==
  ASSUME OverviewInv, Overview!MissTrends \/ Overview!MissTop
  PROVE  OverviewInv'
  <1>1. /\ UNCHANGED <<rows, today, stats, loading, error, changes, missed>>
        /\ \/ /\ request.pc = "trends"
              /\ request' = [request EXCEPT !.pc = "top", !.left = {}, !.trends = Overview!NoTrends,
                                            !.missed = @ \cup {"trends"}]
           \/ request.pc = "top" /\ request' = [request EXCEPT !.pc = "answer", !.missed = @ \cup {"top"}]
    BY DEF Overview!MissTrends, Overview!MissTop, Overview!page, Overview!history
  <1>2. OverviewTyped /\ AnswerAgrees
    BY <1>1 DEF OverviewInv
  <1>3. PICK o : o = request
    OBVIOUS
  <1> DEFINE Alike(pc, left, trends, m) ==
               [pc : {pc}, left : {left}, count : {o.count}, trends : {trends}, top : {o.top}, missed : {m}]
  <1>4. o \in Alike(o.pc, o.left, o.trends, o.missed)
    BY <1>2, <1>3 DEF OverviewTyped
  <1>5. \/ o.pc = "trends" /\ request' \in Alike("top", {}, Overview!NoTrends, o.missed \cup {"trends"})
        \/ o.pc = "top" /\ request' \in Alike("answer", o.left, o.trends, o.missed \cup {"top"})
    BY <1>1, <1>3, <1>4
  <1>6. o.trends \in OverviewTrends /\ Overview!NoTrends \in OverviewTrends
    <2>1. Overview!FillTrend({}) \in [Overview!MonthLabels -> Nat]
      BY FilledTrend, FS_EmptySet
    <2> QED
      BY <1>2, <1>3, <2>1, OverviewNames DEF OverviewTyped, OverviewTrends, Overview!NoTrends
  <1>7. /\ request' = [pc |-> request'.pc, left |-> request'.left, count |-> request'.count,
                       trends |-> request'.trends, top |-> request'.top, missed |-> request'.missed]
        /\ request'.pc \in {"top", "answer"} /\ request'.count = o.count
        /\ request'.trends \in OverviewTrends
        /\ request'.pc = "answer" => "top" \in request'.missed
        /\ "trends" \notin request'.missed => request'.trends = o.trends /\ "trends" \notin o.missed /\ o.pc = "top"
    BY <1>5, <1>6
  <1>8. /\ KnownCounts' = Figures /\ KnownCounts = Figures
        /\ KnownTrends' = TrendKinds
        /\ o.pc = "top" => KnownTrends = TrendKinds
    BY <1>3, <1>5, <1>7 DEF KnownCounts, KnownTrends
  <1>9. request'.count \in OverviewCounts /\ CountsAgree(request'.count, KnownCounts')
    BY <1>2, <1>3, <1>7, <1>8 DEF AnswerAgrees, OverviewTyped
  <1>10. "trends" \notin request'.missed => TrendsAgree(request'.trends, KnownTrends')
    BY <1>2, <1>3, <1>7, <1>8 DEF AnswerAgrees
  <1>11. request.pc # "idle"
    BY <1>1
  <1> QED
    BY <1>1, <1>2, <1>7, <1>9, <1>10, <1>11, AnswerGoesOn

\* A project that is not in the list has no more tasks than those that are, and
\* the list is as long as it can be.
LEMMA TopIsRight ==
  ASSUME NEW n \in 0 .. Top, NEW list \in [1 .. n -> Project], Overview!TopProjects(list)
  PROVE  TopAgrees([i \in DOMAIN list |-> [project |-> list[i], tasks |-> Overview!TaskCount(list[i])]])
  <1> DEFINE top == [i \in DOMAIN list |-> [project |-> list[i], tasks |-> Overview!TaskCount(list[i])]]
             There == Overview!There(Project)
  <1>1. n \in Nat /\ DOMAIN list = 1 .. n /\ Top \in Nat
    BY ClientsAssumption
  <1>2. /\ \A i, j \in 1 .. n : list[i] = list[j] => i = j
        /\ \A i \in 1 .. n : list[i] \in There
    BY <1>1 DEF Overview!TopProjects, Overview!IsInjective, Overview!Range
  <1>3. \A i \in 1 .. n, p \in There : (\A j \in 1 .. i : p # list[j]) => Overview!TaskCount(p) <= Overview!TaskCount(list[i])
    BY <1>1 DEF Overview!TopProjects
  <1>4. DOMAIN list = 1 .. Overview!Min({Top, Cardinality(There)})
    BY OverviewCountsAlike DEF Overview!TopProjects
  <1>5. IsFiniteSet(There) /\ Cardinality(There) \in Nat
    BY RowsAreFinite, FS_Subset, FS_CardinalityType DEF Overview!There
  <1>6. /\ DOMAIN top = 1 .. n
        /\ \A i \in 1 .. n : top[i].project = list[i] /\ top[i].tasks = Overview!TaskCount(list[i])
    BY <1>1
  <1> HIDE DEF top, There
  <1>7. SUFFICES ASSUME NEW p \in There \ {top[i].project : i \in DOMAIN top}
                 PROVE  /\ Cardinality(DOMAIN top) = Top
                        /\ \A i \in DOMAIN top : Overview!TaskCount(p) <= top[i].tasks
    BY DEF TopAgrees, top, There
  <1>8. \A i \in 1 .. n : p # list[i]
    BY <1>6, <1>7
  <1>9. \A i \in DOMAIN top : Overview!TaskCount(p) <= top[i].tasks
    <2>1. ASSUME NEW i \in 1 .. n PROVE Overview!TaskCount(p) <= Overview!TaskCount(list[i])
      <3>1. \A j \in 1 .. i : j \in 1 .. n
        BY <1>1
      <3> QED
        BY <1>3, <1>7, <1>8, <3>1
    <2> QED
      BY <1>6, <2>1
  <1>10. n <= Cardinality(There) - 1
    <2> DEFINE rest == There \ {p}
    <2>1. IsFiniteSet(rest) /\ Cardinality(rest) = Cardinality(There) - 1
      BY <1>5, <1>7, FS_RemoveElement
    <2>2. list \in Injection(1 .. n, rest)
      BY <1>1, <1>2, <1>8 DEF Injection, IsInjective
    <2>3. Cardinality(1 .. n) <= Cardinality(rest)
      BY <2>1, <2>2, FS_Injection
    <2>4. Cardinality(1 .. n) = n
      BY <1>1, FS_Interval
    <2> QED
      BY <2>1, <2>3, <2>4
  <1>11. n = Top
    <2>1. PICK m : m = Overview!Min({Top, Cardinality(There)})
      OBVIOUS
    <2>2. m \in {Top, Cardinality(There)}
      <3>1. \E x \in {Top, Cardinality(There)} : \A y \in {Top, Cardinality(There)} : x <= y
        BY <1>1, <1>5
      <3> QED
        BY <2>1, <3>1 DEF Overview!Min
    <2>3. m = n
      BY <1>1, <1>4, <1>5, <2>1, <2>2
    <2> QED
      BY <1>1, <1>5, <1>10, <2>2, <2>3
  <1>12. Cardinality(DOMAIN top) = Top
    BY <1>1, <1>6, <1>11, FS_Interval
  <1> QED
    BY <1>9, <1>12

LEMMA OverviewTopProjects ==
  ASSUME OverviewInv, NEW n \in 0 .. Top, NEW list \in [1 .. n -> Project], Overview!TopProjects(list)
  PROVE  OverviewInv'
  <1>1. PICK top : top = [i \in DOMAIN list |-> [project |-> list[i], tasks |-> Overview!TaskCount(list[i])]]
    OBVIOUS
  <1>2. /\ UNCHANGED <<rows, today, stats, loading, error, changes, missed>>
        /\ request.pc = "top" /\ request' = [request EXCEPT !.pc = "answer", !.top = top]
    BY <1>1 DEF Overview!TopProjects, Overview!page, Overview!history
  <1>3. TopAgrees(top)
    BY <1>1, TopIsRight
  <1>4. OverviewTyped /\ AnswerAgrees
    BY <1>2 DEF OverviewInv
  <1>5. PICK o : o = request
    OBVIOUS
  <1> DEFINE Alike(pc, x) ==
               [pc : {pc}, left : {o.left}, count : {o.count}, trends : {o.trends}, top : {x}, missed : {o.missed}]
  <1>6. o \in Alike(o.pc, o.top)
    BY <1>4, <1>5 DEF OverviewTyped
  <1>7. request' \in Alike("answer", top)
    BY <1>2, <1>5, <1>6
  <1>8. /\ request' = [pc |-> request'.pc, left |-> request'.left, count |-> request'.count,
                       trends |-> request'.trends, top |-> request'.top, missed |-> request'.missed]
        /\ request'.pc = "answer" /\ request'.count = o.count /\ request'.trends = o.trends
        /\ request'.top = top /\ request'.missed = o.missed
    BY <1>7
  <1>9. KnownCounts' = KnownCounts /\ KnownTrends' = KnownTrends
    BY <1>2, <1>8 DEF KnownCounts, KnownTrends
  <1>10. /\ request'.count \in OverviewCounts /\ CountsAgree(request'.count, KnownCounts')
         /\ request'.trends \in OverviewTrends
         /\ "trends" \notin request'.missed => TrendsAgree(request'.trends, KnownTrends')
    BY <1>4, <1>5, <1>8, <1>9 DEF AnswerAgrees, OverviewTyped
  <1>11. request.pc # "idle" /\ TopAgrees(request'.top)
    BY <1>2, <1>3, <1>8
  <1> QED
    BY <1>2, <1>4, <1>8, <1>10, <1>11, AnswerGoesOn

\* The page asks, and knows nothing yet.
LEMMA NothingKnown ==
  LET q == Overview!Sent
  IN /\ q = [pc |-> q.pc, left |-> q.left, count |-> q.count, trends |-> q.trends, top |-> q.top, missed |-> q.missed]
     /\ q.pc = "counts" /\ q.left = Figures
     /\ q.count \in OverviewCounts /\ q.trends \in OverviewTrends
  <1> DEFINE Alike(pc, left) ==
               [pc : {pc}, left : {left}, count : {Overview!NoFigures}, trends : {Overview!NoTrends}, top : {<<>>}, missed : {{}}]
  <1>1. Overview!Idle \in Alike("idle", {})
    BY DEF Overview!Idle
  <1>2. PICK q : q = Overview!Sent
    OBVIOUS
  <1>3. q \in Alike("counts", Figures)
    BY <1>1, <1>2, OverviewNames DEF Overview!Sent
  <1>4. Overview!NoTrends \in OverviewTrends
    <2>1. Overview!FillTrend({}) \in [Overview!MonthLabels -> Nat]
      BY FilledTrend, FS_EmptySet
    <2> QED
      BY <2>1, OverviewNames DEF OverviewTrends, Overview!NoTrends
  <1> QED
    BY <1>2, <1>3, <1>4, OverviewNames

LEMMA OverviewStart ==
  ASSUME OverviewInv, Overview!Open \/ Overview!Retry
  PROVE  OverviewInv'
  <1>1. /\ request' = Overview!Sent /\ loading' = TRUE /\ error' = FALSE /\ changes' = 0
        /\ UNCHANGED <<rows, today>>
    BY DEF Overview!Open, Overview!Retry
  <1>2. OverviewTyped
    BY DEF OverviewInv
  <1>3. /\ request' = [pc |-> request'.pc, left |-> request'.left, count |-> request'.count,
                       trends |-> request'.trends, top |-> request'.top, missed |-> request'.missed]
        /\ request'.pc = "counts" /\ request'.left = Figures
        /\ request'.count \in OverviewCounts /\ request'.trends \in OverviewTrends
    BY <1>1, NothingKnown
  <1>4. OverviewTrends' = OverviewTrends
    BY <1>1 DEF OverviewTrends, Overview!MonthLabels, Overview!FirstMonth, Overview!DaysIn
  <1>5. OverviewTyped'
    BY <1>1, <1>2, <1>3, <1>4 DEF OverviewTyped, OverviewCounts
  <1>6. KnownCounts' = {} /\ KnownTrends' = {}
    BY <1>3 DEF KnownCounts, KnownTrends
  <1>7. AnswerAgrees'
    BY <1>3, <1>6 DEF AnswerAgrees, CountsAgree, TrendsAgree
  <1> QED
    BY <1>1, <1>5, <1>7 DEF OverviewInv, Overview!AtRest

LEMMA OverviewLand ==
  ASSUME OverviewInv, Overview!Land
  PROVE  OverviewInv'
  <1>1. /\ request.pc = "answer"
        /\ stats' = [count |-> request.count, suspended |-> request.count.users - request.count.active,
                     trends |-> request.trends, top |-> request.top]
        /\ missed' = request.missed
        /\ loading' = FALSE /\ request' = Overview!Idle
        /\ UNCHANGED <<rows, today, error, changes>>
    BY DEF Overview!Land
  <1>2. OverviewTyped /\ AnswerAgrees
    BY <1>1 DEF OverviewInv
  <1>3. KnownCounts = Figures /\ KnownTrends = TrendKinds
    BY <1>1 DEF KnownCounts, KnownTrends
  <1>4. OverviewTrends' = OverviewTrends
    BY <1>1 DEF OverviewTrends, Overview!MonthLabels, Overview!FirstMonth, Overview!DaysIn
  <1>5. OverviewTyped'
    <2> DEFINE Alike == [pc : {"idle"}, left : {{}}, count : {Overview!NoFigures}, trends : {Overview!NoTrends},
                         top : {<<>>}, missed : {{}}]
    <2>1. request' \in Alike
      BY <1>1 DEF Overview!Idle
    <2>2. Overview!NoTrends \in OverviewTrends
      <3>1. Overview!FillTrend({}) \in [Overview!MonthLabels -> Nat]
        BY FilledTrend, FS_EmptySet
      <3> QED
        BY <3>1, OverviewNames DEF OverviewTrends, Overview!NoTrends
    <2>3. /\ request' = [pc |-> request'.pc, left |-> request'.left, count |-> request'.count,
                         trends |-> request'.trends, top |-> request'.top, missed |-> request'.missed]
          /\ request'.pc = "idle" /\ request'.count \in OverviewCounts /\ request'.trends \in OverviewTrends
      BY <2>1, <2>2, OverviewNames
    <2> QED
      BY <1>1, <1>2, <1>4, <2>3 DEF OverviewTyped, OverviewCounts
  <1>6. StatsAgree'
    <2>1. /\ stats'.count = request.count /\ stats'.trends = request.trends /\ stats'.top = request.top
          /\ stats'.suspended = request.count.users - request.count.active
      BY <1>1
    <2>2. /\ request.count \in OverviewCounts /\ request.trends \in OverviewTrends
          /\ CountsAgree(request.count, Figures)
          /\ "trends" \notin request.missed => TrendsAgree(request.trends, TrendKinds)
          /\ changes = 0 /\ "top" \notin request.missed => TopAgrees(request.top)
      BY <1>1, <1>2, <1>3 DEF OverviewTyped, AnswerAgrees
    <2>3. CountsAgree(stats.count, Figures)'
      BY <1>1, <2>1, <2>2 DEF CountsAgree, Overview!Near, Overview!Count, Suspended, Overview!There
    <2>4. ("trends" \notin missed => TrendsAgree(stats.trends, TrendKinds))'
      BY <1>1, <2>1, <2>2
      DEF TrendsAgree, Overview!Near, Overview!Sum, Overview!Created, CreatedNow, Overview!FirstMonth, Overview!DaysIn
    <2>5. (changes = 0 /\ "top" \notin missed => TopAgrees(stats.top))'
      BY <1>1, <2>1, <2>2 DEF TopAgrees, Overview!There, Overview!TaskCount
    <2>6. (stats.count \in OverviewCounts /\ stats.trends \in OverviewTrends)'
      BY <1>4, <2>1, <2>2 DEF OverviewCounts
    <2>7. (stats.suspended = stats.count.users - stats.count.active)'
      BY <2>1
    <2> QED
      BY <2>3, <2>4, <2>5, <2>6, <2>7 DEF StatsAgree
  <1>7. request'.pc = "idle"
    BY <1>1, <1>5 DEF OverviewTyped
  <1> QED
    BY <1>5, <1>6, <1>7 DEF OverviewInv

LEMMA OverviewFail ==
  ASSUME OverviewInv, Overview!Fail
  PROVE  OverviewInv'
  <1>1. /\ error' = TRUE /\ loading' = FALSE /\ request' = Overview!Idle
        /\ UNCHANGED <<rows, today, stats, changes, missed>>
    BY DEF Overview!Fail, Overview!history
  <1>2. OverviewTyped
    BY DEF OverviewInv
  <1>3. OverviewTrends' = OverviewTrends
    BY <1>1 DEF OverviewTrends, Overview!MonthLabels, Overview!FirstMonth, Overview!DaysIn
  <1> DEFINE Alike == [pc : {"idle"}, left : {{}}, count : {Overview!NoFigures}, trends : {Overview!NoTrends},
                       top : {<<>>}, missed : {{}}]
  <1>4. request' \in Alike
    BY <1>1 DEF Overview!Idle
  <1>5. Overview!NoTrends \in OverviewTrends
    <2>1. Overview!FillTrend({}) \in [Overview!MonthLabels -> Nat]
      BY FilledTrend, FS_EmptySet
    <2> QED
      BY <2>1, OverviewNames DEF OverviewTrends, Overview!NoTrends
  <1>6. /\ request' = [pc |-> request'.pc, left |-> request'.left, count |-> request'.count,
                       trends |-> request'.trends, top |-> request'.top, missed |-> request'.missed]
        /\ request'.pc = "idle" /\ request'.count \in OverviewCounts /\ request'.trends \in OverviewTrends
    BY <1>4, <1>5, OverviewNames
  <1>7. OverviewTyped'
    BY <1>1, <1>2, <1>3, <1>6 DEF OverviewTyped, OverviewCounts
  <1>8. ~Overview!AtRest'
    BY <1>1 DEF Overview!AtRest
  <1> QED
    BY <1>6, <1>7, <1>8 DEF OverviewInv

LEMMA OverviewChange ==
  ASSUME OverviewInv, Overview!Change
  PROVE  OverviewInv'
  <1>1. OverviewTyped /\ UNCHANGED <<today, request, stats, loading, error, missed>>
    BY DEF OverviewInv, Overview!Change, Overview!page
  <1>2. OverviewTyped' /\ changes' # 0
    <2>1. changes' = changes + 1 /\ changes \in Nat
      BY <1>1, ChangeOfOne
    <2> QED
      BY <1>1, <2>1, ChangeOfOne
  <1>3. KnownCounts' = KnownCounts /\ KnownTrends' = KnownTrends /\ OverviewTrends' = OverviewTrends
    BY <1>1 DEF KnownCounts, KnownTrends, OverviewTrends, Overview!MonthLabels, Overview!FirstMonth, Overview!DaysIn
  <1>4. KnownCounts \in SUBSET Figures /\ KnownTrends \in SUBSET TrendKinds
    BY DEF KnownCounts, KnownTrends
  <1>5. ASSUME request.pc # "idle" PROVE AnswerAgrees'
    <2>1. PICK count, trends : count = request.count /\ trends = request.trends
      OBVIOUS
    <2>2. PICK kc, kt : kc = KnownCounts /\ kt = KnownTrends
      OBVIOUS
    <2>3. /\ count \in OverviewCounts /\ trends \in OverviewTrends
          /\ CountsAgree(count, kc) /\ ("trends" \notin request.missed => TrendsAgree(trends, kt))
      BY <1>1, <1>5, <2>1, <2>2 DEF OverviewInv, AnswerAgrees, OverviewTyped
    <2>4. CountsAgree(count, kc)' /\ ("trends" \notin request.missed => TrendsAgree(trends, kt)')
      BY <1>1, <1>4, <2>2, <2>3, ChangeKeepsAgreement
    <2>5. count = request'.count /\ trends = request'.trends /\ kc = KnownCounts' /\ kt = KnownTrends'
      BY <1>1, <1>3, <2>1, <2>2
    <2> QED
      BY <1>1, <1>2, <2>4, <2>5 DEF AnswerAgrees, CountsAgree, TrendsAgree
  <1>6. ASSUME Overview!AtRest' PROVE StatsAgree'
    <2>1. StatsAgree
      BY <1>1, <1>6 DEF OverviewInv, Overview!AtRest
    <2>2. PICK count, trends : count = stats.count /\ trends = stats.trends
      OBVIOUS
    <2>3. /\ count \in OverviewCounts /\ trends \in OverviewTrends
          /\ CountsAgree(count, Figures) /\ ("trends" \notin missed => TrendsAgree(trends, TrendKinds))
      BY <2>1, <2>2 DEF StatsAgree
    <2>4. CountsAgree(count, Figures)' /\ ("trends" \notin missed => TrendsAgree(trends, TrendKinds)')
      BY <1>1, <2>3, ChangeKeepsAgreement
    <2>5. count = stats'.count /\ trends = stats'.trends
      BY <1>1, <2>2
    <2>6. CountsAgree(stats.count, Figures)'
      BY <2>4, <2>5 DEF CountsAgree
    <2>7. ("trends" \notin missed => TrendsAgree(stats.trends, TrendKinds))'
      BY <1>1, <2>4, <2>5 DEF TrendsAgree
    <2>8. (stats.count \in OverviewCounts /\ stats.trends \in OverviewTrends)'
      BY <1>3, <2>3, <2>5 DEF OverviewCounts
    <2>9. (stats.suspended = stats.count.users - stats.count.active)'
      BY <1>1, <2>1 DEF StatsAgree
    <2> QED
      BY <1>2, <2>6, <2>7, <2>8, <2>9 DEF StatsAgree
  <1> QED
    BY <1>1, <1>2, <1>5, <1>6 DEF OverviewInv

LEMMA InitOverview == Overview!Init => OverviewInv
  <1> SUFFICES ASSUME Overview!Init PROVE OverviewInv
    OBVIOUS
  <1>1. /\ today \in Today /\ request = Overview!Sent /\ loading = TRUE /\ error = FALSE /\ changes = 0
        /\ rows \in [Overview!Row -> [state : {"none", "active"},
                                      month : {Overview!FirstMonth - 1, Overview!FirstMonth, today.month}]]
    BY DEF Overview!Init
  <1>2. today.month \in Int /\ Overview!FirstMonth \in {today.month - 4, today.month - 5}
    BY <1>1, ClientsAssumption DEF Overview!FirstMonth
  <1>3. /\ rows \in [Overview!Row -> [state : {"none", "active", "suspended", "deleted"}, month : Int]]
        /\ \A x \in Overview!Row : rows[x].month <= today.month
    <2>1. ASSUME NEW x \in Overview!Row
          PROVE  rows[x] \in [state : {"none", "active", "suspended", "deleted"}, month : Int] /\ rows[x].month <= today.month
      <3>1. rows[x] \in [state : {"none", "active"}, month : {Overview!FirstMonth - 1, Overview!FirstMonth, today.month}]
        BY <1>1
      <3> QED
        BY <1>2, <3>1
    <2> QED
      BY <1>1, <2>1
  <1>4. /\ request = [pc |-> request.pc, left |-> request.left, count |-> request.count,
                      trends |-> request.trends, top |-> request.top, missed |-> request.missed]
        /\ request.pc = "counts" /\ request.left = Figures
        /\ request.count \in OverviewCounts /\ request.trends \in OverviewTrends
    BY <1>1, NothingKnown
  <1>5. OverviewTyped
    BY <1>1, <1>3, <1>4 DEF OverviewTyped
  <1>6. KnownCounts = {} /\ KnownTrends = {}
    BY <1>4 DEF KnownCounts, KnownTrends
  <1>7. AnswerAgrees
    BY <1>4, <1>6 DEF AnswerAgrees, CountsAgree, TrendsAgree
  <1> QED
    BY <1>1, <1>5, <1>7 DEF OverviewInv, Overview!AtRest

LEMMA OverviewStands ==
  ASSUME OverviewInv, UNCHANGED Overview!vars
  PROVE  OverviewInv'
  <1>1. UNCHANGED <<rows, today, request, stats, loading, error, changes, missed>>
    BY DEF Overview!vars, Overview!page, Overview!history
  <1>2. Overview!FirstMonth' = Overview!FirstMonth /\ OverviewTrends' = OverviewTrends /\ OverviewCounts' = OverviewCounts
    BY <1>1 DEF OverviewTrends, OverviewCounts, Overview!MonthLabels, Overview!FirstMonth, Overview!DaysIn
  <1>3. OverviewTyped'
    BY <1>1, <1>2 DEF OverviewInv, OverviewTyped
  <1>4. KnownCounts' = KnownCounts /\ KnownTrends' = KnownTrends
    BY <1>1 DEF KnownCounts, KnownTrends
  <1>5. \A count, known : CountsAgree(count, known) => CountsAgree(count, known)'
    BY <1>1 DEF CountsAgree, Overview!Near, Overview!Count, Suspended, Overview!There
  <1>6. \A trends, known : TrendsAgree(trends, known) => TrendsAgree(trends, known)'
    BY <1>1, <1>2 DEF TrendsAgree, Overview!Near, Overview!Sum, Overview!Created, CreatedNow
  <1>7. \A top : TopAgrees(top) => TopAgrees(top)'
    BY <1>1 DEF TopAgrees, Overview!There, Overview!TaskCount
  <1>8. AnswerAgrees => AnswerAgrees'
    <2> SUFFICES ASSUME AnswerAgrees PROVE AnswerAgrees'
      OBVIOUS
    <2>1. CountsAgree(request.count, KnownCounts)'
      BY <1>1, <1>4, <1>5 DEF AnswerAgrees, CountsAgree
    <2>2. ("trends" \notin request.missed => TrendsAgree(request.trends, KnownTrends))'
      BY <1>1, <1>4, <1>6 DEF AnswerAgrees, TrendsAgree
    <2>3. (request.pc = "answer" /\ changes = 0 /\ "top" \notin request.missed => TopAgrees(request.top))'
      BY <1>1, <1>7 DEF AnswerAgrees, TopAgrees
    <2> QED
      BY <2>1, <2>2, <2>3 DEF AnswerAgrees
  <1>9. StatsAgree => StatsAgree'
    <2> SUFFICES ASSUME StatsAgree PROVE StatsAgree'
      OBVIOUS
    <2>1. CountsAgree(stats.count, Figures)'
      BY <1>1, <1>5 DEF StatsAgree, CountsAgree
    <2>2. ("trends" \notin missed => TrendsAgree(stats.trends, TrendKinds))'
      BY <1>1, <1>6 DEF StatsAgree, TrendsAgree
    <2>3. (changes = 0 /\ "top" \notin missed => TopAgrees(stats.top))'
      BY <1>1, <1>7 DEF StatsAgree, TopAgrees
    <2>4. (/\ stats.count \in OverviewCounts /\ stats.trends \in OverviewTrends
           /\ stats.suspended = stats.count.users - stats.count.active)'
      BY <1>1, <1>2 DEF StatsAgree
    <2> QED
      BY <2>1, <2>2, <2>3, <2>4 DEF StatsAgree
  <1> QED
    BY <1>1, <1>3, <1>8, <1>9 DEF OverviewInv, Overview!AtRest

LEMMA NextKeepsOverview ==
  ASSUME OverviewInv, Overview!Next \/ UNCHANGED Overview!vars
  PROVE  OverviewInv'
  <1>1. ASSUME NEW f \in DOMAIN Overview!NoFigures, Overview!CountRows(f) PROVE OverviewInv'
    BY <1>1, OverviewNames, OverviewCountRows
  <1>2. ASSUME NEW kind \in DOMAIN Overview!Kind, Overview!Trend(kind) PROVE OverviewInv'
    BY <1>2, OverviewNames, OverviewTrend
  <1>3. CASE Overview!Next
    BY <1>1, <1>2, <1>3, OverviewTopProjects, OverviewMiss, OverviewStart, OverviewLand, OverviewFail, OverviewChange
    DEF Overview!Next
  <1> QED
    BY <1>3, OverviewStands

LEMMA OverviewInvSettles == OverviewInv => Overview!OverviewSettles
  <1> SUFFICES ASSUME OverviewInv PROVE Overview!OverviewSettles
    OBVIOUS
  <1>1. ASSUME Overview!AtRest
        PROVE  /\ StatsAgree
               /\ Overview!CardsShown = stats.count /\ Overview!TrendsShown = stats.trends
               /\ Overview!TopShown = stats.top
    BY <1>1 DEF OverviewInv, Overview!AtRest, Overview!CardsShown, Overview!TrendsShown, Overview!TopShown
  <1>2. Overview!CountsAreNear
    <2> SUFFICES ASSUME Overview!AtRest
                 PROVE  /\ \A f \in DOMAIN Overview!Count : Overview!Near(stats.count[f], Overview!Count[f])
                        /\ Overview!Near(stats.suspended, Cardinality(Suspended))
      BY <1>1, OverviewCountsAlike DEF Overview!CountsAreNear, Suspended
    <2>1. /\ CountsAgree(stats.count, Figures) /\ {"users", "active"} \subseteq Figures
          /\ stats.suspended = stats.count["users"] - stats.count["active"]
      BY <1>1 DEF StatsAgree, Figures
    <2> QED
      BY <2>1, OverviewNames DEF CountsAgree
  <1>3. Overview!TrendsAreNear
    <2> SUFFICES ASSUME Overview!AtRest, "trends" \notin missed, NEW kind \in TrendKinds
                 PROVE  /\ Overview!Near(Overview!Sum(stats.trends[kind]), Cardinality(Overview!Created(kind)))
                        /\ today.month \in DOMAIN stats.trends[kind]
                        /\ Overview!Near(stats.trends[kind][today.month], Cardinality(CreatedNow(kind)))
      BY <1>1, OverviewCountsAlike, OverviewNames DEF Overview!TrendsAreNear, CreatedNow
    <2>1. stats.trends \in OverviewTrends /\ TrendsAgree(stats.trends, TrendKinds)
      BY <1>1 DEF StatsAgree
    <2>2. today.month \in Overview!MonthLabels
      BY SixMonths DEF OverviewInv
    <2> QED
      BY <2>1, <2>2 DEF TrendsAgree, OverviewTrends
  <1>4. Overview!TopIsTop
    BY <1>1, OverviewCountsAlike DEF Overview!TopIsTop, StatsAgree, TopAgrees
  <1> QED
    BY <1>2, <1>3, <1>4 DEF Overview!OverviewSettles

\* user-management.tsx, project-management.tsx, dashboard.tsx: with nothing in
\* flight the tables of an administrator show what is stored for their filter and
\* page, which exists, and no row that this tab has deleted stays in the drawer; the
\* figures of the overview are off by no more than what changed since they were
\* asked for.  Answers that came out of order, that were lost or that changes
\* elsewhere overtook are excepted.
THEOREM AdminAlwaysSettles == Spec => []AdminSettles
  <1> DEFINE I == (part = "tables" => TablesInv) /\ (part = "overview" => OverviewInv)
  <1>1. Init => I
    BY InitTables, InitOverview DEF Init
  <1>2. I /\ [Next]_vars => I'
    <2>1. ASSUME I, [Next]_vars, part' = "tables" PROVE TablesInv'
      <3>1. part = "tables" /\ (Tables!Next \/ UNCHANGED Tables!vars)
        BY <2>1 DEF Next, vars, common, tablesOwn, Tables!vars, Tables!view, Tables!history
      <3> QED
        BY <2>1, <3>1, NextKeepsTables
    <2>2. ASSUME I, [Next]_vars, part' = "overview" PROVE OverviewInv'
      <3>1. part = "overview" /\ (Overview!Next \/ UNCHANGED Overview!vars)
        BY <2>2 DEF Next, vars, common, overviewOwn, Overview!vars, Overview!page, Overview!history
      <3> QED
        BY <2>2, <3>1, NextKeepsOverview
    <2> QED
      BY <2>1, <2>2
  <1>3. I => AdminSettles
    BY TablesInvSettles, OverviewInvSettles DEF AdminSettles
  <1> QED
    BY <1>1, <1>2, <1>3, PTL DEF Spec
=============================================================================
