-------------------------- MODULE NotificationsPage --------------------------
(* The notifications of one user on their page in one tab: the page fetches   *)
(* the newest ones and, with a request of its own, the number of unread ones, *)
(* marks one that is clicked or all of them, and keeps both in the slice.     *)
(* Notifications arrive, and the user reads some elsewhere, of which the page *)
(* hears only when it fetches again.  A request is served by the backend at   *)
(* one moment and its answer arrives at another or never.                     *)
EXTENDS Sequences, FiniteSetsExt

CONSTANTS
    Notification,
    Limit,       \* notifications in an answer
    Request,     \* slots for requests in flight
    Nothing

VARIABLES
    inbox,       \* the notifications of the user in the database, newest first
    isRead,      \* those among them that are read
    open,        \* the page is open
    shown,       \* the rows of the page
    loading, error,
    markingAll,  \* markingAllRead
    marking,     \* markingRead
    store,       \* the slice: the rows it holds and unreadCount
    requests,
    changed,     \* history: the inbox changed elsewhere since the page began to fetch
    crossed,     \* history: a fetch and something marked, or two fetches, overlapped
    missed,      \* history: the number, or the answer to something marked, did not arrive
    late         \* history: what arrived between marking all and the answer

server == <<inbox, isRead>>
view == <<open, shown, loading, error, markingAll, marking, store>>
history == <<changed, crossed, missed, late>>
vars == <<server, view, requests, history>>

Row == [id : Notification, isRead : BOOLEAN]

\* "load" waits for the rows and for the number, which arrive together.
Idle == [kind |-> "none", pc |-> "idle", mine |-> FALSE, id |-> Nothing,
         rows |-> <<>>, count |-> 0, left |-> {}]

TypeOK ==
    /\ inbox \in Seq(Notification) /\ isRead \subseteq Range(inbox)
    /\ shown \in Seq(Row) /\ Len(shown) <= Limit
    /\ \A b \in {open, loading, error, markingAll, changed, crossed, missed} : b \in BOOLEAN
    /\ marking \in Notification \cup {Nothing} /\ late \subseteq Notification
    /\ store.rows \in Seq(Row) /\ store.unread \in 0 .. Cardinality(Notification)
    /\ requests \in [Request -> [kind : {"none", "load", "one", "all"}, pc : {"idle", "sent", "served"},
                                 mine : BOOLEAN, id : Notification \cup {Nothing}, rows : Seq(Row),
                                 count : 0 .. Cardinality(Notification), left : SUBSET {"rows", "count"}]]

Unread == Range(inbox) \ isRead
InFlight(kinds) == \E r \in Request : requests[r].kind \in kinds
Free(r) == requests' = [requests EXCEPT ![r] = Idle]

Init ==
    /\ inbox \in UNION {Injection(1 .. Cardinality(S), S) : S \in SUBSET Notification} /\ isRead \in SUBSET Range(inbox)
    /\ open = FALSE /\ shown = <<>> /\ loading = FALSE /\ error = FALSE
    /\ markingAll = FALSE /\ marking = Nothing
    /\ store = [rows |-> <<>>, unread |-> 0]
    /\ requests = [r \in Request |-> Idle]
    /\ changed = FALSE /\ crossed = FALSE /\ missed = FALSE /\ late = {}

------------------------------------------------------------------------------
(* fetchNotifications.                                                        *)

Sends(r, base, kind, id, left) ==
    /\ base[r].pc = "idle"
    /\ requests' = [base EXCEPT ![r] = [Idle EXCEPT !.kind = kind, !.pc = "sent", !.mine = TRUE,
                                                    !.id = id, !.left = left]]

Fetch(r, base) ==
    /\ Sends(r, base, "load", Nothing, {"rows", "count"})
    /\ loading' = TRUE /\ error' = FALSE
    /\ changed' = FALSE /\ crossed' = InFlight({"load", "one", "all"}) /\ missed' = FALSE

\* What the page that was left has sent goes on, and still reaches the slice.
Orphaned == [r \in Request |-> [requests[r] EXCEPT !.mine = FALSE]]

Open(r) ==
    /\ ~open /\ open' = TRUE
    /\ Fetch(r, Orphaned)
    /\ shown' = <<>> /\ markingAll' = FALSE /\ marking' = Nothing
    /\ UNCHANGED <<server, store, late>>

Leave ==
    /\ open /\ open' = FALSE
    /\ requests' = Orphaned
    /\ UNCHANGED <<server, shown, loading, error, markingAll, marking, store, history>>

\* The button of the error banner.
Retry(r) ==
    /\ open /\ error /\ ~loading
    /\ Fetch(r, requests)
    /\ UNCHANGED <<server, open, shown, markingAll, marking, store, late>>

\* findByUser and getUnreadCount, in either order.
Newest == [i \in 1 .. Min({Limit, Len(inbox)}) |-> [id |-> inbox[i], isRead |-> inbox[i] \in isRead]]

ServeRows(r) ==
    /\ "rows" \in requests[r].left
    /\ requests' = [requests EXCEPT ![r].left = @ \ {"rows"}, ![r].rows = Newest]
    /\ UNCHANGED <<server, view, history>>

ServeCount(r) ==
    /\ "count" \in requests[r].left
    /\ requests' = [requests EXCEPT ![r].left = @ \ {"count"}, ![r].count = Cardinality(Unread)]
    /\ UNCHANGED <<server, view, history>>

\* A number that does not arrive counts as zero.
MissCount(r) ==
    /\ "count" \in requests[r].left
    /\ requests' = [requests EXCEPT ![r].left = @ \ {"count"}]
    /\ missed' = TRUE
    /\ UNCHANGED <<server, view, changed, crossed, late>>

LandLoad(r) ==
    LET q == requests[r]
    IN /\ q.kind = "load" /\ q.left = {}
       /\ store' = [rows |-> q.rows, unread |-> q.count]
       /\ shown' = IF q.mine THEN q.rows ELSE shown
       /\ loading' = (loading /\ ~q.mine)
       /\ Free(r)
       /\ UNCHANGED <<server, open, error, markingAll, marking, history>>

------------------------------------------------------------------------------
(* Marking.                                                                   *)

RowsShown == open /\ ~loading

Marked(rows, n) == [i \in DOMAIN rows |-> [rows[i] EXCEPT !.isRead = @ \/ rows[i].id = n]]
AllMarked(rows) == [i \in DOMAIN rows |-> [rows[i] EXCEPT !.isRead = TRUE]]

\* A plausible error in the operator that follows, which no definition uses.
HandleNotificationClick_early(r, n) ==
    /\ RowsShown /\ marking = Nothing
    /\ \E i \in DOMAIN shown : shown[i].id = n /\ ~shown[i].isRead
    /\ Sends(r, requests, "one", n, {})
    /\ marking' = n /\ shown' = Marked(shown, n)
    /\ crossed' = (crossed \/ InFlight({"load"}))
    /\ UNCHANGED <<server, open, loading, error, markingAll, store, changed, missed, late>>

\* A click marks an unread row, unless another is being marked.
HandleNotificationClick(r, n) ==
    /\ RowsShown /\ marking = Nothing
    /\ \E i \in DOMAIN shown : shown[i].id = n /\ ~shown[i].isRead
    /\ Sends(r, requests, "one", n, {})
    /\ marking' = n
    /\ crossed' = (crossed \/ InFlight({"load"}))
    /\ UNCHANGED <<server, open, shown, loading, error, markingAll, store, changed, missed, late>>

\* The button is there while a row is unread.
MarkAllOffered == RowsShown /\ ~markingAll /\ \E i \in DOMAIN shown : ~shown[i].isRead

MarkAllAsRead(r) ==
    /\ MarkAllOffered
    /\ Sends(r, requests, "all", Nothing, {})
    /\ markingAll' = TRUE
    /\ crossed' = (crossed \/ InFlight({"load"}))
    /\ UNCHANGED <<server, open, shown, loading, error, marking, store, changed, missed, late>>

ServeMark(r) ==
    LET q == requests[r]
    IN /\ q.kind \in {"one", "all"} /\ q.pc = "sent"
       /\ isRead' = IF q.kind = "one" THEN isRead \cup {q.id} ELSE Range(inbox)
       /\ requests' = [requests EXCEPT ![r].pc = "served"]
       /\ UNCHANGED <<inbox, view, history>>

\* markAsRead and markAllRead of the slice.
Counted(n) ==
    [rows |-> Marked(store.rows, n),
     unread |-> IF store.unread > 0 /\ \E i \in DOMAIN store.rows : store.rows[i] = [id |-> n, isRead |-> FALSE]
                THEN store.unread - 1 ELSE store.unread]

LandMark(r) ==
    LET q == requests[r]
    IN /\ q.kind \in {"one", "all"} /\ q.pc = "served"
       /\ store' = IF q.kind = "one" THEN Counted(q.id)
                   ELSE [rows |-> AllMarked(store.rows), unread |-> 0]
       /\ shown' = IF ~q.mine THEN shown
                   ELSE IF q.kind = "one" THEN Marked(shown, q.id) ELSE AllMarked(shown)
       /\ marking' = IF q.mine /\ q.kind = "one" THEN Nothing ELSE marking
       /\ markingAll' = (markingAll /\ ~(q.mine /\ q.kind = "all"))
       /\ Free(r)
       /\ UNCHANGED <<server, open, loading, error, history>>

\* The rows, or the answer to something marked that may well be stored, do not
\* arrive.  A click that fails says nothing.
Fail(r) ==
    LET q == requests[r]
    IN /\ q.pc # "idle"
       /\ Free(r)
       /\ missed' = TRUE
       /\ error' = (error \/ (q.mine /\ q.kind # "one"))
       /\ loading' = (loading /\ ~(q.mine /\ q.kind = "load"))
       /\ marking' = IF q.mine /\ q.kind = "one" THEN Nothing ELSE marking
       /\ markingAll' = (markingAll /\ ~(q.mine /\ q.kind = "all"))
       /\ UNCHANGED <<server, open, shown, store, changed, crossed, late>>

------------------------------------------------------------------------------
(* Elsewhere: a notification arrives, or one is read in another tab.          *)

Arrive(n) ==
    /\ n \notin Range(inbox) /\ inbox' = <<n>> \o inbox
    /\ late' = IF \E r \in Request : requests[r].kind = "all" /\ requests[r].pc = "served"
               THEN late \cup {n} ELSE late
    /\ UNCHANGED isRead

ReadElsewhere(n) == n \in Unread /\ isRead' = isRead \cup {n} /\ UNCHANGED <<inbox, late>>

Elsewhere ==
    /\ \E n \in Notification : Arrive(n) \/ ReadElsewhere(n)
    /\ changed' = TRUE
    /\ UNCHANGED <<view, requests, crossed, missed>>

Next ==
    \/ Leave \/ Elsewhere
    \/ \E r \in Request :
        \/ Open(r) \/ Retry(r) \/ ServeRows(r) \/ ServeCount(r) \/ MissCount(r) \/ LandLoad(r)
        \/ \E n \in Notification : HandleNotificationClick(r, n)
        \/ MarkAllAsRead(r) \/ ServeMark(r) \/ LandMark(r) \/ Fail(r)

Spec == Init /\ [][Next]_vars

------------------------------------------------------------------------------

\* handleNotificationClick, markAllAsRead: what the page or the slice shows as
\* read is read in the database, at every moment and whatever was lost: nothing
\* is marked before the backend has confirmed it.  A notification that arrives
\* while the answer to marking all is on its way may be shown as read.
ReadMeansRead ==
    \A rows \in {shown, store.rows} : \A i \in DOMAIN rows :
        rows[i].isRead => rows[i].id \in isRead \cup late

AtRest == RowsShown /\ ~error /\ \A r \in Request : requests[r].pc = "idle"

\* fetchNotifications, notificationSlice: at rest the page shows the newest
\* notifications with their marks, and the slice counts all that are unread,
\* unless the inbox changed elsewhere since the page began to fetch, an answer
\* was missed, or a fetch overlapped with something marked or another fetch.
ShowsTheInbox ==
    AtRest /\ ~changed /\ ~crossed /\ ~missed =>
        shown = Newest /\ store = [rows |-> Newest, unread |-> Cardinality(Unread)]

NotificationsSettle == ReadMeansRead /\ ShowsTheInbox
=============================================================================
