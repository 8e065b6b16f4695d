----------------------------- MODULE SettingsPage -----------------------------
(* The settings of a project in a tab of its owner: title and deadline, the   *)
(* columns and the members, which nobody else changes while the page is open: *)
(* it fetches them once.  Tasks come and go.  A request is served by the      *)
(* backend at one moment and its answer arrives at another or never.          *)
EXTENDS Naturals, Sequences, Functions

CONSTANTS
    Column, Member,   \* Member: users but the owner
    Title,            \* titles of columns and of the project
    Request,          \* slots for requests in flight
    None

VARIABLES
    info,        \* title and deadline of the project in the database
    columns,     \* its columns, in order, with their titles
    held,        \* columns with tasks
    members,     \* its members but the owner, in the order they joined
    open,        \* the tab shows the page
    loading,
    form,        \* title and deadline on the page
    shown,       \* columns on the page
    listed,      \* members on the page
    busy,        \* savingInfo, addingColumn, addingMember, removingMemberId
    removing,    \* removingColumnId
    requests,
    unheard,     \* history: lists of which an answer was lost
    crossed,     \* history: a member was removed while the members were fetched
    unsaved,     \* history: title or deadline were typed, or not loaded, since they were saved
    failed,      \* history: the project did not arrive
    renamed,     \* history: columns whose title was typed here
    together     \* history: a column was removed before the answer to another removal

server == <<info, columns, held, members>>
view == <<open, loading, form, shown, listed, busy, removing>>
history == <<unheard, crossed, unsaved, failed, renamed, together>>
vars == <<server, view, requests, history>>

Info == [title : Title \cup {None}, deadline : {None, "set", "later"}]
Columns == Seq([id : Column, title : Title])

NoInfo == [title |-> None, deadline |-> None]

Idle == [kind |-> "none", pc |-> "idle", id |-> None, info |-> NoInfo, left |-> {},
         columns |-> <<>>, members |-> <<>>, ok |-> FALSE]

Kinds == {"none", "load", "info", "saveColumn", "addColumn", "removeColumn", "invite",
          "members", "removeMember", "close"}

TypeOK ==
    /\ info \in Info /\ form \in Info
    /\ columns \in Columns /\ shown \in Columns
    /\ held \in SUBSET Column /\ renamed \in SUBSET Column
    /\ members \in Seq(Member) /\ listed \in Seq(Member)
    /\ \A b \in {open, loading, crossed, unsaved, failed, together} : b \in BOOLEAN
    /\ busy \in SUBSET Kinds /\ removing \in Column \cup {None}
    /\ unheard \in SUBSET {"columns", "members"}
    /\ requests \in [Request -> [kind : Kinds, pc : {"idle", "sent", "served"},
                                 id : Column \cup Member \cup {None}, info : Info,
                                 left : SUBSET {"project", "columns", "members"},
                                 columns : Columns, members : Seq(Member), ok : BOOLEAN]]

Ids(list) == {list[i].id : i \in DOMAIN list}

\* The list without its element at a position.
WithoutAt(list, i) == SubSeq(list, 1, i - 1) \o SubSeq(list, i + 1, Len(list))

\* Without the element at one of these positions, if any: no identifier is in a
\* list twice.
Rest(list, places) == IF places = {} THEN list ELSE WithoutAt(list, CHOOSE i \in places : TRUE)
WithoutColumn(list, id) == Rest(list, {i \in DOMAIN list : list[i].id = id})
WithoutMember(list, id) == Rest(list, {i \in DOMAIN list : list[i] = id})

Free(r) == requests' = [requests EXCEPT ![r] = Idle]

Init ==
    /\ info \in Info /\ info.title # None
    /\ columns \in [1..3 -> [id : Column, title : Title]]
    /\ \A i, j \in DOMAIN columns : i # j => columns[i].id # columns[j].id
    /\ held \in SUBSET Ids(columns)
    /\ members \in {<<>>} \cup {<<m>> : m \in Member}
    /\ open = TRUE /\ loading = TRUE /\ form = NoInfo /\ shown = <<>> /\ listed = <<>>
    /\ busy = {} /\ removing = None
    /\ \E r \in Request : requests = [s \in Request |-> IF s = r
           THEN [Idle EXCEPT !.kind = "load", !.pc = "sent",
                             !.left = {"project", "columns", "members"}] ELSE Idle]
    /\ unheard = {} /\ crossed = FALSE /\ unsaved = FALSE /\ failed = FALSE
    /\ renamed = {} /\ together = FALSE

------------------------------------------------------------------------------
(* fetchSettings, once.                                                       *)

Read(r, what) ==
    /\ what \in requests[r].left
    /\ requests' = [requests EXCEPT ![r].left = @ \ {what},
          ![r].info = IF what = "project" THEN info ELSE @,
          ![r].columns = IF what = "columns" THEN columns ELSE @,
          ![r].members = IF what = "members" THEN members ELSE @]
    /\ UNCHANGED <<server, view, history>>

\* Members that do not arrive are shown as none.
MissMembers(r) ==
    /\ "members" \in requests[r].left /\ requests[r].kind = "load"
    /\ requests' = [requests EXCEPT ![r].left = @ \ {"members"}]
    /\ unheard' = unheard \cup {"members"}
    /\ UNCHANGED <<server, view, crossed, unsaved, failed, renamed, together>>

LandSettings(r) ==
    LET q == requests[r]
    IN /\ q.kind = "load" /\ q.left = {}
       /\ form' = q.info /\ shown' = q.columns /\ listed' = q.members
       /\ loading' = FALSE
       /\ Free(r)
       /\ UNCHANGED <<server, open, busy, removing, history>>

\* When the project or its columns do not arrive the page shows an empty form,
\* which can be saved.
FailLoad(r) ==
    /\ requests[r].kind = "load" /\ requests[r].left # {}
    /\ loading' = FALSE /\ failed' = TRUE /\ unsaved' = TRUE
    /\ Free(r)
    /\ UNCHANGED <<server, open, form, shown, listed, busy, removing,
                   unheard, crossed, renamed, together>>

------------------------------------------------------------------------------
(* What the page sends.                                                       *)

Page == open /\ ~loading

\* A column can be added up to the eighth; the other buttons are disabled while
\* what they started goes on, and a column is saved whenever its field is left.
Offered(kind) ==
    /\ Page
    /\ kind = "saveColumn" \/ kind \notin busy
    /\ kind = "addColumn" => Len(shown) < 8

\* The limit is that of the columns on the page, and only the button of the
\* column removed last is disabled.
RemoveOffered(id) == Page /\ Len(shown) > 2 /\ removing # id

Send(r, kind, id) ==
    /\ requests[r].pc = "idle"
    /\ requests' = [requests EXCEPT ![r] =
          [Idle EXCEPT !.kind = kind, !.pc = "sent", !.id = id,
                       !.info = IF kind = "info" THEN form ELSE @]]

Type(f) ==
    /\ Page /\ f # form /\ f.title # None /\ form' = f /\ unsaved' = TRUE
    /\ UNCHANGED <<server, open, loading, shown, listed, busy, removing, requests,
                   unheard, crossed, failed, renamed, together>>

UpdateColumnName(i, title) ==
    /\ Page /\ shown[i].title # title
    /\ shown' = [shown EXCEPT ![i].title = title]
    /\ renamed' = renamed \cup {shown[i].id}
    /\ UNCHANGED <<server, open, loading, form, listed, busy, removing, requests,
                   unheard, crossed, unsaved, failed, together>>

\* handleSaveInfo, saveColumn, addColumn, handleAddMember, handleRemoveMember,
\* handleArchive, handleDeleteProject.
Start(r, kind, id) ==
    /\ Offered(kind)
    /\ Send(r, kind, id)
    /\ busy' = busy \cup ({kind} \ {"saveColumn"})
    /\ unsaved' = (unsaved /\ kind # "info")
    /\ crossed' = \/ crossed
                  \/ kind = "removeMember" /\ \E s \in Request : requests[s].kind \in {"invite", "members"}
                  \/ kind = "invite" /\ \E s \in Request : requests[s].kind = "removeMember"
    /\ UNCHANGED <<server, open, loading, form, shown, listed, removing,
                   unheard, failed, renamed, together>>

\* A plausible error in the operator that follows, which no definition uses.
RemoveColumn_anyNumber(r, id) ==
    /\ Page /\ removing # id
    /\ Send(r, "removeColumn", id)
    /\ removing' = id
    /\ together' = (together \/ \E s \in Request : requests[s].kind = "removeColumn")
    /\ UNCHANGED <<server, open, loading, form, shown, listed, busy,
                   unheard, crossed, unsaved, failed, renamed>>

RemoveColumn(r, id) ==
    /\ RemoveOffered(id)
    /\ Send(r, "removeColumn", id)
    /\ removing' = id
    /\ together' = (together \/ \E s \in Request : requests[s].kind = "removeColumn")
    /\ UNCHANGED <<server, open, loading, form, shown, listed, busy,
                   unheard, crossed, unsaved, failed, renamed>>

------------------------------------------------------------------------------
(* What the backend does.                                                     *)

\* The clients call a column's title "name", which the ValidationPipe refuses.
Accepted(q) ==
    CASE q.kind \in {"saveColumn", "addColumn"} -> FALSE
      [] q.kind = "removeColumn" -> q.id \in Ids(columns) \ held
      [] q.kind = "removeMember" -> q.id \in Range(members)
      [] q.kind = "invite"       -> q.id \notin Range(members)
      [] OTHER                   -> TRUE

\* A deadline that was cleared is not sent, and stays.
Stored(new) == [new EXCEPT !.deadline = IF @ = None THEN info.deadline ELSE @]

\* Who was invited is a member at once; an address without a user changes nothing.
Serve(r, known) ==
    LET q == requests[r]
        ok == Accepted(q)
    IN /\ q.pc = "sent" /\ q.kind \notin {"load", "members"}
       /\ requests' = [requests EXCEPT ![r].pc = "served", ![r].ok = ok]
       /\ info' = IF q.kind = "info" THEN Stored(q.info) ELSE info
       /\ columns' = IF q.kind = "removeColumn" /\ ok
                     THEN WithoutColumn(columns, q.id) ELSE columns
       /\ members' = CASE q.kind = "removeMember" -> WithoutMember(members, q.id)
                       [] q.kind = "invite" /\ ok /\ known -> Append(members, q.id)
                       [] OTHER -> members
       /\ UNCHANGED <<held, view, history>>

\* A column gets its first task, or loses its last one.
Others ==
    /\ \E c \in Ids(columns) : held' = (held \ {c}) \cup ({c} \ held)
    /\ UNCHANGED <<info, columns, members, view, requests, history>>

------------------------------------------------------------------------------
(* The answers.                                                               *)

Done(kind) == busy' = busy \ {kind}

\* A member is removed from the page, a column too; who was invited is fetched
\* with the others.  Archiving and deleting leave the page.
Land(r) ==
    LET q == requests[r]
    IN /\ q.pc = "served" /\ q.ok
       /\ requests' = [requests EXCEPT ![r] = IF q.kind = "invite"
             THEN [Idle EXCEPT !.kind = "members", !.pc = "sent", !.left = {"members"}]
             ELSE Idle]
       /\ Done(IF q.kind = "invite" THEN "none" ELSE q.kind)
       /\ removing' = IF q.kind = "removeColumn" THEN None ELSE removing
       /\ shown' = IF q.kind = "removeColumn"
                   THEN WithoutColumn(shown, q.id) ELSE shown
       /\ listed' = IF q.kind = "removeMember"
                    THEN WithoutMember(listed, q.id) ELSE listed
       /\ open' = (open /\ q.kind # "close")
       /\ UNCHANGED <<server, loading, form, history>>

LandMembers(r) ==
    /\ requests[r].kind = "members" /\ requests[r].left = {}
    /\ listed' = requests[r].members
    /\ Done("invite")
    /\ Free(r)
    /\ UNCHANGED <<server, open, loading, form, shown, removing, history>>

\* A refusal, or an answer that never comes, whether the request was served or not.
Fail(r) ==
    LET q == requests[r]
    IN /\ q.kind \notin {"none", "load"} /\ (q.pc = "served" => ~q.ok \/ q.kind # "members")
       /\ Free(r)
       /\ Done(IF q.kind = "members" THEN "invite" ELSE q.kind)
       /\ removing' = IF q.kind = "removeColumn" THEN None ELSE removing
       /\ unheard' = unheard \cup
             (CASE q.kind = "removeColumn" /\ q.ok -> {"columns"}
                [] q.kind \in {"invite", "removeMember"} /\ q.ok -> {"members"}
                [] q.kind = "members" -> {"members"}
                [] OTHER -> {})
       /\ unsaved' = (unsaved \/ q.kind = "info")
       /\ UNCHANGED <<server, open, loading, form, shown, listed,
                      crossed, failed, renamed, together>>

------------------------------------------------------------------------------

Next ==
    \/ Others
    \/ \E f \in Info : Type(f)
    \/ \E i \in DOMAIN shown, title \in Title : UpdateColumnName(i, title)
    \/ \E r \in Request :
        \/ \E what \in requests[r].left : Read(r, what)
        \/ MissMembers(r) \/ FailLoad(r) \/ LandSettings(r) \/ LandMembers(r) \/ Land(r) \/ Fail(r)
        \/ \E kind \in {"info", "addColumn", "close"} : Start(r, kind, None)
        \/ \E c \in Ids(shown) : Start(r, "saveColumn", c) \/ RemoveColumn(r, c)
        \/ \E m \in Member : Start(r, "invite", m)
        \/ \E m \in Range(listed) : Start(r, "removeMember", m)
        \/ \E known \in BOOLEAN : Serve(r, known)

Spec == Init /\ [][Next]_vars

------------------------------------------------------------------------------

AtRest == Page /\ \A r \in Request : requests[r].pc = "idle"

Named(list) == [i \in DOMAIN list |-> list[i].id]

\* board-settings.tsx: a page at rest that could load the project shows its
\* columns and its members, but for lists of which an answer was lost and for a
\* removal that crossed an invitation, and a title of a column that is not the
\* stored one was typed here.
ShowsTheProject ==
    AtRest /\ ~failed =>
        /\ "columns" \notin unheard => Named(shown) = Named(columns)
        /\ "members" \notin unheard /\ ~crossed => listed = members
        /\ \A i \in DOMAIN shown, j \in DOMAIN columns :
              shown[i].id = columns[j].id /\ shown[i] # columns[j] => shown[i].id \in renamed

\* handleSaveInfo: what the form shows after it was saved is stored, but for a
\* deadline that was cleared; and a title nobody typed empty is not emptied,
\* unless the project did not arrive and the empty form was saved.
InfoIsStored ==
    /\ AtRest /\ ~unsaved =>
          info.title = form.title /\ form.deadline \in {info.deadline, None}
    /\ ~failed => info.title # None

\* removeColumn: this page leaves a project two columns, unless two removals
\* overlapped or the answer to one was lost.  The backend has no such limit.
TwoColumnsStay == ~together /\ "columns" \notin unheard => Len(columns) >= 2

SettingsSettle == ShowsTheProject /\ InfoIsStored /\ TwoColumnsStay
=============================================================================
