----------------------------- MODULE Membership -----------------------------
(***************************************************************************)
(* Who belongs to a project: inviteMembers and removeMember of              *)
(* projects.service.ts, acceptInvitation, declineInvitation and             *)
(* leaveProject of project-members.service.ts.                              *)
(*                                                                          *)
(* One project; rows of different projects share nothing.  A token is a     *)
(* uuid of its own row, so a row only says whether it still has one.        *)
(* Requests are records as in TaskBoard.  What is refused before anything   *)
(* changed (not the owner, no such row, no such token, a role that may not  *)
(* leave) is left out, and so are mails, notifications and logs: a failure  *)
(* to send or store one is caught, and they change no membership.           *)
(*                                                                          *)
(* A definition named X_fault, before X, is a plausible error in the code X *)
(* models; no definition uses it.                                           *)
(***************************************************************************)
EXTENDS TypeOrm

CONSTANTS
    Row, User,       \* ids: rows of project_members, registered users
    Request,         \* slots for requests in flight
    Owner,           \* projects.owner_id, which no service changes
    OwnerRow,        \* the row ProjectsService.create makes for the owner
    CanAbort,        \* may a request die between two statements
    Nobody, NoRow

VARIABLES
    members,   \* the table project_members
    requests   \* what each request in flight is about to do and has read

vars == <<members, requests>>

------------------------------------------------------------------------------
(* Rows and requests in flight *)

MemberRow == [row: RowState, user: User \cup {Nobody}, role: {"owner", "member"},
              status: {"pending", "accepted", "declined"}, token: BOOLEAN]

NoMemberRow == [row |-> "none", user |-> Nobody, role |-> "member",
                status |-> "declined", token |-> FALSE]

OwnerMember == [row |-> "there", user |-> Owner, role |-> "owner",
                status |-> "accepted", token |-> FALSE]

RowsOf(u) == {m \in Row : Exists(members[m]) /\ members[m].user = u}

\* checkProjectMember
IsMember(u) == \E m \in RowsOf(u) : members[m].status = "accepted"

Kind == {"invite", "accept", "decline", "remove", "leave"}
PC == {"idle", "next", "insert", "remove", "select", "write"}

RequestState ==
    [kind: Kind \cup {"none"}, pc: PC, user: User \cup {Nobody}, todo: SUBSET User,
     member: Row \cup {NoRow}, entity: MemberRow, plan: SUBSET DOMAIN NoMemberRow]

Idle == [kind |-> "none", pc |-> "idle", user |-> Nobody, todo |-> {},
         member |-> NoRow, entity |-> NoMemberRow, plan |-> {}]

TypeOK ==
    /\ members \in [Row -> MemberRow]
    /\ requests \in [Request -> RequestState]

Init ==
    /\ members = [m \in Row |-> IF m = OwnerRow THEN OwnerMember ELSE NoMemberRow]
    /\ requests = [r \in Request |-> Idle]

Becomes(r, q) == requests' = [requests EXCEPT ![r] = q]
Ends(r) == Becomes(r, Idle)

\* The unique index on (project_id, user_id).
Taken_never(u, m) == FALSE
Taken(u, m) == RowsOf(u) \ {m} # {}

------------------------------------------------------------------------------
(* inviteMembers: one address after the other *)

BeginInvite(r, users) ==
    /\ requests[r].pc = "idle" /\ users # {}
    /\ Becomes(r, [Idle EXCEPT !.kind = "invite", !.pc = "next", !.todo = users])
    /\ UNCHANGED members

\* The next address, or the end of the list.
Continue(r, todo) ==
    IF todo = {} THEN Ends(r)
    ELSE Becomes(r, [Idle EXCEPT !.kind = "invite", !.pc = "next", !.todo = todo])

\* Whoever has a row counts as a member, also one who declined.
FindMember(r, u) ==
    LET q == requests[r]
    IN /\ q.pc = "next" /\ u \in q.todo
       /\ IF RowsOf(u) # {} THEN Continue(r, q.todo \ {u})
          ELSE Becomes(r, [q EXCEPT !.pc = "insert", !.user = u, !.todo = @ \ {u}])
       /\ UNCHANGED members

\* An invitation by a registered address makes the user a member at once.
Invited(u) == [row |-> "there", user |-> u, role |-> "member",
               status |-> "accepted", token |-> TRUE]

\* A second row for the user fails on the unique index, and with it the
\* request and the rest of its list.
InsertMember(r, m) ==
    LET q == requests[r]
    IN /\ q.pc = "insert" /\ members[m].row = "none"
       /\ IF Taken(q.user, m) THEN Ends(r) /\ UNCHANGED members
          ELSE /\ members' = [members EXCEPT ![m] = Invited(q.user)]
               /\ Continue(r, q.todo)

------------------------------------------------------------------------------
(* removeMember and leaveProject *)

\* removeMember compares the id with the project's owner_id ...
Removable_any(m) == TRUE
Removable(m) == members[m].user # Owner

LoadToRemove(r, u, m) ==
    /\ requests[r].pc = "idle" /\ m \in RowsOf(u) /\ Removable(m)
    /\ Becomes(r, [Idle EXCEPT !.kind = "remove", !.pc = "remove", !.member = m])
    /\ UNCHANGED members

\* ... and leaveProject looks at the role of the row.
LoadToLeave(r, u, m) ==
    /\ requests[r].pc = "idle" /\ m \in RowsOf(u) /\ members[m].role # "owner"
    /\ Becomes(r, [Idle EXCEPT !.kind = "leave", !.pc = "remove", !.member = m])
    /\ UNCHANGED members

RemoveMember(r) ==
    LET m == requests[r].member
    IN /\ requests[r].pc = "remove"
       /\ members' = IF Exists(members[m])
                     THEN [members EXCEPT ![m] = [NoMemberRow EXCEPT !.row = "removed"]]
                     ELSE members
       /\ Ends(r)

------------------------------------------------------------------------------
(* acceptInvitation and declineInvitation *)

\* The token decides, whoever the caller is; an accepted row is refused with
\* "Invitation already accepted" and keeps its token.
LoadToAccept(r, u, m) ==
    /\ requests[r].pc = "idle" /\ Exists(members[m]) /\ members[m].token
    /\ IF members[m].status = "accepted" THEN UNCHANGED requests
       ELSE Becomes(r, [Idle EXCEPT !.kind = "accept", !.pc = "select", !.member = m,
                                    !.entity = [members[m] EXCEPT !.status = "accepted",
                                                                  !.user = u, !.token = FALSE]])
    /\ UNCHANGED members

\* The caller of declineInvitation is not looked at, only the token.
Declined_tokenOnly(row) == [row EXCEPT !.token = FALSE]
Declined(row) == [row EXCEPT !.status = "declined", !.token = FALSE]

LoadToDecline(r, m) ==
    /\ requests[r].pc = "idle" /\ Exists(members[m]) /\ members[m].token
    /\ Becomes(r, [Idle EXCEPT !.kind = "decline", !.pc = "select", !.member = m,
                               !.entity = Declined(members[m])])
    /\ UNCHANGED members

\* save: the SELECT ...
SelectMember(r) ==
    LET q == requests[r]
    IN /\ q.pc = "select"
       /\ Becomes(r, [q EXCEPT !.pc = "write", !.plan = SavePlan(q.entity, members[q.member])])
       /\ UNCHANGED members

SavedMember(plan, entity, r) ==
    LET saved(f) == Written(f, plan, entity, r)
    IN [row |-> saved("row"), user |-> saved("user"), role |-> saved("role"),
        status |-> saved("status"), token |-> saved("token")]

\* ... and the statement, which fails when it gives the user a second row.
WriteMember(r) ==
    LET q == requests[r]
        old == members[q.member]
        fails == SaveFails(q.plan, old) \/ ("user" \in q.plan /\ Taken(q.entity.user, q.member))
    IN /\ q.pc = "write"
       /\ members' = IF SaveHits(q.plan, old) /\ ~fails
                     THEN [members EXCEPT ![q.member] = SavedMember(q.plan, q.entity, old)]
                     ELSE members
       /\ Ends(r)

------------------------------------------------------------------------------

\* The process dies, or a statement fails, and the rest of the request with it.
Abort(r) ==
    /\ CanAbort /\ requests[r].pc # "idle"
    /\ Ends(r)
    /\ UNCHANGED members

Step(r) ==
    \/ \E users \in SUBSET User : BeginInvite(r, users)
    \/ \E u \in User : FindMember(r, u)
    \/ \E m \in Row : InsertMember(r, m)
    \/ \E u \in User, m \in Row :
          LoadToRemove(r, u, m) \/ LoadToLeave(r, u, m) \/ LoadToAccept(r, u, m)
    \/ \E m \in Row : LoadToDecline(r, m)
    \/ RemoveMember(r)
    \/ SelectMember(r)
    \/ WriteMember(r)
    \/ Abort(r)

Next == \E r \in Request : Step(r)

Spec == Init /\ [][Next]_vars

------------------------------------------------------------------------------
(* Properties *)

\* removeMember, leaveProject, declineInvitation: whatever overlaps, the owner
\* of the project is an accepted member of it.
OwnerIsMember == IsMember(Owner)

\* inviteMembers, declineInvitation: nobody becomes a member but by the step of
\* an invitation that names the user: no save of a row that was removed or
\* declined meanwhile lets anyone back in, and no accept of another's token.
OnlyInvitationsAdmit ==
    [][\A u \in User : ~IsMember(u) /\ IsMember(u)' =>
          \E r \in Request : /\ requests[r].pc = "insert" /\ requests[r].user = u
                             /\ requests'[r] # requests[r]]_vars

\* project_members: a user has at most one row, so that findOne of a member is
\* unambiguous.
OneRowPerUser == \A u \in User : \A m, n \in RowsOf(u) : m = n
=============================================================================
