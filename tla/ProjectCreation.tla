--------------------------- MODULE ProjectCreation ---------------------------
(* A new project, from its form in one tab to the members it begins with.     *)
(* The page sends its form and goes to the board when the answer arrives.     *)
(* create stores the project, its owner and its columns in one transaction,   *)
(* begins to invite the listed members in a job that nothing awaits and that  *)
(* is lost with the process, and reads the project once more for its answer.  *)
(* The page waits ten seconds: what it no longer waits for goes on.           *)
EXTENDS Naturals, Sequences, FiniteSets, Functions

CONSTANTS
    Email, Owner,     \* the owner's email is one of them
    Project, Request, Nothing

VARIABLES
    accounts,         \* the emails users are known by
    members,          \* the members of each project, none of one that is not stored
    place,            \* where the tab is
    listed,           \* the emails in the form
    creating, error,
    requests,
    invitations,      \* of each project: the job's pc and the emails it has still to do
    made,             \* history: projects stored for the form that is open
    gaveUp,           \* history: its requests that failed although they stored one, or may yet
    dismissed,        \* history: an error of it was dismissed
    invited, cut      \* history: whom each job had to invite, and the jobs that ended early

form == <<place, listed, creating, error>>
stored == <<accounts, members>>
jobs == <<invitations, invited, cut>>
visit == <<made, gaveUp, dismissed>>
vars == <<stored, form, requests, jobs, visit>>

Idle == [pc |-> "idle", waiting |-> FALSE, ofForm |-> FALSE, emails |-> <<>>, project |-> Nothing]
NoJob == [pc |-> "idle", todo |-> <<>>]
Lists == UNION {Injection(1 .. Cardinality(S), S) : S \in SUBSET Email}

TypeOK ==
    /\ accounts \subseteq Email /\ members \in [Project -> SUBSET Email]
    /\ place \in {"form", "projects", "board"} /\ listed \in Lists
    /\ creating \in BOOLEAN /\ error \in BOOLEAN /\ dismissed \in BOOLEAN
    /\ requests \in [Request -> [pc : {"idle", "sent", "stored", "answered", "refused"},
                                 waiting : BOOLEAN, ofForm : BOOLEAN,
                                 emails : Lists, project : Project \cup {Nothing}]]
    /\ \A p \in Project : invitations[p].pc \in {"idle", "next", "insert"}
    /\ made \subseteq Project /\ gaveUp \in 0 .. Cardinality(Project) + Cardinality(Request)
    /\ invited \in [Project -> SUBSET Email] /\ cut \subseteq Project

Init ==
    /\ accounts \in {S \in SUBSET Email : Owner \in S} /\ members = [p \in Project |-> {}]
    /\ place = "projects" /\ listed = <<>> /\ creating = FALSE /\ error = FALSE
    /\ requests = [r \in Request |-> Idle]
    /\ invitations = [p \in Project |-> NoJob]
    /\ made = {} /\ gaveUp = 0 /\ dismissed = FALSE
    /\ invited = [p \in Project |-> {}] /\ cut = {}

------------------------------------------------------------------------------
(* The form.                                                                  *)

Open ==
    /\ place # "form" /\ place' = "form"
    /\ UNCHANGED <<stored, listed, creating, error, requests, jobs, visit>>

\* What the form held is gone; its requests go on.
LeaveFor(other, base) ==
    /\ place' = other
    /\ listed' = <<>> /\ creating' = FALSE /\ error' = FALSE
    /\ made' = {} /\ gaveUp' = 0 /\ dismissed' = FALSE
    /\ requests' = [r \in Request |-> [base[r] EXCEPT !.ofForm = FALSE]]

Leave ==
    /\ place = "form"
    /\ LeaveFor("projects", requests)
    /\ UNCHANGED <<stored, jobs>>

AddMember(e) ==
    /\ place = "form" /\ e \notin Range(listed)
    /\ listed' = Append(listed, e)
    /\ UNCHANGED <<stored, place, creating, error, requests, jobs, visit>>

\* The list without its element at a position.
WithoutAt(list, i) == SubSeq(list, 1, i - 1) \o SubSeq(list, i + 1, Len(list))

RemoveMember(e) ==
    /\ place = "form"
    /\ \E i \in DOMAIN listed : listed[i] = e /\ listed' = WithoutAt(listed, i)
    /\ UNCHANGED <<stored, place, creating, error, requests, jobs, visit>>

HandleCreate(r) ==
    /\ place = "form" /\ ~creating /\ requests[r].pc = "idle"
    /\ creating' = TRUE /\ error' = FALSE
    /\ requests' = [requests EXCEPT ![r] =
           [Idle EXCEPT !.pc = "sent", !.waiting = TRUE, !.ofForm = TRUE, !.emails = listed]]
    /\ UNCHANGED <<stored, place, listed, jobs, visit>>

\* The page goes to the board of the project, also after it was left.
Land(r) ==
    /\ requests[r].pc = "answered" /\ requests[r].waiting
    /\ LeaveFor("board", [requests EXCEPT ![r] = Idle])
    /\ UNCHANGED <<stored, jobs>>

Failed(r) ==
    IF requests[r].ofForm THEN error' = TRUE /\ creating' = FALSE ELSE UNCHANGED <<error, creating>>

Fail(r) ==
    /\ requests[r].pc = "refused" /\ requests[r].waiting
    /\ Failed(r)
    /\ requests' = [requests EXCEPT ![r] = Idle]
    /\ UNCHANGED <<stored, place, listed, jobs, visit>>

\* No answer within ten seconds, or it is lost.
TimeOut(r) ==
    LET q == requests[r]
    IN /\ q.pc \in {"sent", "stored", "answered"} /\ q.waiting
       /\ Failed(r)
       /\ gaveUp' = IF q.ofForm THEN gaveUp + 1 ELSE gaveUp
       /\ requests' = [requests EXCEPT ![r] =
              IF q.pc = "answered" THEN Idle ELSE [@ EXCEPT !.waiting = FALSE, !.ofForm = FALSE]]
       /\ UNCHANGED <<stored, place, listed, jobs, made, dismissed>>

Dismiss ==
    /\ place = "form" /\ error
    /\ error' = FALSE /\ dismissed' = TRUE
    /\ UNCHANGED <<stored, place, listed, creating, requests, jobs, made, gaveUp>>

------------------------------------------------------------------------------
(* create.                                                                    *)

\* All of the transaction, and the start of the invitations.
Commit(r, p) ==
    LET q == requests[r]
    IN /\ q.pc = "sent" /\ members[p] = {}
       /\ members' = [members EXCEPT ![p] = {Owner}]
       /\ invitations' = IF q.emails = <<>> THEN invitations
                         ELSE [invitations EXCEPT ![p] = [pc |-> "next", todo |-> q.emails]]
       /\ invited' = [invited EXCEPT ![p] = accounts \cap Range(q.emails)]
       /\ made' = IF q.ofForm THEN made \cup {p} ELSE made
       /\ requests' = [requests EXCEPT ![r].pc = "stored", ![r].project = p]
       /\ UNCHANGED <<accounts, form, cut, gaveUp, dismissed>>

Ends(r, pc) == requests' = [requests EXCEPT ![r] = IF @.waiting THEN [@ EXCEPT !.pc = pc] ELSE Idle]

Rollback(r) ==
    /\ requests[r].pc = "sent"
    /\ Ends(r, "refused")
    /\ UNCHANGED <<stored, form, jobs, visit>>

Answer(r) ==
    /\ requests[r].pc = "stored"
    /\ Ends(r, "answered")
    /\ UNCHANGED <<stored, form, jobs, visit>>

\* The last findOne fails: nothing is left to roll back.
RollbackTooLate(r) ==
    /\ requests[r].pc = "stored"
    /\ Ends(r, "refused")
    /\ gaveUp' = IF requests[r].ofForm THEN gaveUp + 1 ELSE gaveUp
    /\ UNCHANGED <<stored, form, jobs, made, dismissed>>

------------------------------------------------------------------------------
(* sendInvitations.                                                           *)

After(job) == IF Len(job.todo) = 1 THEN NoJob ELSE [pc |-> "next", todo |-> Tail(job.todo)]

\* A member is passed over; without an account there is only a mail.
FindMember(p) ==
    LET job == invitations[p]
        e == Head(job.todo)
    IN /\ job.pc = "next"
       /\ invitations' = [invitations EXCEPT ![p] =
              IF e \in accounts \ members[p] THEN [job EXCEPT !.pc = "insert"] ELSE After(job)]
       /\ UNCHANGED <<stored, form, requests, invited, cut, visit>>

\* Whoever became a member meanwhile violates the unique index and ends the job.
InsertMember(p) ==
    LET job == invitations[p]
        e == Head(job.todo)
    IN /\ job.pc = "insert"
       /\ members' = [members EXCEPT ![p] = @ \cup {e}]
       /\ invitations' = [invitations EXCEPT ![p] = IF e \in members[p] THEN NoJob ELSE After(job)]
       /\ cut' = IF e \in members[p] THEN cut \cup {p} ELSE cut
       /\ UNCHANGED <<accounts, form, requests, invited, visit>>

\* A statement fails: the error is logged and the rest is not invited.
Cut(p) ==
    /\ invitations[p].pc # "idle"
    /\ invitations' = [invitations EXCEPT ![p] = NoJob] /\ cut' = cut \cup {p}
    /\ UNCHANGED <<stored, form, requests, invited, visit>>

\* The process ends, with what it was doing.
Crash ==
    LET running == {p \in Project : invitations[p].pc # "idle"}
        begun == {r \in Request : requests[r].pc \in {"sent", "stored", "answered"}}
        lost == {r \in begun : requests[r].pc # "sent" /\ requests[r].ofForm}
    IN /\ running # {} \/ begun # {}
       /\ invitations' = [p \in Project |-> NoJob] /\ cut' = cut \cup running
       /\ requests' = [r \in Request |->
              IF r \notin begun THEN requests[r]
              ELSE IF requests[r].waiting THEN [requests[r] EXCEPT !.pc = "refused"] ELSE Idle]
       /\ gaveUp' = gaveUp + Cardinality(lost)
       /\ UNCHANGED <<stored, form, invited, made, dismissed>>

\* Elsewhere: someone signs up, or the owner invites them from the settings.
SignUp(e) ==
    /\ e \notin accounts /\ accounts' = accounts \cup {e}
    /\ UNCHANGED <<members, form, requests, jobs, visit>>

InviteElsewhere(p, e) ==
    /\ members[p] # {} /\ e \in accounts \ members[p]
    /\ members' = [members EXCEPT ![p] = @ \cup {e}]
    /\ UNCHANGED <<accounts, form, requests, jobs, visit>>

Next ==
    \/ Open \/ Leave \/ Dismiss \/ Crash
    \/ \E e \in Email : AddMember(e) \/ RemoveMember(e) \/ SignUp(e)
    \/ \E r \in Request :
        \/ HandleCreate(r) \/ Land(r) \/ Fail(r) \/ TimeOut(r)
        \/ \E p \in Project : Commit(r, p)
        \/ Rollback(r) \/ Answer(r) \/ RollbackTooLate(r)
    \/ \E p \in Project :
        \/ FindMember(p) \/ InsertMember(p) \/ Cut(p)
        \/ \E e \in Email : InviteElsewhere(p, e)

Spec == Init /\ [][Next]_vars

------------------------------------------------------------------------------

\* handleCreate: a form makes one project, and another for each time the page
\* was told of a failure, or gave up waiting, where the backend had stored it
\* or was about to.
OneProjectPerForm == Cardinality(made) <= 1 + gaveUp

\* A form that shows no error, and has none dismissed, made nothing yet, unless
\* it is still waiting.
SilentFormMadeNothing == place = "form" /\ ~creating /\ ~error /\ ~dismissed => made = {}

\* sendInvitations: when the job of a project has come to its end, whoever was
\* listed and had an account is a member of it.
InvitedJoin == \A p \in Project \ cut : invitations[p].pc = "idle" => invited[p] \subseteq members[p]

CreationSettles == OneProjectPerForm /\ SilentFormMadeNothing /\ InvitedJoin
=============================================================================
