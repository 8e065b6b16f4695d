----------------------------- MODULE Discussions -----------------------------
(***************************************************************************)
(* The comments of a task (comments.service.ts) and the notifications they  *)
(* send (rows of notifications.service.ts).                                 *)
(*                                                                          *)
(* create inserts the comment, then one notification after another: for     *)
(* each mention, and for the creator and the assignee of the task as it was *)
(* loaded at the start.  Each insert may fail, which ends the request with  *)
(* an error and leaves the comment and what was inserted.                   *)
(*                                                                          *)
(* A definition named X_fault, before X, is a plausible error in the code X *)
(* models; no definition uses it.                                           *)
(***************************************************************************)
EXTENDS TypeOrm, Naturals, Sequences, FiniteSets

CONSTANTS
    User, Comment, Request,
    Creator,         \* who created the task
    Mentions,        \* the lists of mentions clients send
    Text, Nobody

VARIABLES
    assignee,        \* of the task; Nobody: none
    comments, requests,
    inbox,           \* the notifications about a comment that a user has
    \* histories, which no action reads
    owed,            \* how often a comment's request set out to notify a user
    cut,             \* comments whose request failed before its end
    crossed          \* comments saved while another request held them

histories == <<owed, cut, crossed>>
vars == <<assignee, comments, requests, inbox, histories>>

------------------------------------------------------------------------------

CommentRow == [row: RowState, author: User \cup {Nobody}, text: Text,
               parent: Comment \cup {Nobody}, deletedAt: {"null", "recent"}]

AnyText == CHOOSE x \in Text : TRUE
NoComment == [row |-> "none", author |-> Nobody, text |-> AnyText, parent |-> Nobody,
              deletedAt |-> "null"]

\* mentions is what remains of the list, names all that the list names;
\* concerned are the creator and the assignee still to be looked at.
RequestState == [pc: {"idle", "insert", "mention", "concern", "log", "select", "write"},
                 comment: Comment \cup {Nobody}, entity: CommentRow, plan: SUBSET DOMAIN NoComment,
                 mentions: Seq(User), names: SUBSET User, concerned: SUBSET User]

Idle == [pc |-> "idle", comment |-> Nobody, entity |-> NoComment, plan |-> {},
         mentions |-> <<>>, names |-> {}, concerned |-> {}]

TypeOK ==
    /\ assignee \in User \cup {Nobody}
    /\ comments \in [Comment -> CommentRow] /\ requests \in [Request -> RequestState]
    /\ inbox \in [Comment -> [User -> Nat]] /\ owed \in [Comment -> [User -> Nat]]
    /\ cut \subseteq Comment /\ crossed \subseteq Comment

Init ==
    /\ assignee = Nobody
    /\ comments = [c \in Comment |-> NoComment] /\ requests = [r \in Request |-> Idle]
    /\ inbox = [c \in Comment |-> [u \in User |-> 0]] /\ owed = inbox
    /\ cut = {} /\ crossed = {}

Becomes(r, q) == requests' = [requests EXCEPT ![r] = q]
Ends(r) == Becomes(r, Idle)
Names(mentions) == {mentions[i] : i \in DOMAIN mentions}
Times(mentions, u) == Cardinality({i \in DOMAIN mentions : mentions[i] = u})

\* tasks.service.ts assigns the task to someone else.
Assign(u) ==
    /\ u # assignee /\ assignee' = u
    /\ UNCHANGED <<comments, requests, inbox, histories>>

------------------------------------------------------------------------------
(* create and createReply *)

\* createReply looks for the parent among the comments that are not deleted;
\* create takes any it is sent, whose row the foreign key asks for.
BeginCreate(r, c, u, parent, mentions) ==
    /\ requests[r].pc = "idle" /\ comments[c].row = "none"
    /\ \A q \in Request : requests[q].comment # c
    /\ parent # Nobody => Exists(comments[parent])
    /\ Becomes(r, [Idle EXCEPT !.pc = "insert", !.comment = c, !.mentions = mentions,
                               !.entity = [NoComment EXCEPT !.row = "there", !.author = u,
                                                            !.parent = parent],
                               !.names = Names(mentions),
                               !.concerned = {Creator, assignee} \ {u, Nobody}])
    /\ owed' = [owed EXCEPT ![c] = [x \in User |->
                   IF x = u THEN 0
                   ELSE IF x \in {Creator, assignee} \ Names(mentions) THEN 1 ELSE Times(mentions, x)]]
    /\ UNCHANGED <<assignee, comments, inbox, cut, crossed>>

InsertComment(r) ==
    LET q == requests[r]
    IN /\ q.pc = "insert"
       /\ comments' = [comments EXCEPT ![q.comment] = q.entity]
       /\ Becomes(r, [q EXCEPT !.pc = "mention"])
       /\ UNCHANGED <<assignee, inbox, histories>>

Notify(c, u) == inbox' = [inbox EXCEPT ![c][u] = @ + 1]

\* The author is passed over in the list of mentions.
NotifyMentioned(r) ==
    LET q == requests[r]
        u == Head(q.mentions)
    IN /\ q.pc = "mention" /\ q.mentions # <<>>
       /\ IF u # q.entity.author THEN Notify(q.comment, u) ELSE UNCHANGED inbox
       /\ Becomes(r, [q EXCEPT !.mentions = Tail(@)])
       /\ UNCHANGED <<assignee, comments, histories>>

EndMentions(r) ==
    /\ requests[r].pc = "mention" /\ requests[r].mentions = <<>>
    /\ Becomes(r, [requests[r] EXCEPT !.pc = "concern"])
    /\ UNCHANGED <<assignee, comments, inbox, histories>>

\* Creator and assignee, unless a mention has told them already.
Told_never(q, u) == FALSE
Told(q, u) == u \in q.names

NotifyConcerned(r, u) ==
    LET q == requests[r]
    IN /\ q.pc = "concern" /\ u \in q.concerned
       /\ IF Told(q, u) THEN UNCHANGED inbox ELSE Notify(q.comment, u)
       /\ Becomes(r, [q EXCEPT !.concerned = @ \ {u}])
       /\ UNCHANGED <<assignee, comments, histories>>

\* The activity log, the event and the answer.
LogActivity(r) ==
    /\ requests[r].pc = "concern" /\ requests[r].concerned = {}
    /\ Ends(r)
    /\ UNCHANGED <<assignee, comments, inbox, histories>>

------------------------------------------------------------------------------
(* update and delete, of one's own comments that are not deleted *)

Edited_rebuilt(row, text) == [NoComment EXCEPT !.row = "there", !.author = row.author, !.text = text]
Edited(row, text) == [row EXCEPT !.text = text]

Deleted(row) == [row EXCEPT !.deletedAt = "recent"]

LoadComment(r, c, entity) ==
    /\ requests[r].pc = "idle" /\ Visible(comments[c])
    /\ Becomes(r, [Idle EXCEPT !.pc = "select", !.comment = c, !.entity = entity])
    /\ UNCHANGED <<assignee, comments, inbox, histories>>

SelectComment(r) ==
    LET q == requests[r]
    IN /\ q.pc = "select"
       /\ Becomes(r, [q EXCEPT !.pc = "write", !.plan = SavePlan(q.entity, comments[q.comment])])
       /\ UNCHANGED <<assignee, comments, inbox, histories>>

WriteComment(r) ==
    LET q == requests[r]
        c == q.comment
        saved(f) == Written(f, q.plan, q.entity, comments[c])
        meets == \E x \in Request \ {r} : requests[x].comment = c /\ requests[x].pc \in {"select", "write"}
    IN /\ q.pc = "write"
       /\ comments' = [comments EXCEPT ![c] = [@ EXCEPT !.text = saved("text"), !.deletedAt = saved("deletedAt"),
                                                       !.parent = saved("parent")]]
       /\ Ends(r)
       /\ crossed' = IF meets THEN crossed \cup {c} ELSE crossed
       /\ UNCHANGED <<assignee, inbox, owed, cut>>

\* A statement fails (a mention of nobody, for one), or the process dies.
Abort(r) ==
    /\ requests[r].pc # "idle"
    /\ cut' = cut \cup ({requests[r].comment} \cap {c \in Comment : requests[r].pc \in {"insert", "mention", "concern"}})
    /\ Ends(r)
    /\ UNCHANGED <<assignee, comments, inbox, owed, crossed>>

------------------------------------------------------------------------------

Begins ==
    \E r \in Request, c \in Comment :
        \/ \E u \in User, parent \in Comment \cup {Nobody}, mentions \in Mentions :
               BeginCreate(r, c, u, parent, mentions)
        \/ \E entity \in {Edited(comments[c], x) : x \in Text} \cup {Deleted(comments[c])} :
               LoadComment(r, c, entity)

Continues ==
    \E r \in Request :
        \/ InsertComment(r) \/ NotifyMentioned(r) \/ EndMentions(r)
        \/ \E u \in User : NotifyConcerned(r, u)
        \/ LogActivity(r) \/ SelectComment(r) \/ WriteComment(r) \/ Abort(r)

Next == Begins \/ Continues \/ \E u \in User \cup {Nobody} : Assign(u)

Spec == Init /\ [][Next]_vars

------------------------------------------------------------------------------
(* Properties *)

\* Who is mentioned, has created the task or was assigned it when the comment
\* was posted is notified of it: once, or as often as the list of mentions has
\* the name; nobody else is, nor the author; and all of them are when the
\* request ends, unless it was cut short.
ConcernedAreTold ==
    \A c \in Comment, u \in User :
        /\ inbox[c][u] <= owed[c][u]
        /\ \/ inbox[c][u] = owed[c][u] \/ c \in cut
           \/ \E r \in Request : requests[r].comment = c /\ requests[r].pc \in {"insert", "mention", "concern"}

\* A deleted comment stays deleted, and an edit keeps it where it is, unless
\* an edit that was loaded before the deletion is saved after it.
DeletedCommentsStay ==
    [][\A c \in Comment \ crossed' :
          Exists(comments[c]) => /\ comments[c].deletedAt = "recent" => comments'[c].deletedAt = "recent"
                                 /\ comments'[c].parent = comments[c].parent]_vars
=============================================================================
