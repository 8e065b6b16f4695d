-------------------------------- MODULE Extras --------------------------------
(***************************************************************************)
(* Six components that share no state, side by side: the order of columns   *)
(* and sub-tasks, the progress of a task, comments and their notifications, *)
(* attachments, labels, the members of a project.                           *)
(* Each has a specification of its own; PartsSpec is one to check them all  *)
(* with, whose behaviours belong to one of them each.                       *)
(***************************************************************************)
EXTENDS OrderedRows

CONSTANTS
    board, checklist,                        \* a project and a task
    User, Client, Creator, Text, Nobody, Comment, Mentions,
    Attachment,
    SystemLabels, Custom, Task,
    SubTask, NoSubTask,
    MemberId, Person, Owner, OwnerRow, Slot  \* Slot: requests about members

VARIABLES
    part,
    assignee, comments, posts, inbox, owed, cut, crossed,
    files, objects, transfers, used, orphans, broken,
    boot, next, seeded, custom, taskLabels, taggings, interrupted,
    subTasks, progress, recounts, fresh, blame,
    members, invitations

BoardList == INSTANCE OrderedList WITH list <- ListOf(board), Initial <- Template[board]
Checklist == INSTANCE OrderedList WITH list <- ListOf(checklist), Initial <- Template[checklist]

D == INSTANCE Discussions WITH requests <- posts, Request <- Client
A == INSTANCE Attachments WITH rows <- files, requests <- transfers, NoFile <- Nobody,
                               Request <- Client
L == INSTANCE Labels WITH requests <- taggings, Nothing <- Nobody, Request <- Client
P == INSTANCE SubTasks WITH requests <- recounts, Request <- Client
M == INSTANCE Membership WITH requests <- invitations, Request <- Slot, Row <- MemberId,
                              User <- Person

\* The names in SYSTEM_LABELS differ, and there are some.
ASSUME PartsAssumption ==
    /\ {board, checklist} \subseteq Parent
    /\ Creator \in User /\ Nobody \notin User \cup Comment /\ Text # {}
    /\ \A mentions \in Mentions : mentions \in Seq(User)
    /\ SystemLabels \in Seq(L!Name) /\ SystemLabels # <<>> /\ IsInjective(SystemLabels)
    /\ IsFiniteSet(SubTask) /\ NoSubTask \notin SubTask
    /\ Owner \in Person /\ Nobody \notin Person
    /\ OwnerRow \in MemberId /\ NoRow \notin MemberId

lists == vars
discussions == <<assignee, comments, posts, inbox, <<owed, cut, crossed>>>>
attachments == <<files, objects, transfers, used, orphans, broken>>
labels == <<boot, next, seeded, custom, taskLabels, taggings, interrupted>>
checklists == <<subTasks, progress, recounts, fresh, blame>>
memberships == <<members, invitations>>
parts == <<part, lists, discussions, attachments, labels, checklists, memberships>>

PartsInit ==
    /\ part \in {"lists", "discussions", "attachments", "labels", "checklists", "members"}
    /\ Init /\ D!Init /\ A!Init /\ L!Init /\ P!Init /\ M!Init

PartsNext ==
    /\ UNCHANGED part
    /\ \/ part = "lists" /\ Next
          /\ UNCHANGED <<discussions, attachments, labels, checklists, memberships>>
       \/ part = "discussions" /\ D!Next
          /\ UNCHANGED <<lists, attachments, labels, checklists, memberships>>
       \/ part = "attachments" /\ A!Next
          /\ UNCHANGED <<lists, discussions, labels, checklists, memberships>>
       \/ part = "labels" /\ L!Next
          /\ UNCHANGED <<lists, discussions, attachments, checklists, memberships>>
       \/ part = "checklists" /\ P!Next
          /\ UNCHANGED <<lists, discussions, attachments, labels, memberships>>
       \/ part = "members" /\ M!Next
          /\ UNCHANGED <<lists, discussions, attachments, labels, checklists>>

PartsSpec == PartsInit /\ [][PartsNext]_parts

------------------------------------------------------------------------------
(* Properties *)

\* Columns, from any schedule in which requests do not overlap, wherever they
\* die: creating appends, deleting takes one out, reordering moves one and
\* renumbering is invisible.
BoardIsList == BoardList!Spec

\* Sub-tasks likewise, whose positions are never closed up after a delete.
ChecklistIsList == Checklist!Spec

\* Who is concerned by a comment is notified of it: see Discussions.
ConcernedAreTold == D!ConcernedAreTold

\* A deleted comment stays deleted unless saves of it crossed: see Discussions.
DeletedCommentsStay == D!DeletedCommentsStay

\* Attachment rows and stored objects agree: see Attachments.
StoresAgree == A!StoresAgree

\* The system labels are seeded once: see Labels.
SeededOnce == L!SeededOnce

\* The progress of a task is that of its checklist: see SubTasks.
ProgressIsExact == P!ProgressIsExact

\* The owner of a project stays a member of it: see Membership.
OwnerIsMember == M!OwnerIsMember

\* A user has at most one row in a project: see Membership.
OneRowPerUser == M!OneRowPerUser

\* Only an invitation that names a user makes the user a member: see Membership.
OnlyInvitationsAdmit == M!OnlyInvitationsAdmit
=============================================================================
