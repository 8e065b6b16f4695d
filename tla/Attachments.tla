----------------------------- MODULE Attachments -----------------------------
(***************************************************************************)
(* The files of a task (attachments.service.ts): a row in the table and an  *)
(* object in the store (s3.service.ts), written one after the other and     *)
(* removed in the same order, with nothing to undo the first.               *)
(*                                                                          *)
(* A definition named X_fault, before X, is a plausible error in the code X *)
(* models; no definition uses it.                                           *)
(***************************************************************************)
CONSTANTS Attachment, Request, NoFile

VARIABLES
    rows,        \* attachments in the table; its key names the object
    objects,     \* attachments whose object is in the store
    requests,
    \* histories, which no action reads
    used,        \* keys that were uploaded: each has a fresh uuid
    orphans,     \* objects left by a request that failed after its upload, or by a delete the store refused
    broken       \* rows left by a request that failed after the store had deleted their object

vars == <<rows, objects, requests, used, orphans, broken>>

------------------------------------------------------------------------------

Idle == [pc |-> "idle", file |-> NoFile]

TypeOK ==
    /\ rows \subseteq Attachment /\ objects \subseteq Attachment
    /\ requests \in [Request -> [pc: {"idle", "upload", "insert", "delete", "remove"},
                                 file: Attachment \cup {NoFile}]]
    /\ used \subseteq Attachment /\ orphans \subseteq Attachment /\ broken \subseteq Attachment

Init ==
    /\ rows = {} /\ objects = {} /\ requests = [r \in Request |-> Idle]
    /\ used = {} /\ orphans = {} /\ broken = {}

At(r, pc, f) == requests[r] = [pc |-> pc, file |-> f]
Goes(r, pc, f) == requests' = [requests EXCEPT ![r] = [pc |-> pc, file |-> f]]
Ends(r) == requests' = [requests EXCEPT ![r] = Idle]

\* What delete removes first: the object, then the row.
FirstToRemove_rowOnly == "remove"
FirstToRemove == "delete"

\* create: the task is there and the file passes validateFile.
VerifyTask(r, f) ==
    /\ requests[r].pc = "idle" /\ f \notin used
    /\ used' = used \cup {f}
    /\ Goes(r, "upload", f)
    /\ UNCHANGED <<rows, objects, orphans, broken>>

UploadFile(r, f) ==
    /\ At(r, "upload", f)
    /\ objects' = objects \cup {f}
    /\ Goes(r, "insert", f)
    /\ UNCHANGED <<rows, used, orphans, broken>>

InsertAttachment(r, f) ==
    /\ At(r, "insert", f)
    /\ rows' = rows \cup {f}
    /\ Ends(r)
    /\ UNCHANGED <<objects, used, orphans, broken>>

\* delete, by the uploader.
LoadAttachment(r, f) ==
    /\ requests[r].pc = "idle" /\ f \in rows
    /\ Goes(r, FirstToRemove, f)
    /\ UNCHANGED <<rows, objects, used, orphans, broken>>

DeleteFile(r, f) ==
    /\ At(r, "delete", f)
    /\ objects' = objects \ {f}
    /\ Goes(r, "remove", f)
    /\ UNCHANGED <<rows, used, orphans, broken>>

\* The store's error is caught and the row removed all the same.
DeleteFileFails(r, f) ==
    /\ At(r, "delete", f)
    /\ orphans' = IF f \in objects THEN orphans \cup {f} ELSE orphans
    /\ Goes(r, "remove", f)
    /\ UNCHANGED <<rows, objects, used, broken>>

\* A second remove of the same row finds none and is no error.
RemoveAttachment(r, f) ==
    /\ At(r, "remove", f)
    /\ rows' = rows \ {f}
    /\ Ends(r)
    /\ UNCHANGED <<objects, used, orphans, broken>>

Abort(r) ==
    LET f == requests[r].file
    IN /\ requests[r].pc # "idle"
       /\ orphans' = IF requests[r].pc = "insert" THEN orphans \cup {f} ELSE orphans
       /\ broken' = IF requests[r].pc = "remove" THEN broken \cup {f} ELSE broken
       /\ Ends(r)
       /\ UNCHANGED <<rows, objects, used>>

Next ==
    \E r \in Request :
        \/ \E f \in Attachment :
             \/ VerifyTask(r, f) \/ UploadFile(r, f) \/ InsertAttachment(r, f)
             \/ LoadAttachment(r, f) \/ DeleteFile(r, f) \/ DeleteFileFails(r, f) \/ RemoveAttachment(r, f)
        \/ Abort(r)

Spec == Init /\ [][Next]_vars

------------------------------------------------------------------------------
(* Properties *)

Working(pc, f) == \E r \in Request : At(r, pc, f)

\* A row and its object come and go together, with four exceptions: while a
\* request is between the two, after one has died there, and after the store
\* has refused to delete.
StoresAgree ==
    /\ \A f \in objects \ rows : Working("insert", f) \/ f \in orphans
    /\ \A f \in rows \ objects : Working("remove", f) \/ f \in broken
=============================================================================
