---------------------------- MODULE Extras_proofs ----------------------------
(***************************************************************************)
(* Theorems about the six components of Extras, each about the             *)
(* specification of its own, for any rows, comments, files, labels,        *)
(* sub-tasks and members and any number of requests in flight -- of the    *)
(* lists, for one at a time.                                               *)
(***************************************************************************)
EXTENDS Extras, TLAPS, FunctionTheorems, FiniteSetTheorems, SequenceTheorems

------------------------------------------------------------------------------
(* Attachments *)

\* What is stored, or worked on, was uploaded by someone.
StoredAreUsed ==
    /\ files \subseteq used /\ objects \subseteq used
    /\ \A r \in Client : transfers[r].pc # "idle" => transfers[r].file \in used

\* A request that creates an attachment has it for itself: no row, so that
\* nobody can delete it, and from the upload on the object.
CreatesAlone(r) ==
    LET f == transfers[r].file
    IN transfers[r].pc \in {"upload", "insert"} =>
         /\ f \notin files
         /\ f \in objects <=> transfers[r].pc = "insert"
         /\ \A s \in Client \ {r} : transfers[s].pc # "idle" => transfers[s].file # f

\* When the row is all that is left to remove, the object is gone for good
\* or the store has refused to delete it.
ObjectIsGone(r) ==
    transfers[r].pc = "remove" /\ transfers[r].file \in objects => transfers[r].file \in orphans

StoresInv ==
    /\ A!TypeOK /\ StoredAreUsed /\ A!StoresAgree
    /\ \A r \in Client : CreatesAlone(r) /\ ObjectIsGone(r)

------------------------------------------------------------------------------

LEMMA InitStores == A!Init => StoresInv
  BY DEF A!Init, StoresInv, A!TypeOK, StoredAreUsed, A!StoresAgree, CreatesAlone, ObjectIsGone, A!Idle

\* A request in a state q, and what its type says of it.
LEMMA FileMoved ==
  ASSUME A!TypeOK, NEW r \in Client, NEW pc, NEW f, A!Goes(r, pc, f)
  PROVE  \A s \in Client : transfers'[s] = IF s = r THEN [pc |-> pc, file |-> f] ELSE transfers[s]
  BY DEF A!TypeOK, A!Goes

LEMMA FileEnded ==
  ASSUME A!TypeOK, NEW r \in Client, A!Ends(r)
  PROVE  \A s \in Client : transfers'[s] = IF s = r THEN A!Idle ELSE transfers[s]
  BY DEF A!TypeOK, A!Ends

LEMMA CreateKeepsStores ==
  ASSUME StoresInv, NEW r \in Client, NEW f \in Attachment,
         A!VerifyTask(r, f) \/ A!UploadFile(r, f) \/ A!InsertAttachment(r, f)
  PROVE  StoresInv'
  <1>1. CASE A!VerifyTask(r, f)
    <2>1. \A s \in Client : transfers'[s] = IF s = r THEN [pc |-> "upload", file |-> f] ELSE transfers[s]
      BY <1>1, FileMoved DEF A!VerifyTask, StoresInv
    <2>2. /\ transfers[r].pc = "idle" /\ f \notin used /\ used' = used \cup {f}
          /\ UNCHANGED <<files, objects, orphans, broken>>
      BY <1>1 DEF A!VerifyTask
    <2>3. A!TypeOK'
      BY <1>1, <2>2 DEF A!VerifyTask, A!Goes, StoresInv, A!TypeOK
    <2>4. StoredAreUsed' /\ \A s \in Client : CreatesAlone(s)' /\ ObjectIsGone(s)'
      BY <2>1, <2>2 DEF StoresInv, StoredAreUsed, CreatesAlone, ObjectIsGone
    <2>5. A!StoresAgree'
      BY <2>1, <2>2 DEF StoresInv, A!StoresAgree, A!Working, A!At
    <2> QED
      BY <2>3, <2>4, <2>5 DEF StoresInv
  <1>2. CASE A!UploadFile(r, f)
    <2>1. \A s \in Client : transfers'[s] = IF s = r THEN [pc |-> "insert", file |-> f] ELSE transfers[s]
      BY <1>2, FileMoved DEF A!UploadFile, StoresInv
    <2>2. /\ transfers[r] = [pc |-> "upload", file |-> f] /\ objects' = objects \cup {f}
          /\ UNCHANGED <<files, used, orphans, broken>>
      BY <1>2 DEF A!UploadFile, A!At
    <2>3. A!TypeOK'
      BY <1>2, <2>2 DEF A!UploadFile, A!Goes, StoresInv, A!TypeOK
    <2>4. CreatesAlone(r)
      BY DEF StoresInv
    <2>5. StoredAreUsed' /\ \A s \in Client : CreatesAlone(s)' /\ ObjectIsGone(s)'
      BY <2>1, <2>2, <2>4 DEF StoresInv, StoredAreUsed, CreatesAlone, ObjectIsGone
    <2>6. A!StoresAgree'
      BY <2>1, <2>2, <2>4 DEF StoresInv, A!StoresAgree, A!Working, A!At, CreatesAlone
    <2> QED
      BY <2>3, <2>5, <2>6 DEF StoresInv
  <1>3. CASE A!InsertAttachment(r, f)
    <2>1. \A s \in Client : transfers'[s] = IF s = r THEN A!Idle ELSE transfers[s]
      BY <1>3, FileEnded DEF A!InsertAttachment, StoresInv
    <2>2. /\ transfers[r] = [pc |-> "insert", file |-> f] /\ files' = files \cup {f}
          /\ UNCHANGED <<objects, used, orphans, broken>>
      BY <1>3 DEF A!InsertAttachment, A!At
    <2>3. A!TypeOK'
      BY <1>3, <2>2 DEF A!InsertAttachment, A!Ends, A!Idle, StoresInv, A!TypeOK
    <2>4. CreatesAlone(r)
      BY DEF StoresInv
    <2>5. StoredAreUsed' /\ \A s \in Client : CreatesAlone(s)' /\ ObjectIsGone(s)'
      BY <2>1, <2>2, <2>4 DEF StoresInv, StoredAreUsed, CreatesAlone, ObjectIsGone, A!Idle
    <2>6. A!StoresAgree'
      BY <2>1, <2>2, <2>4 DEF StoresInv, A!StoresAgree, A!Working, A!At, CreatesAlone
    <2> QED
      BY <2>3, <2>5, <2>6 DEF StoresInv
  <1> QED
    BY <1>1, <1>2, <1>3

LEMMA DeleteKeepsStores ==
  ASSUME StoresInv, NEW r \in Client, NEW f \in Attachment,
         \/ A!LoadAttachment(r, f) \/ A!DeleteFile(r, f)
         \/ A!DeleteFileFails(r, f) \/ A!RemoveAttachment(r, f)
  PROVE  StoresInv'
  <1>1. CASE A!LoadAttachment(r, f)
    <2>1. \A s \in Client : transfers'[s] = IF s = r THEN [pc |-> "delete", file |-> f] ELSE transfers[s]
      BY <1>1, FileMoved DEF A!LoadAttachment, A!FirstToRemove, StoresInv
    <2>2. transfers[r].pc = "idle" /\ f \in files /\ UNCHANGED <<files, objects, used, orphans, broken>>
      BY <1>1 DEF A!LoadAttachment
    <2>3. A!TypeOK'
      BY <1>1, <2>2 DEF A!LoadAttachment, A!Goes, A!FirstToRemove, StoresInv, A!TypeOK
    <2>4. StoredAreUsed' /\ \A s \in Client : CreatesAlone(s)' /\ ObjectIsGone(s)'
      BY <2>1, <2>2 DEF StoresInv, StoredAreUsed, CreatesAlone, ObjectIsGone
    <2>5. A!StoresAgree'
      BY <2>1, <2>2 DEF StoresInv, A!StoresAgree, A!Working, A!At
    <2> QED
      BY <2>3, <2>4, <2>5 DEF StoresInv
  <1>2. CASE A!DeleteFile(r, f) \/ A!DeleteFileFails(r, f)
    <2>1. \A s \in Client : transfers'[s] = IF s = r THEN [pc |-> "remove", file |-> f] ELSE transfers[s]
      BY <1>2, FileMoved DEF A!DeleteFile, A!DeleteFileFails, StoresInv
    <2>2. /\ transfers[r] = [pc |-> "delete", file |-> f] /\ UNCHANGED <<files, used, broken>>
          /\ \/ objects' = objects \ {f} /\ orphans' = orphans
             \/ /\ objects' = objects
                /\ orphans' = IF f \in objects THEN orphans \cup {f} ELSE orphans
      BY <1>2 DEF A!DeleteFile, A!DeleteFileFails, A!At
    <2>3. A!TypeOK'
      BY <1>2, <2>2 DEF A!DeleteFile, A!DeleteFileFails, A!Goes, StoresInv, A!TypeOK
    <2>4. StoredAreUsed' /\ \A s \in Client : CreatesAlone(s)' /\ ObjectIsGone(s)'
      BY <2>1, <2>2 DEF StoresInv, StoredAreUsed, CreatesAlone, ObjectIsGone
    <2>5. A!StoresAgree'
      BY <2>1, <2>2 DEF StoresInv, A!StoresAgree, A!Working, A!At
    <2> QED
      BY <2>3, <2>4, <2>5 DEF StoresInv
  <1>3. CASE A!RemoveAttachment(r, f)
    <2>1. \A s \in Client : transfers'[s] = IF s = r THEN A!Idle ELSE transfers[s]
      BY <1>3, FileEnded DEF A!RemoveAttachment, StoresInv
    <2>2. /\ transfers[r] = [pc |-> "remove", file |-> f] /\ files' = files \ {f}
          /\ UNCHANGED <<objects, used, orphans, broken>>
      BY <1>3 DEF A!RemoveAttachment, A!At
    <2>3. A!TypeOK'
      BY <1>3, <2>2 DEF A!RemoveAttachment, A!Ends, A!Idle, StoresInv, A!TypeOK
    <2>4. ObjectIsGone(r)
      BY DEF StoresInv
    <2>5. StoredAreUsed' /\ \A s \in Client : CreatesAlone(s)' /\ ObjectIsGone(s)'
      BY <2>1, <2>2 DEF StoresInv, StoredAreUsed, CreatesAlone, ObjectIsGone, A!Idle
    <2>6. A!StoresAgree'
      BY <2>1, <2>2, <2>4 DEF StoresInv, A!StoresAgree, A!Working, A!At, ObjectIsGone
    <2> QED
      BY <2>3, <2>5, <2>6 DEF StoresInv
  <1> QED
    BY <1>1, <1>2, <1>3

LEMMA AbortKeepsStores ==
  ASSUME StoresInv, NEW r \in Client, A!Abort(r)
  PROVE  StoresInv'
  <1> DEFINE f == transfers[r].file
  <1>1. \A s \in Client : transfers'[s] = IF s = r THEN A!Idle ELSE transfers[s]
    BY FileEnded DEF A!Abort, StoresInv
  <1>2. /\ transfers[r].pc # "idle" /\ UNCHANGED <<files, objects, used>>
        /\ orphans' = IF transfers[r].pc = "insert" THEN orphans \cup {f} ELSE orphans
        /\ broken' = IF transfers[r].pc = "remove" THEN broken \cup {f} ELSE broken
    BY DEF A!Abort
  <1>3. f \in used /\ used \subseteq Attachment
    BY <1>2 DEF StoresInv, StoredAreUsed, A!TypeOK
  <1>4. A!TypeOK'
    BY <1>2, <1>3 DEF A!Abort, A!Ends, A!Idle, StoresInv, A!TypeOK
  <1>5. StoredAreUsed' /\ \A s \in Client : CreatesAlone(s)' /\ ObjectIsGone(s)'
    BY <1>1, <1>2 DEF StoresInv, StoredAreUsed, CreatesAlone, ObjectIsGone, A!Idle
  <1>6. A!StoresAgree'
    BY <1>1, <1>2 DEF StoresInv, A!StoresAgree, A!Working, A!At
  <1> QED
    BY <1>4, <1>5, <1>6 DEF StoresInv

LEMMA NextKeepsStores == StoresInv /\ [A!Next]_attachments => StoresInv'
  <1>1. StoresInv /\ UNCHANGED attachments => StoresInv'
    BY DEF attachments, StoresInv, A!TypeOK, StoredAreUsed, A!StoresAgree, CreatesAlone, ObjectIsGone, A!Working, A!At
  <1> QED
    BY <1>1, CreateKeepsStores, DeleteKeepsStores, AbortKeepsStores DEF A!Next

------------------------------------------------------------------------------

\* create and delete write the table and the store one after the other with
\* nothing to undo the first: the two differ by what is between the two
\* statements, or has died there, or the store refused, and by nothing else,
\* however many deletions of one file overlap.
THEOREM StoresAlwaysAgree == A!Spec => []StoresAgree
  <1>1. StoresInv => StoresAgree
    BY DEF StoresInv, StoresAgree
  <1> QED
    BY InitStores, NextKeepsStores, <1>1, PTL DEF A!Spec, A!vars, attachments

\* Table, store, requests and histories of attachments keep their types.
THEOREM StoresTyped == A!Spec => []A!TypeOK
  <1>1. StoresInv => A!TypeOK
    BY DEF StoresInv
  <1> QED
    BY InitStores, NextKeepsStores, <1>1, PTL DEF A!Spec, A!vars, attachments

------------------------------------------------------------------------------
(* Labels *)

\* Of the system labels none, all, or those whose inserts have run.
NoneSeeded == \A n \in L!Name : seeded[n] = 0
AllSeeded == \A n \in L!Name : seeded[n] = 1
SeededBefore(k) == \A i \in DOMAIN SystemLabels : seeded[SystemLabels[i]] = IF i < k THEN 1 ELSE 0

\* An insert into task_labels has its task.
TagsTask == \A r \in Client : taggings[r].pc = "insert" => taggings[r].task \in Task

\* While the server seeds it has found none, and inserts each in its turn;
\* otherwise it had all or none when it last looked, unless it was interrupted.
LabelsInv ==
    /\ L!TypeOK
    /\ \A n \in L!Name : seeded[n] <= 1
    /\ boot = "seed" => next \in 1 .. Len(SystemLabels) /\ SeededBefore(next)
    /\ boot # "seed" /\ ~interrupted => AllSeeded \/ NoneSeeded
    /\ TagsTask

LEMMA NamesOfLabels ==
    /\ Len(SystemLabels) \in Nat \ {0} /\ DOMAIN SystemLabels = 1 .. Len(SystemLabels)
    /\ \A i \in DOMAIN SystemLabels : SystemLabels[i] \in L!Name
    /\ \A n \in L!Name : \E i \in DOMAIN SystemLabels : n = SystemLabels[i]
    /\ \A i, j \in DOMAIN SystemLabels : SystemLabels[i] = SystemLabels[j] => i = j
  <1>1. \A i \in DOMAIN SystemLabels : SystemLabels[i] \in L!Name
    BY DEF L!Name
  <1>2. \A n \in L!Name : \E i \in DOMAIN SystemLabels : n = SystemLabels[i]
    BY DEF L!Name
  <1>3. Len(SystemLabels) \in Nat \ {0} /\ DOMAIN SystemLabels = 1 .. Len(SystemLabels)
    BY PartsAssumption
  <1>4. \A i, j \in DOMAIN SystemLabels : SystemLabels[i] = SystemLabels[j] => i = j
    BY PartsAssumption DEF IsInjective
  <1> QED
    BY <1>1, <1>2, <1>3, <1>4

LEMMA InitLabels == L!Init => LabelsInv
  <1> SUFFICES ASSUME L!Init PROVE LabelsInv
    OBVIOUS
  <1>1. next \in 1 .. Len(SystemLabels) + 1
    BY NamesOfLabels DEF L!Init
  <1>2. taggings \in [Client -> L!RequestState]
    BY DEF L!Init, L!RequestState, L!Idle
  <1>3. L!TypeOK
    BY <1>1, <1>2 DEF L!Init, L!TypeOK
  <1>4. NoneSeeded
    BY DEF L!Init, NoneSeeded
  <1> QED
    BY <1>3, <1>4 DEF L!Init, LabelsInv, NoneSeeded, TagsTask, L!Idle

\* A start of the server, the seeding and the ways it ends.
LEMMA BootKeepsLabels ==
  ASSUME LabelsInv,
         L!CountSystemLabels \/ L!InsertSystemLabel \/ L!InsertFails \/ L!Down \/ L!Restart
  PROVE  LabelsInv'
  <1>1. L!TypeOK /\ \A n \in L!Name : seeded[n] \in Nat
    BY DEF LabelsInv, L!TypeOK
  <1>2. CASE L!CountSystemLabels
    <2>1. /\ boot = "count" /\ next' = 1 /\ UNCHANGED <<seeded, interrupted>>
          /\ boot' = IF NoneSeeded THEN "seed" ELSE "up"
      BY <1>2 DEF L!CountSystemLabels, L!Missing, NoneSeeded
    <2>2. L!TypeOK'
      BY <1>1, <1>2, <2>1, NamesOfLabels DEF L!TypeOK, L!CountSystemLabels
    <2>3. NoneSeeded => SeededBefore(1)
      BY NamesOfLabels DEF NoneSeeded, SeededBefore
    <2>4. boot' = "seed" => next' \in 1 .. Len(SystemLabels) /\ SeededBefore(next)'
      <3> SUFFICES ASSUME boot' = "seed" PROVE next' \in 1 .. Len(SystemLabels) /\ SeededBefore(next)'
        OBVIOUS
      <3>1. \A i \in DOMAIN SystemLabels : seeded'[SystemLabels[i]] = IF i < 1 THEN 1 ELSE 0
        BY <2>1, <2>3 DEF SeededBefore
      <3> QED
        BY <2>1, <3>1, NamesOfLabels DEF SeededBefore
    <2>5. boot' # "seed" /\ ~interrupted' => AllSeeded' \/ NoneSeeded'
      BY <2>1 DEF LabelsInv, AllSeeded, NoneSeeded
    <2>6. (\A n \in L!Name : seeded[n] <= 1)' /\ TagsTask'
      BY <1>2, <2>1 DEF LabelsInv, TagsTask, L!CountSystemLabels
    <2> QED
      BY <2>2, <2>4, <2>5, <2>6 DEF LabelsInv
  <1>3. CASE L!InsertSystemLabel
    <2>1. /\ boot = "seed" /\ next' = next + 1 /\ UNCHANGED interrupted
          /\ seeded' = [seeded EXCEPT ![SystemLabels[next]] = @ + 1]
          /\ boot' = IF next = Len(SystemLabels) THEN "up" ELSE "seed"
      BY <1>3 DEF L!InsertSystemLabel
    <2>2. next \in 1 .. Len(SystemLabels) /\ SeededBefore(next)
      BY <2>1 DEF LabelsInv
    <2>3. ASSUME NEW i \in DOMAIN SystemLabels
          PROVE  seeded'[SystemLabels[i]] = IF i < next + 1 THEN 1 ELSE 0
      <3>1. next \in DOMAIN SystemLabels /\ i \in Nat /\ next \in Nat
        BY <2>2, NamesOfLabels
      <3>2. seeded'[SystemLabels[i]] = IF SystemLabels[i] = SystemLabels[next] THEN seeded[SystemLabels[i]] + 1
                                       ELSE seeded[SystemLabels[i]]
        BY <1>1, <2>1, <3>1, NamesOfLabels DEF L!TypeOK
      <3>3. SystemLabels[i] = SystemLabels[next] <=> i = next
        BY <3>1, NamesOfLabels
      <3> QED
        BY <2>2, <3>1, <3>2, <3>3 DEF SeededBefore
    <2>4. L!TypeOK'
      <3>0. next' = next + 1 /\ next \in 1 .. Len(SystemLabels) /\ Len(SystemLabels) \in Nat
        BY <2>1, <2>2, NamesOfLabels
      <3>1. seeded' \in [L!Name -> Nat]
        <4>1. seeded \in [L!Name -> Nat] /\ seeded' = [seeded EXCEPT ![SystemLabels[next]] = @ + 1]
          BY <1>1, <2>1 DEF L!TypeOK
        <4>2. SystemLabels[next] \in L!Name
          BY <3>0, NamesOfLabels
        <4> QED
          BY <4>1, <4>2
      <3>2. next' \in 1 .. Len(SystemLabels) + 1
        BY <3>0
      <3> QED
        BY <1>1, <1>3, <2>1, <3>1, <3>2 DEF L!TypeOK, L!InsertSystemLabel
    <2>5. \A n \in L!Name : seeded'[n] <= 1
      BY <2>3, NamesOfLabels
    <2>6. boot' = "seed" => next' \in 1 .. Len(SystemLabels) /\ SeededBefore(next)'
      <3>1. /\ next' = next + 1 /\ next \in 1 .. Len(SystemLabels) /\ Len(SystemLabels) \in Nat
            /\ boot' = "seed" => next # Len(SystemLabels)
        BY <2>1, <2>2, NamesOfLabels
      <3>2. boot' = "seed" => next' \in 1 .. Len(SystemLabels)
        BY <3>1
      <3>3. SeededBefore(next)'
        BY <2>3, <3>1 DEF SeededBefore
      <3> QED
        BY <3>2, <3>3
    <2>7. boot' # "seed" => AllSeeded'
      BY <2>1, <2>3, NamesOfLabels DEF AllSeeded
    <2> QED
      BY <1>3, <2>4, <2>5, <2>6, <2>7 DEF LabelsInv, TagsTask, L!InsertSystemLabel
  <1>4. CASE L!InsertFails \/ L!Down
    <2>1. /\ boot' # "seed" /\ UNCHANGED <<next, seeded>>
          /\ interrupted' = (interrupted \/ (boot = "seed" /\ next > 1))
      BY <1>4 DEF L!InsertFails, L!Down
    <2>2. L!TypeOK'
      BY <1>1, <1>4, <2>1 DEF L!TypeOK, L!InsertFails, L!Down, L!RequestState, L!Idle
    <2>3. ASSUME boot = "seed", ~ next > 1 PROVE NoneSeeded
      <3>1. next = 1 /\ SeededBefore(1)
        BY <2>3 DEF LabelsInv
      <3> QED
        BY <3>1, NamesOfLabels DEF SeededBefore, NoneSeeded
    <2>4. ~ interrupted' => AllSeeded' \/ NoneSeeded'
      BY <2>1, <2>3 DEF LabelsInv, AllSeeded, NoneSeeded
    <2> QED
      BY <1>4, <2>1, <2>2, <2>4 DEF LabelsInv, TagsTask, L!InsertFails, L!Down, L!Idle
  <1>5. CASE L!Restart
    BY <1>1, <1>5 DEF LabelsInv, L!Restart, L!TypeOK, AllSeeded, NoneSeeded, TagsTask
  <1> QED
    BY <1>2, <1>3, <1>4, <1>5

\* Requests leave the system labels alone.
LEMMA RequestsKeepLabels ==
  ASSUME LabelsInv, L!TypeOK', TagsTask', UNCHANGED <<boot, next, seeded, interrupted>>
  PROVE  LabelsInv'
  BY DEF LabelsInv, SeededBefore, AllSeeded, NoneSeeded

LEMMA TagMoves ==
  ASSUME L!TypeOK, NEW r \in Client, NEW pc \in {"remove", "insert", "take"},
         NEW t \in Task \cup {Nobody}, NEW l \in Custom, L!Goes(r, pc, t, l)
  PROVE  /\ taggings' \in [Client -> L!RequestState]
         /\ \A s \in Client : taggings'[s] = IF s = r THEN [pc |-> pc, task |-> t, label |-> l] ELSE taggings[s]
  BY DEF L!TypeOK, L!Goes, L!RequestState

LEMMA TagEnds ==
  ASSUME L!TypeOK, NEW r \in Client, L!Ends(r)
  PROVE  /\ taggings' \in [Client -> L!RequestState]
         /\ \A s \in Client : taggings'[s] = IF s = r THEN L!Idle ELSE taggings[s]
  BY DEF L!TypeOK, L!Ends, L!RequestState, L!Idle

LEMMA BegunTagsKeepLabels ==
  ASSUME LabelsInv, NEW r \in Client, NEW l \in Custom, NEW t \in Task,
         L!CheckDuplicate(r, t, l) \/ L!FindTaskLabel(r, t, l)
  PROVE  LabelsInv'
  <1>1. L!TypeOK /\ TagsTask
    BY DEF LabelsInv
  <1>2. UNCHANGED <<boot, next, seeded, custom, taskLabels, interrupted>>
    BY DEF L!CheckDuplicate, L!FindTaskLabel
  <1>3. PICK pc \in {"remove", "insert", "take"} : L!Goes(r, pc, t, l)
    BY DEF L!CheckDuplicate, L!FindTaskLabel
  <1>4. /\ taggings' \in [Client -> L!RequestState]
        /\ \A s \in Client : taggings'[s] = IF s = r THEN [pc |-> pc, task |-> t, label |-> l] ELSE taggings[s]
    BY <1>1, <1>3, TagMoves
  <1>5. L!TypeOK'
    BY <1>1, <1>2, <1>4 DEF L!TypeOK
  <1>6. TagsTask'
    BY <1>1, <1>4 DEF TagsTask
  <1> QED
    BY <1>2, <1>5, <1>6, RequestsKeepLabels

LEMMA EndedTagsKeepLabels ==
  ASSUME LabelsInv, NEW r \in Client,
         L!RemoveLabel(r) \/ L!InsertTaskLabel(r) \/ L!RemoveTaskLabel(r)
  PROVE  LabelsInv'
  <1>1. L!TypeOK /\ TagsTask
    BY DEF LabelsInv
  <1>2. L!Ends(r) /\ UNCHANGED <<boot, next, seeded, interrupted>>
    BY DEF L!RemoveLabel, L!InsertTaskLabel, L!RemoveTaskLabel
  <1>3. custom' \subseteq Custom /\ taskLabels' \subseteq Task \X Custom
    BY <1>1 DEF L!RemoveLabel, L!InsertTaskLabel, L!RemoveTaskLabel, L!TypeOK, TagsTask
  <1>4. L!TypeOK' /\ TagsTask'
    BY <1>1, <1>2, <1>3, TagEnds DEF L!TypeOK, TagsTask, L!Idle
  <1> QED
    BY <1>2, <1>4, RequestsKeepLabels

LEMMA CreateKeepsLabels ==
  ASSUME LabelsInv, NEW l \in Custom, L!CreateLabel(l)
  PROVE  LabelsInv'
  <1>1. L!TypeOK' /\ TagsTask' /\ UNCHANGED <<boot, next, seeded, interrupted>>
    BY DEF LabelsInv, L!TypeOK, TagsTask, L!CreateLabel
  <1> QED
    BY <1>1, RequestsKeepLabels

LEMMA NextKeepsLabels == LabelsInv /\ [L!Next]_labels => LabelsInv'
  <1>1. LabelsInv /\ UNCHANGED labels => LabelsInv'
    BY DEF labels, LabelsInv, L!TypeOK, SeededBefore, AllSeeded, NoneSeeded, TagsTask
  <1>2. ASSUME LabelsInv, NEW r \in Client, NEW l \in Custom, L!LoadToDelete(r, l)
        PROVE  LabelsInv'
    <2>1. L!TypeOK /\ TagsTask
      BY <1>2 DEF LabelsInv
    <2>2. UNCHANGED <<boot, next, seeded, custom, taskLabels, interrupted>> /\ L!Goes(r, "remove", Nobody, l)
      BY <1>2 DEF L!LoadToDelete
    <2>3. /\ taggings' \in [Client -> L!RequestState]
          /\ \A s \in Client : taggings'[s] = IF s = r THEN [pc |-> "remove", task |-> Nobody, label |-> l] ELSE taggings[s]
      BY <1>2, <2>1, <2>2, TagMoves
    <2>4. L!TypeOK'
      BY <2>1, <2>2, <2>3 DEF L!TypeOK
    <2>5. TagsTask'
      BY <2>1, <2>3 DEF TagsTask
    <2> QED
      BY <1>2, <2>2, <2>4, <2>5, RequestsKeepLabels
  <1> QED
    BY <1>1, <1>2, BootKeepsLabels, BegunTagsKeepLabels, EndedTagsKeepLabels, CreateKeepsLabels DEF L!Next

\* However often the server starts and wherever a seeding ends, no system
\* label comes twice, and without an interruption none is missing alone.
THEOREM SeedingsComeOnce == L!Spec => []SeededOnce
  <1>1. LabelsInv => SeededOnce
    BY DEF LabelsInv, SeededOnce, L!SeededOnce, L!Missing, AllSeeded, NoneSeeded
  <1> QED
    BY InitLabels, NextKeepsLabels, <1>1, PTL DEF L!Spec, L!vars, labels

\* Labels, requests and the state of the seeding keep their types.
THEOREM LabelsTyped == L!Spec => []L!TypeOK
  <1>1. LabelsInv => L!TypeOK
    BY DEF LabelsInv
  <1> QED
    BY InitLabels, NextKeepsLabels, <1>1, PTL DEF L!Spec, L!vars, labels

------------------------------------------------------------------------------
(* Comments and notifications *)

Creating(r) == posts[r].pc \in {"insert", "mention", "concern"}
Saving(r) == posts[r].pc \in {"select", "write"}

\* How many notifications a request in state q has still to send to user u.
Left(q, u) == (IF u = q.entity.author THEN 0 ELSE D!Times(q.mentions, u))
              + (IF u \in q.concerned \ q.names THEN 1 ELSE 0)

PostsTyped ==
    \A r \in Client : /\ posts[r].pc # "idle" => posts[r].comment \in Comment
                      /\ posts[r].pc = "concern" => posts[r].mentions = <<>>
                      /\ posts[r].pc = "insert" => posts[r].entity.row = "there"

\* A comment is created by one request, and is in the table from its insert on.
CreatedOnce ==
    /\ \A r, s \in Client : Creating(r) /\ Creating(s) /\ posts[r].comment = posts[s].comment => r = s
    /\ \A r \in Client : /\ posts[r].pc = "insert" => comments[posts[r].comment].row = "none"
                         /\ posts[r].pc \in {"mention", "concern"} => comments[posts[r].comment].row = "there"
    /\ \A c \in Comment : comments[c].row = "none" => \A u \in User : inbox[c][u] = 0

\* What a request set out to send is what it has sent and what remains.
OwedIsLeft ==
    \A r \in Client : Creating(r) =>
        \A u \in User : owed[posts[r].comment][u] = inbox[posts[r].comment][u] + Left(posts[r], u)

\* Until saves of a comment cross, a save holds it as it is but for what it edits.
SavedApart ==
    \A r \in Client : Saving(r) =>
        LET c == posts[r].comment
        IN c \in crossed \/ /\ comments[c].row = "there" /\ comments[c].deletedAt = "null"
                            /\ posts[r].entity.parent = comments[c].parent

TalkInv ==
    /\ D!TypeOK /\ PostsTyped /\ CreatedOnce /\ OwedIsLeft /\ SavedApart
    /\ ConcernedAreTold

\* Each instance has the operators of the modules it extends.
LEMMA CountedAlike == \A S : D!Cardinality(S) = Cardinality(S)
  BY DEF D!Cardinality, Cardinality

LEMMA TimesOfNone == \A u : D!Times(<<>>, u) = 0
  <1>1. \A u : {i \in DOMAIN <<>> : <<>>[i] = u} = {}
    OBVIOUS
  <1> QED
    BY <1>1, FS_EmptySet, CountedAlike DEF D!Times

LEMMA TimesIsNat ==
  ASSUME NEW m \in Seq(User), NEW u
  PROVE  IsFiniteSet({i \in DOMAIN m : m[i] = u}) /\ D!Times(m, u) \in Nat
  <1>1. IsFiniteSet(1 .. Len(m)) /\ DOMAIN m = 1 .. Len(m)
    BY FS_Interval
  <1>2. IsFiniteSet({i \in DOMAIN m : m[i] = u})
    BY <1>1, FS_Subset, {i \in DOMAIN m : m[i] = u} \in SUBSET (1 .. Len(m))
  <1> QED
    BY <1>2, FS_CardinalityType, CountedAlike DEF D!Times

LEMMA TimesUnnamed ==
  ASSUME NEW m \in Seq(User), NEW u, u \notin D!Names(m)
  PROVE  D!Times(m, u) = 0
  <1>1. {i \in DOMAIN m : m[i] = u} = {}
    BY DEF D!Names
  <1> QED
    BY <1>1, FS_EmptySet, CountedAlike DEF D!Times

\* The head of a list is named once more than in the tail.
LEMMA TimesOfTail ==
  ASSUME NEW m \in Seq(User), m # <<>>, NEW u
  PROVE  D!Times(m, u) = D!Times(Tail(m), u) + IF Head(m) = u THEN 1 ELSE 0
  <1> DEFINE t == Tail(m)
             S == {i \in DOMAIN m : m[i] = u}
             T == {i \in DOMAIN t : t[i] = u}
             f == [i \in T |-> i + 1]
  <1>1. /\ Len(m) \in Nat /\ Len(m) >= 1 /\ DOMAIN m = 1 .. Len(m)
        /\ t \in Seq(User) /\ Len(t) = Len(m) - 1 /\ DOMAIN t = 1 .. Len(t)
        /\ \A i \in DOMAIN t : t[i] = m[i + 1]
        /\ Head(m) = m[1]
    OBVIOUS
  <1>2. IsFiniteSet(S) /\ IsFiniteSet(T) /\ Cardinality(S) \in Nat
    BY <1>1, TimesIsNat, FS_CardinalityType
  <1>3. f \in Bijection(T, S \ {1})
    <2>1. f \in [T -> S \ {1}]
      BY <1>1
    <2>2. \A a, b \in T : f[a] = f[b] => a = b
      BY <1>1
    <2>3. ASSUME NEW s \in S \ {1} PROVE \E a \in T : f[a] = s
      <3>1. s - 1 \in T /\ f[s - 1] = s
        BY <1>1
      <3> QED
        BY <3>1
    <2> QED
      BY <2>1, <2>2, <2>3, Fun_IsBij
  <1>4. Cardinality(T) = Cardinality(S \ {1})
    BY <1>2, <1>3, FS_Bijection DEF ExistsBijection
  <1>5. Cardinality(S \ {1}) = IF 1 \in S THEN Cardinality(S) - 1 ELSE Cardinality(S)
    BY <1>2, FS_RemoveElement
  <1>6. 1 \in S <=> Head(m) = u
    BY <1>1
  <1>7. D!Times(m, u) = Cardinality(S) /\ D!Times(t, u) = Cardinality(T)
    BY CountedAlike DEF D!Times
  <1> HIDE DEF S, T, f, t
  <1>8. Cardinality(S) = Cardinality(T) + IF Head(m) = u THEN 1 ELSE 0
    BY <1>2, <1>4, <1>5, <1>6
  <1> QED
    BY <1>7, <1>8 DEF t

LEMMA LeftIsNat ==
  ASSUME NEW q \in D!RequestState, NEW u
  PROVE  Left(q, u) \in Nat
  <1>1. D!Times(q.mentions, u) \in Nat
    BY TimesIsNat DEF D!RequestState
  <1> QED
    BY <1>1 DEF Left

LEMMA BlankRows ==
  /\ D!NoComment \in D!CommentRow /\ D!Idle \in D!RequestState /\ D!Idle.pc = "idle"
  /\ DOMAIN D!NoComment = {"row", "author", "text", "parent", "deletedAt"}
  <1>1. D!AnyText \in Text
    BY PartsAssumption DEF D!AnyText
  <1>2. D!NoComment \in D!CommentRow
    BY <1>1 DEF D!NoComment, D!CommentRow, D!RowState
  <1>3. <<>> \in Seq(User)
    OBVIOUS
  <1>4. D!Idle \in D!RequestState
    BY <1>2, <1>3 DEF D!Idle, D!RequestState
  <1> QED
    BY <1>2, <1>4 DEF D!Idle, D!NoComment

LEMMA InitTalk == D!Init => TalkInv
  <1> SUFFICES ASSUME D!Init PROVE TalkInv
    OBVIOUS
  <1>1. \A r \in Client : posts[r] = D!Idle
    BY DEF D!Init
  <1>2. D!TypeOK
    BY BlankRows DEF D!Init, D!TypeOK
  <1>3. \A r \in Client : posts[r].pc = "idle"
    BY <1>1, BlankRows
  <1>4. PostsTyped /\ OwedIsLeft /\ SavedApart
    BY <1>3 DEF PostsTyped, OwedIsLeft, SavedApart, Creating, Saving
  <1>5. CreatedOnce
    BY <1>3 DEF CreatedOnce, Creating, D!Init
  <1>6. ConcernedAreTold
    BY DEF D!Init, ConcernedAreTold, D!ConcernedAreTold
  <1> QED
    BY <1>2, <1>4, <1>5, <1>6 DEF TalkInv

LEMMA PostMoves ==
  ASSUME D!TypeOK, NEW r \in Client, NEW q \in D!RequestState, D!Becomes(r, q)
  PROVE  /\ posts' \in [Client -> D!RequestState]
         /\ \A s \in Client : posts'[s] = IF s = r THEN q ELSE posts[s]
  BY DEF D!TypeOK, D!Becomes

\* What is told: of each comment that is being created what OwedIsLeft says,
\* of the others as much as before, all of it, or what a failure has left.
LEMMA ToldStays ==
  ASSUME D!TypeOK', OwedIsLeft', ConcernedAreTold,
         \A c \in Comment :
            \/ \E r \in Client : Creating(r)' /\ posts'[r].comment = c
            \/ /\ inbox'[c] = inbox[c] /\ owed'[c] = owed[c] /\ (c \in cut => c \in cut')
               /\ \A r \in Client : ~ (Creating(r) /\ posts[r].comment = c)
            \/ \A u \in User : inbox'[c][u] = owed'[c][u]
            \/ inbox'[c] = inbox[c] /\ owed'[c] = owed[c] /\ c \in cut'
  PROVE  ConcernedAreTold'
  <1> SUFFICES ASSUME NEW c \in Comment, NEW u \in User
               PROVE  /\ inbox'[c][u] <= owed'[c][u]
                      /\ \/ inbox'[c][u] = owed'[c][u] \/ c \in cut'
                         \/ \E r \in Client : posts'[r].comment = c
                                              /\ posts'[r].pc \in {"insert", "mention", "concern"}
    BY DEF ConcernedAreTold, D!ConcernedAreTold
  <1>1. /\ inbox[c][u] <= owed[c][u]
        /\ \/ inbox[c][u] = owed[c][u] \/ c \in cut
           \/ \E r \in Client : posts[r].comment = c /\ Creating(r)
    BY DEF ConcernedAreTold, D!ConcernedAreTold, Creating
  <1>2. inbox'[c][u] \in Nat /\ owed'[c][u] \in Nat
    BY DEF D!TypeOK
  <1>3. ASSUME NEW r \in Client, Creating(r)', posts'[r].comment = c
        PROVE  inbox'[c][u] <= owed'[c][u] /\ posts'[r].pc \in {"insert", "mention", "concern"}
    <2>1. posts'[r] \in D!RequestState
      BY DEF D!TypeOK
    <2>2. owed'[c][u] = inbox'[c][u] + Left(posts'[r], u)
      BY <1>3 DEF OwedIsLeft
    <2>3. Left(posts'[r], u) \in Nat
      BY <2>1, LeftIsNat
    <2> QED
      BY <1>2, <1>3, <2>2, <2>3 DEF Creating
  <1> QED
    BY <1>1, <1>2, <1>3

\* A step of request r that leaves the tables and the histories alone.
LEMMA BareStep ==
  ASSUME TalkInv, NEW r \in Client, NEW q \in D!RequestState, D!Becomes(r, q),
         UNCHANGED <<assignee, comments, inbox, owed, cut, crossed>>,
         q.pc # "idle", q.comment \in Comment,
         q.pc = "concern" => q.mentions = <<>>,
         q.pc # "insert",
         IF q.pc \in {"mention", "concern"}
         THEN posts[r].pc \in {"mention", "concern"} /\ q.comment = posts[r].comment /\ \A u \in User : Left(q, u) = Left(posts[r], u)
         ELSE ~ Creating(r),
         Saving(r)' => \/ Saving(r) /\ q.comment = posts[r].comment /\ q.entity = posts[r].entity
                       \/ /\ comments[q.comment].row = "there" /\ comments[q.comment].deletedAt = "null"
                          /\ q.entity.parent = comments[q.comment].parent
  PROVE  TalkInv'
  <1>1. /\ posts' \in [Client -> D!RequestState]
        /\ \A s \in Client : posts'[s] = IF s = r THEN q ELSE posts[s]
    BY PostMoves DEF TalkInv
  <1>2. D!TypeOK'
    BY <1>1 DEF TalkInv, D!TypeOK
  <1>3. PostsTyped'
    BY <1>1 DEF TalkInv, PostsTyped
  <1>4. \A s \in Client : (Creating(s)' <=> Creating(s)) /\ (Creating(s) => posts'[s].comment = posts[s].comment)
    <2> SUFFICES ASSUME NEW s \in Client
                 PROVE  (Creating(s)' <=> Creating(s)) /\ (Creating(s) => posts'[s].comment = posts[s].comment)
      OBVIOUS
    <2>1. CASE s # r
      BY <1>1, <2>1 DEF Creating
    <2>2. CASE s = r
      BY <1>1, <2>2 DEF Creating
    <2> QED
      BY <2>1, <2>2
  <1>5. CreatedOnce'
    BY <1>1, <1>4 DEF TalkInv, CreatedOnce, Creating
  <1>6. OwedIsLeft'
    <2> SUFFICES ASSUME NEW s \in Client, Creating(s)', NEW u \in User
                 PROVE  owed[posts'[s].comment][u] = inbox[posts'[s].comment][u] + Left(posts'[s], u)
      BY DEF OwedIsLeft
    <2>1. Creating(s) /\ posts'[s].comment = posts[s].comment
      BY <1>4
    <2>2. owed[posts[s].comment][u] = inbox[posts[s].comment][u] + Left(posts[s], u)
      BY <2>1 DEF TalkInv, OwedIsLeft
    <2>3. Left(posts'[s], u) = Left(posts[s], u)
      <3>1. CASE s # r
        BY <1>1, <3>1
      <3>2. CASE s = r
        BY <1>1, <2>1, <3>2 DEF Creating
      <3> QED
        BY <3>1, <3>2
    <2> QED
      BY <2>1, <2>2, <2>3
  <1>7. SavedApart'
    BY <1>1 DEF TalkInv, SavedApart, Saving
  <1>8. ConcernedAreTold'
    BY <1>2, <1>4, <1>6, ToldStays DEF TalkInv
  <1> QED
    BY <1>2, <1>3, <1>5, <1>6, <1>7, <1>8 DEF TalkInv

LEMMA BareStepsKeepTalk ==
  ASSUME TalkInv, NEW r \in Client, D!EndMentions(r) \/ D!SelectComment(r)
  PROVE  TalkInv'
  <1>1. posts[r] \in D!RequestState /\ D!TypeOK /\ PostsTyped
    BY DEF TalkInv, D!TypeOK
  <1>2. CASE D!EndMentions(r)
    <2> DEFINE q == [posts[r] EXCEPT !.pc = "concern"]
    <2>1. /\ posts[r].pc = "mention" /\ posts[r].mentions = <<>> /\ D!Becomes(r, q)
          /\ UNCHANGED <<assignee, comments, inbox, owed, cut, crossed>>
      BY <1>2 DEF D!EndMentions, D!histories
    <2>2. /\ q \in D!RequestState /\ q.pc = "concern" /\ q.mentions = <<>>
          /\ q.comment = posts[r].comment /\ posts[r].comment \in Comment
          /\ q.entity = posts[r].entity /\ q.concerned = posts[r].concerned /\ q.names = posts[r].names
          /\ q.mentions = posts[r].mentions
      BY <1>1, <2>1 DEF D!RequestState, PostsTyped
    <2>3. \A u \in User : Left(q, u) = Left(posts[r], u)
      BY <2>2 DEF Left
    <2>4. posts[r].pc \in {"mention", "concern"} /\ ~ Saving(r)'
      BY <1>1, <2>1, <2>2, PostMoves DEF Creating, Saving
    <2> HIDE DEF q
    <2> QED
      BY <2>1, <2>2, <2>3, <2>4, BareStep
  <1>3. CASE D!SelectComment(r)
    <2> DEFINE plan == D!SavePlan(posts[r].entity, comments[posts[r].comment])
               q == [posts[r] EXCEPT !.pc = "write", !.plan = plan]
    <2>1. /\ posts[r].pc = "select" /\ D!Becomes(r, q)
          /\ UNCHANGED <<assignee, comments, inbox, owed, cut, crossed>>
      BY <1>3 DEF D!SelectComment, D!histories
    <2>2. posts[r].entity \in D!CommentRow
      BY <1>1 DEF D!RequestState
    <2>3. plan \subseteq DOMAIN posts[r].entity
      BY DEF D!SavePlan
    <2>4. DOMAIN posts[r].entity = DOMAIN D!NoComment
      BY <2>2, BlankRows DEF D!CommentRow
    <2> HIDE DEF plan
    <2>5. /\ q \in D!RequestState /\ q.pc = "write" /\ q.entity = posts[r].entity
          /\ q.comment = posts[r].comment /\ posts[r].comment \in Comment
      BY <1>1, <2>1, <2>3, <2>4 DEF D!RequestState, PostsTyped
    <2>6. ~ Creating(r) /\ Saving(r)
      BY <2>1 DEF Creating, Saving
    <2> HIDE DEF q
    <2> QED
      BY <2>1, <2>5, <2>6, BareStep
  <1> QED
    BY <1>2, <1>3

LEMMA LoadKeepsTalk ==
  ASSUME TalkInv, NEW r \in Client, NEW c \in Comment, NEW entity, D!LoadComment(r, c, entity),
         (\E x \in Text : entity = D!Edited(comments[c], x)) \/ entity = D!Deleted(comments[c])
  PROVE  TalkInv'
  <1> DEFINE q == [D!Idle EXCEPT !.pc = "select", !.comment = c, !.entity = entity]
  <1>1. /\ posts[r].pc = "idle" /\ D!Becomes(r, q)
        /\ comments[c].row = "there" /\ comments[c].deletedAt = "null"
        /\ UNCHANGED <<assignee, comments, inbox, owed, cut, crossed>>
    BY DEF D!LoadComment, D!histories, D!Visible, D!Exists
  <1>2. comments[c] \in D!CommentRow
    BY DEF TalkInv, D!TypeOK
  <1>3. entity \in D!CommentRow /\ entity.parent = comments[c].parent
    BY <1>2 DEF D!Edited, D!Deleted, D!CommentRow
  <1>4. q \in D!RequestState /\ q.pc = "select" /\ q.comment = c /\ q.entity = entity
    BY <1>3, BlankRows DEF D!RequestState
  <1>5. ~ Creating(r)
    BY <1>1 DEF Creating
  <1> HIDE DEF q
  <1> QED
    BY <1>1, <1>3, <1>4, <1>5, BareStep

\* A request that comes to its end: what it was about keeps its owed
\* notifications, unless it was creating it, and then they are all sent or it
\* was cut short.
LEMMA EndKeepsTalk ==
  ASSUME TalkInv, NEW r \in Client, D!Ends(r),
         comments' \in [Comment -> D!CommentRow],
         UNCHANGED <<assignee, inbox, owed>>,
         cut \subseteq cut', cut' \subseteq Comment, crossed \subseteq crossed', crossed' \subseteq Comment,
         Creating(r) => \/ posts[r].comment \in cut'
                        \/ \A u \in User : inbox[posts[r].comment][u] = owed[posts[r].comment][u],
         \A c \in Comment : \/ comments'[c] = comments[c]
                            \/ Saving(r) /\ c = posts[r].comment /\ comments'[c].row = comments[c].row,
         \A s \in Client \ {r} : Saving(s) =>
            LET c == posts[s].comment IN c \in crossed' \/ comments'[c] = comments[c]
  PROVE  TalkInv'
  <1>1. /\ posts' \in [Client -> D!RequestState]
        /\ \A s \in Client : posts'[s] = IF s = r THEN D!Idle ELSE posts[s]
    BY PostMoves, BlankRows DEF TalkInv, D!Ends
  <1>2. D!TypeOK'
    BY <1>1 DEF TalkInv, D!TypeOK
  <1>3. PostsTyped'
    BY <1>1, BlankRows DEF TalkInv, PostsTyped
  <1>4. \A s \in Client : /\ Creating(s)' <=> s # r /\ Creating(s)
                          /\ Saving(s)' <=> s # r /\ Saving(s)
                          /\ s # r => posts'[s] = posts[s]
    BY <1>1, BlankRows DEF Creating, Saving
  <1>5. \A c \in Comment : comments'[c].row = comments[c].row
    OBVIOUS
  <1>6. CreatedOnce'
    <2>1. \A s, x \in Client : Creating(s)' /\ Creating(x)' /\ posts'[s].comment = posts'[x].comment => s = x
      BY <1>4 DEF TalkInv, CreatedOnce
    <2>2. ASSUME NEW s \in Client, posts'[s].pc = "insert" PROVE comments'[posts'[s].comment].row = "none"
      <3>1. s # r /\ posts'[s] = posts[s]
        BY <1>1, <2>2, BlankRows
      <3>2. comments[posts[s].comment].row = "none" /\ posts[s].comment \in Comment
        BY <2>2, <3>1 DEF TalkInv, CreatedOnce, PostsTyped
      <3> QED
        BY <1>5, <3>1, <3>2
    <2>3. ASSUME NEW s \in Client, posts'[s].pc \in {"mention", "concern"}
          PROVE  comments'[posts'[s].comment].row = "there"
      <3>1. s # r /\ posts'[s] = posts[s]
        BY <1>1, <2>3, BlankRows
      <3>2. comments[posts[s].comment].row = "there" /\ posts[s].comment \in Comment
        BY <2>3, <3>1 DEF TalkInv, CreatedOnce, PostsTyped
      <3> QED
        BY <1>5, <3>1, <3>2
    <2>4. \A c \in Comment : comments'[c].row = "none" => \A u \in User : inbox'[c][u] = 0
      BY <1>5 DEF TalkInv, CreatedOnce
    <2> QED
      BY <2>1, <2>2, <2>3, <2>4 DEF CreatedOnce
  <1>7. OwedIsLeft'
    BY <1>4 DEF TalkInv, OwedIsLeft
  <1>8. SavedApart'
    <2> SUFFICES ASSUME NEW s \in Client, Saving(s)', posts'[s].comment \notin crossed'
                 PROVE  LET c == posts'[s].comment
                        IN /\ comments'[c].row = "there" /\ comments'[c].deletedAt = "null"
                           /\ posts'[s].entity.parent = comments'[c].parent
      BY DEF SavedApart
    <2>1. s # r /\ Saving(s) /\ posts'[s] = posts[s]
      BY <1>4
    <2>2. comments'[posts[s].comment] = comments[posts[s].comment] /\ posts[s].comment \notin crossed
      BY <2>1
    <2> QED
      BY <2>1, <2>2 DEF TalkInv, SavedApart
  <1>9. ConcernedAreTold'
    <2> SUFFICES ASSUME NEW c \in Comment
                 PROVE  \/ \E s \in Client : Creating(s)' /\ posts'[s].comment = c
                        \/ /\ inbox'[c] = inbox[c] /\ owed'[c] = owed[c] /\ (c \in cut => c \in cut')
                           /\ \A s \in Client : ~ (Creating(s) /\ posts[s].comment = c)
                        \/ \A u \in User : inbox'[c][u] = owed'[c][u]
                        \/ inbox'[c] = inbox[c] /\ owed'[c] = owed[c] /\ c \in cut'
      BY <1>2, <1>7, ToldStays DEF TalkInv
    <2>1. CASE Creating(r) /\ posts[r].comment = c
      BY <2>1
    <2>2. CASE ~ (Creating(r) /\ posts[r].comment = c)
      BY <1>4, <2>2
    <2> QED
      BY <2>1, <2>2
  <1> QED
    BY <1>2, <1>3, <1>6, <1>7, <1>8, <1>9 DEF TalkInv

LEMMA EndsKeepTalk ==
  ASSUME TalkInv, NEW r \in Client, D!LogActivity(r) \/ D!WriteComment(r) \/ D!Abort(r)
  PROVE  TalkInv'
  <1>1. posts[r] \in D!RequestState /\ D!TypeOK /\ PostsTyped
    BY DEF TalkInv, D!TypeOK
  <1>2. CASE D!LogActivity(r)
    <2>1. /\ posts[r].pc = "concern" /\ posts[r].concerned = {} /\ D!Ends(r)
          /\ UNCHANGED <<assignee, comments, inbox, owed, cut, crossed>>
      BY <1>2 DEF D!LogActivity, D!histories
    <2>2. posts[r].comment \in Comment /\ posts[r].mentions = <<>> /\ Creating(r)
      BY <1>1, <2>1 DEF PostsTyped, Creating
    <2>3. ASSUME NEW u \in User PROVE inbox[posts[r].comment][u] = owed[posts[r].comment][u]
      <3>1. Left(posts[r], u) = 0
        BY <2>1, <2>2, TimesOfNone DEF Left
      <3>2. owed[posts[r].comment][u] = inbox[posts[r].comment][u] + Left(posts[r], u)
        BY <2>2 DEF TalkInv, OwedIsLeft
      <3>3. inbox[posts[r].comment][u] \in Nat
        BY <1>1, <2>2 DEF D!TypeOK
      <3> QED
        BY <3>1, <3>2, <3>3
    <2>4. /\ comments' \in [Comment -> D!CommentRow] /\ \A c \in Comment : comments'[c] = comments[c]
          /\ crossed \subseteq crossed' /\ crossed' \subseteq Comment
          /\ cut \subseteq cut' /\ cut' \subseteq Comment
      BY <1>1, <2>1, <2>3 DEF D!TypeOK
    <2>5. \A s \in Client \ {r} : Saving(s) => comments'[posts[s].comment] = comments[posts[s].comment]
      BY <2>1
    <2> QED
      BY <2>1, <2>3, <2>4, <2>5, EndKeepsTalk
  <1>3. CASE D!WriteComment(r)
    <2> DEFINE c == posts[r].comment
               saved(f) == D!Written(f, posts[r].plan, posts[r].entity, comments[c])
               row == [comments[c] EXCEPT !.text = saved("text"), !.deletedAt = saved("deletedAt"),
                                          !.parent = saved("parent")]
    <2>1. /\ posts[r].pc = "write" /\ D!Ends(r) /\ UNCHANGED <<assignee, inbox, owed, cut>>
          /\ comments' = [comments EXCEPT ![c] = row]
          /\ crossed' = IF \E x \in Client \ {r} : posts[x].comment = c /\ posts[x].pc \in {"select", "write"}
                        THEN crossed \cup {c} ELSE crossed
      BY <1>3 DEF D!WriteComment
    <2>2. /\ c \in Comment /\ comments[c] \in D!CommentRow /\ posts[r].entity \in D!CommentRow
          /\ ~ Creating(r) /\ Saving(r)
      BY <1>1, <2>1 DEF PostsTyped, D!TypeOK, D!RequestState, Creating, Saving
    <2>3. row \in D!CommentRow /\ row.row = comments[c].row
      <3>1. saved("text") \in Text /\ saved("deletedAt") \in {"null", "recent"} /\ saved("parent") \in Comment \cup {Nobody}
        BY <2>2 DEF D!Written, D!CommentRow
      <3> HIDE DEF saved
      <3> QED
        BY <2>2, <3>1 DEF D!CommentRow
    <2> HIDE DEF row
    <2>4. /\ comments' \in [Comment -> D!CommentRow]
          /\ \A x \in Comment : comments'[x] = IF x = c THEN row ELSE comments[x]
      BY <1>1, <2>1, <2>2, <2>3 DEF D!TypeOK
    <2>5. \A x \in Comment : \/ comments'[x] = comments[x]
                             \/ Saving(r) /\ x = posts[r].comment /\ comments'[x].row = comments[x].row
      BY <2>2, <2>3, <2>4
    <2>6. crossed \subseteq crossed' /\ crossed' \subseteq Comment
      BY <1>1, <2>1, <2>2 DEF D!TypeOK
    <2>7. ASSUME NEW s \in Client \ {r}, Saving(s)
          PROVE  posts[s].comment \in crossed' \/ comments'[posts[s].comment] = comments[posts[s].comment]
      <3>1. posts[s].comment \in Comment
        BY <1>1, <2>7 DEF PostsTyped, Saving
      <3>2. CASE posts[s].comment = c
        BY <2>1, <2>7, <3>2 DEF Saving
      <3>3. CASE posts[s].comment # c
        BY <2>4, <3>1, <3>3
      <3> QED
        BY <3>2, <3>3
    <2>8. cut \subseteq cut' /\ cut' \subseteq Comment
      BY <1>1, <2>1 DEF D!TypeOK
    <2> HIDE DEF c
    <2> QED
      BY <2>1, <2>2, <2>4, <2>5, <2>6, <2>7, <2>8, EndKeepsTalk
  <1>4. CASE D!Abort(r)
    <2>1. /\ posts[r].pc # "idle" /\ D!Ends(r) /\ UNCHANGED <<assignee, comments, inbox, owed, crossed>>
          /\ cut' = cut \cup ({posts[r].comment} \cap {c \in Comment : posts[r].pc \in {"insert", "mention", "concern"}})
      BY <1>4 DEF D!Abort
    <2>2. posts[r].comment \in Comment
      BY <1>1, <2>1 DEF PostsTyped
    <2>3. cut \subseteq cut' /\ cut' \subseteq Comment /\ (Creating(r) => posts[r].comment \in cut')
      BY <1>1, <2>1, <2>2 DEF D!TypeOK, Creating
    <2>4. /\ comments' \in [Comment -> D!CommentRow] /\ \A c \in Comment : comments'[c] = comments[c]
          /\ crossed \subseteq crossed' /\ crossed' \subseteq Comment
          /\ cut \subseteq cut' /\ cut' \subseteq Comment
      BY <1>1, <2>1, <2>3 DEF D!TypeOK
    <2>5. \A s \in Client \ {r} : Saving(s) => comments'[posts[s].comment] = comments[posts[s].comment]
      BY <2>1
    <2> QED
      BY <2>1, <2>3, <2>4, <2>5, EndKeepsTalk
  <1> QED
    BY <1>2, <1>3, <1>4

\* A step of the request that creates a comment, at most notifying one user.
LEMMA CreationKeepsTalk ==
  ASSUME TalkInv, NEW r \in Client, NEW q \in D!RequestState, D!Becomes(r, q), Creating(r),
         q.pc \in {"mention", "concern"}, q.comment = posts[r].comment,
         q.pc = "concern" => q.mentions = <<>>,
         UNCHANGED <<assignee, owed, cut, crossed>>,
         comments' \in [Comment -> D!CommentRow],
         \A c \in Comment : \/ comments'[c] = comments[c]
                            \/ c = posts[r].comment /\ posts[r].pc = "insert" /\ comments'[c].row = "there",
         posts[r].pc = "insert" => comments'[posts[r].comment].row = "there",
         inbox' \in [Comment -> [User -> Nat]],
         \A c \in Comment : c # posts[r].comment => inbox'[c] = inbox[c],
         \A u \in User : inbox'[posts[r].comment][u] + Left(q, u) = inbox[posts[r].comment][u] + Left(posts[r], u)
  PROVE  TalkInv'
  <1>1. /\ posts' \in [Client -> D!RequestState]
        /\ \A s \in Client : posts'[s] = IF s = r THEN q ELSE posts[s]
    BY PostMoves DEF TalkInv
  <1>2. D!TypeOK'
    BY <1>1 DEF TalkInv, D!TypeOK
  <1>3. posts[r].comment \in Comment
    BY DEF TalkInv, PostsTyped, Creating
  <1>4. PostsTyped'
    BY <1>1, <1>3 DEF TalkInv, PostsTyped
  <1>5. \A s \in Client : /\ Creating(s)' <=> Creating(s)
                          /\ Saving(s)' <=> Saving(s)
                          /\ posts'[s].comment = posts[s].comment
                          /\ s # r => posts'[s] = posts[s]
    <2> SUFFICES ASSUME NEW s \in Client
                 PROVE  /\ Creating(s)' <=> Creating(s)
                        /\ Saving(s)' <=> Saving(s)
                        /\ posts'[s].comment = posts[s].comment
                        /\ s # r => posts'[s] = posts[s]
      OBVIOUS
    <2>1. CASE s = r
      BY <1>1, <2>1 DEF Creating, Saving
    <2>2. CASE s # r
      BY <1>1, <2>2 DEF Creating, Saving
    <2> QED
      BY <2>1, <2>2
  <1>6. CreatedOnce'
    <2>1. \A s, x \in Client : Creating(s)' /\ Creating(x)' /\ posts'[s].comment = posts'[x].comment => s = x
      BY <1>5 DEF TalkInv, CreatedOnce
    <2>2. ASSUME NEW s \in Client, posts'[s].pc = "insert" PROVE comments'[posts'[s].comment].row = "none"
      <3>1. s # r /\ posts'[s] = posts[s]
        BY <1>1, <2>2
      <3>2. Creating(s) /\ posts[s].comment \in Comment
        BY <2>2, <3>1 DEF Creating, TalkInv, PostsTyped
      <3>3. posts[s].comment # posts[r].comment /\ comments[posts[s].comment].row = "none"
        BY <2>2, <3>1, <3>2 DEF TalkInv, CreatedOnce
      <3> QED
        BY <3>1, <3>2, <3>3
    <2>3. ASSUME NEW s \in Client, posts'[s].pc \in {"mention", "concern"}
          PROVE  comments'[posts'[s].comment].row = "there"
      <3>1. Creating(s) /\ posts'[s].comment = posts[s].comment /\ posts[s].comment \in Comment
        BY <1>5, <2>3 DEF Creating, TalkInv, PostsTyped
      <3>2. CASE s = r
        BY <3>1, <3>2 DEF Creating, TalkInv, CreatedOnce
      <3>3. CASE s # r
        <4>1. posts[s].comment # posts[r].comment /\ posts'[s] = posts[s]
          BY <1>5, <3>1, <3>3 DEF TalkInv, CreatedOnce
        <4>2. comments[posts[s].comment].row = "there"
          BY <2>3, <4>1 DEF TalkInv, CreatedOnce
        <4> QED
          BY <3>1, <4>1, <4>2
      <3> QED
        BY <3>2, <3>3
    <2>4. ASSUME NEW c \in Comment, comments'[c].row = "none", NEW u \in User PROVE inbox'[c][u] = 0
      <3>1. comments[c].row = "none" /\ inbox[c][u] = 0
        BY <2>4 DEF TalkInv, CreatedOnce
      <3>2. CASE c # posts[r].comment
        BY <3>1, <3>2
      <3>3. CASE c = posts[r].comment
        BY <2>4, <3>1, <3>3 DEF Creating, TalkInv, CreatedOnce
      <3> QED
        BY <3>2, <3>3
    <2> QED
      BY <2>1, <2>2, <2>3, <2>4 DEF CreatedOnce
  <1>7. OwedIsLeft'
    <2> SUFFICES ASSUME NEW s \in Client, Creating(s)', NEW u \in User
                 PROVE  owed'[posts'[s].comment][u] = inbox'[posts'[s].comment][u] + Left(posts'[s], u)
      BY DEF OwedIsLeft
    <2>1. Creating(s) /\ posts'[s].comment = posts[s].comment /\ posts[s].comment \in Comment
      BY <1>5 DEF TalkInv, PostsTyped, Creating
    <2>2. owed[posts[s].comment][u] = inbox[posts[s].comment][u] + Left(posts[s], u)
      BY <2>1 DEF TalkInv, OwedIsLeft
    <2>3. CASE s = r
      BY <1>1, <2>1, <2>2, <2>3
    <2>4. CASE s # r
      <3>1. posts[s].comment # posts[r].comment
        BY <2>1, <2>4 DEF TalkInv, CreatedOnce
      <3> QED
        BY <1>5, <2>1, <2>2, <2>4, <3>1
    <2> QED
      BY <2>3, <2>4
  <1>8. SavedApart'
    <2> SUFFICES ASSUME NEW s \in Client, Saving(s), posts[s].comment \notin crossed
                 PROVE  LET c == posts[s].comment
                        IN /\ comments'[c].row = "there" /\ comments'[c].deletedAt = "null"
                           /\ posts'[s].entity.parent = comments'[c].parent
      BY <1>5 DEF SavedApart
    <2>1. /\ comments[posts[s].comment].row = "there" /\ posts[s].comment \in Comment
          /\ comments[posts[s].comment].deletedAt = "null"
          /\ posts[s].entity.parent = comments[posts[s].comment].parent
      BY DEF TalkInv, SavedApart, PostsTyped, Saving
    <2>2. s # r /\ posts'[s] = posts[s]
      BY <1>5 DEF Saving, Creating
    <2>3. comments'[posts[s].comment] = comments[posts[s].comment]
      BY <2>1 DEF TalkInv, CreatedOnce
    <2> QED
      BY <2>1, <2>2, <2>3
  <1>9. ConcernedAreTold'
    <2> SUFFICES ASSUME NEW c \in Comment
                 PROVE  \/ \E s \in Client : Creating(s)' /\ posts'[s].comment = c
                        \/ /\ inbox'[c] = inbox[c] /\ owed'[c] = owed[c] /\ (c \in cut => c \in cut')
                           /\ \A s \in Client : ~ (Creating(s) /\ posts[s].comment = c)
      BY <1>2, <1>7, ToldStays DEF TalkInv
    <2> QED
      BY <1>5
  <1> QED
    BY <1>2, <1>4, <1>6, <1>7, <1>8, <1>9 DEF TalkInv

LEMMA CreationsKeepTalk ==
  ASSUME TalkInv, NEW r \in Client, D!InsertComment(r) \/ D!NotifyMentioned(r)
  PROVE  TalkInv'
  <1> DEFINE c == posts[r].comment
  <1>1. /\ posts[r] \in D!RequestState /\ D!TypeOK /\ PostsTyped
        /\ \A x \in Comment, u \in User : inbox[x][u] \in Nat
    BY DEF TalkInv, D!TypeOK
  <1>2. posts[r].entity \in D!CommentRow /\ posts[r].mentions \in Seq(User)
    BY <1>1 DEF D!RequestState
  <1>3. CASE D!InsertComment(r)
    <2> DEFINE q == [posts[r] EXCEPT !.pc = "mention"]
    <2>1. /\ posts[r].pc = "insert" /\ D!Becomes(r, q) /\ comments' = [comments EXCEPT ![c] = posts[r].entity]
          /\ UNCHANGED <<assignee, inbox, owed, cut, crossed>>
      BY <1>3 DEF D!InsertComment, D!histories
    <2>2. /\ q \in D!RequestState /\ q.pc = "mention" /\ q.comment = c /\ q.entity = posts[r].entity
          /\ q.mentions = posts[r].mentions /\ q.concerned = posts[r].concerned /\ q.names = posts[r].names
      BY <1>1 DEF D!RequestState
    <2>3. c \in Comment /\ Creating(r) /\ posts[r].entity.row = "there"
      BY <1>1, <2>1 DEF PostsTyped, Creating
    <2>4. /\ comments' \in [Comment -> D!CommentRow]
          /\ \A x \in Comment : comments'[x] = IF x = c THEN posts[r].entity ELSE comments[x]
      BY <1>1, <1>2, <2>1, <2>3 DEF D!TypeOK
    <2>5. \A u \in User : Left(q, u) = Left(posts[r], u)
      BY <2>2 DEF Left
    <2>6. inbox' \in [Comment -> [User -> Nat]] /\ inbox' = inbox
      BY <1>1, <2>1 DEF D!TypeOK
    <2> HIDE DEF q
    <2> QED
      BY <2>1, <2>2, <2>3, <2>4, <2>5, <2>6, CreationKeepsTalk
  <1>4. CASE D!NotifyMentioned(r)
    <2> DEFINE h == Head(posts[r].mentions)
               q == [posts[r] EXCEPT !.mentions = Tail(@)]
    <2>1. /\ posts[r].pc = "mention" /\ posts[r].mentions # <<>> /\ D!Becomes(r, q)
          /\ IF h # posts[r].entity.author THEN D!Notify(c, h) ELSE UNCHANGED inbox
          /\ UNCHANGED <<assignee, comments, owed, cut, crossed>>
      BY <1>4 DEF D!NotifyMentioned, D!histories
    <2>2. Tail(posts[r].mentions) \in Seq(User) /\ h \in User
      BY <1>2, <2>1
    <2>3. /\ q \in D!RequestState /\ q.pc = "mention" /\ q.comment = c /\ q.entity = posts[r].entity
          /\ q.mentions = Tail(posts[r].mentions) /\ q.concerned = posts[r].concerned /\ q.names = posts[r].names
      BY <1>1, <2>1, <2>2 DEF D!RequestState
    <2>4. c \in Comment /\ Creating(r)
      BY <1>1, <2>1 DEF PostsTyped, Creating
    <2>5. /\ inbox' \in [Comment -> [User -> Nat]]
          /\ \A x \in Comment : x # c => inbox'[x] = inbox[x]
          /\ \A u \in User : inbox'[c][u] = inbox[c][u] + IF u = h /\ u # posts[r].entity.author THEN 1 ELSE 0
      <3>1. CASE h # posts[r].entity.author
        <4>1. inbox' = [inbox EXCEPT ![c][h] = @ + 1]
          BY <2>1, <3>1 DEF D!Notify
        <4> QED
          BY <1>1, <2>2, <2>4, <3>1, <4>1 DEF D!TypeOK
      <3>2. CASE h = posts[r].entity.author
        BY <1>1, <2>1, <2>4, <3>2 DEF D!TypeOK
      <3> QED
        BY <3>1, <3>2
    <2>6. ASSUME NEW u \in User
          PROVE  inbox'[c][u] + Left(q, u) = inbox[c][u] + Left(posts[r], u)
      <3>1. D!Times(posts[r].mentions, u) = D!Times(q.mentions, u) + IF h = u THEN 1 ELSE 0
        BY <1>2, <2>1, <2>3, TimesOfTail
      <3>2. D!Times(posts[r].mentions, u) \in Nat /\ D!Times(q.mentions, u) \in Nat /\ inbox[c][u] \in Nat
        BY <1>1, <1>2, <2>2, <2>3, <2>4, TimesIsNat
      <3> HIDE DEF q, h
      <3> QED
        BY <2>3, <2>4, <2>5, <3>1, <3>2 DEF Left
    <2>7. comments' \in [Comment -> D!CommentRow] /\ comments' = comments
      BY <1>1, <2>1 DEF D!TypeOK
    <2> HIDE DEF q, h
    <2> QED
      BY <2>1, <2>3, <2>4, <2>5, <2>6, <2>7, CreationKeepsTalk
  <1> QED
    BY <1>3, <1>4

LEMMA ConcernKeepsTalk ==
  ASSUME TalkInv, NEW r \in Client, NEW h \in User, D!NotifyConcerned(r, h)
  PROVE  TalkInv'
  <1> DEFINE c == posts[r].comment
             q == [posts[r] EXCEPT !.concerned = @ \ {h}]
  <1>1. /\ posts[r] \in D!RequestState /\ D!TypeOK /\ PostsTyped
        /\ \A x \in Comment, u \in User : inbox[x][u] \in Nat
    BY DEF TalkInv, D!TypeOK
  <1>2. /\ posts[r].pc = "concern" /\ h \in posts[r].concerned /\ D!Becomes(r, q)
        /\ IF h \in posts[r].names THEN UNCHANGED inbox ELSE D!Notify(c, h)
        /\ UNCHANGED <<assignee, comments, owed, cut, crossed>>
    BY DEF D!NotifyConcerned, D!histories, D!Told
  <1>3. /\ q \in D!RequestState /\ q.pc = "concern" /\ q.comment = c /\ q.entity = posts[r].entity
        /\ q.mentions = posts[r].mentions /\ q.concerned = posts[r].concerned \ {h} /\ q.names = posts[r].names
    BY <1>1, <1>2 DEF D!RequestState
  <1>4. c \in Comment /\ Creating(r) /\ posts[r].mentions = <<>> /\ posts[r].mentions \in Seq(User)
    BY <1>1, <1>2 DEF PostsTyped, Creating, D!RequestState
  <1>5. /\ inbox' \in [Comment -> [User -> Nat]]
        /\ \A x \in Comment : x # c => inbox'[x] = inbox[x]
        /\ \A u \in User : inbox'[c][u] = inbox[c][u] + IF u = h /\ u \notin posts[r].names THEN 1 ELSE 0
    <2>1. CASE h \notin posts[r].names
      <3>1. inbox' = [inbox EXCEPT ![c][h] = @ + 1]
        BY <1>2, <2>1 DEF D!Notify
      <3> QED
        BY <1>1, <1>4, <2>1, <3>1 DEF D!TypeOK
    <2>2. CASE h \in posts[r].names
      BY <1>1, <1>2, <1>4, <2>2 DEF D!TypeOK
    <2> QED
      BY <2>1, <2>2
  <1>6. ASSUME NEW u \in User
        PROVE  inbox'[c][u] + Left(q, u) = inbox[c][u] + Left(posts[r], u)
    <2>1. D!Times(posts[r].mentions, u) \in Nat /\ inbox[c][u] \in Nat
      BY <1>1, <1>4, TimesIsNat
    <2> DEFINE told == IF u = posts[r].entity.author THEN 0 ELSE D!Times(posts[r].mentions, u)
    <2>2. told \in Nat
      BY <2>1
    <2>3. /\ Left(q, u) = told + IF u \in (posts[r].concerned \ {h}) \ posts[r].names THEN 1 ELSE 0
          /\ Left(posts[r], u) = told + IF u \in posts[r].concerned \ posts[r].names THEN 1 ELSE 0
      BY <1>3 DEF Left
    <2> HIDE DEF q, told
    <2> QED
      BY <1>2, <1>5, <2>1, <2>2, <2>3
  <1>7. comments' \in [Comment -> D!CommentRow] /\ comments' = comments
    BY <1>1, <1>2 DEF D!TypeOK
  <1> HIDE DEF q
  <1> QED
    BY <1>2, <1>3, <1>4, <1>5, <1>6, <1>7, CreationKeepsTalk

LEMMA BeginKeepsTalk ==
  ASSUME TalkInv, NEW r \in Client, NEW c \in Comment, NEW a \in User,
         NEW parent \in Comment \cup {Nobody}, NEW mentions \in Mentions,
         D!BeginCreate(r, c, a, parent, mentions)
  PROVE  TalkInv'
  <1> DEFINE entity == [D!NoComment EXCEPT !.row = "there", !.author = a, !.parent = parent]
             concerned == {Creator, assignee} \ {a, Nobody}
             q == [D!Idle EXCEPT !.pc = "insert", !.comment = c, !.mentions = mentions, !.entity = entity,
                                 !.names = D!Names(mentions), !.concerned = concerned]
             owes(x) == IF x = a THEN 0
                        ELSE IF x \in {Creator, assignee} \ D!Names(mentions) THEN 1
                        ELSE D!Times(mentions, x)
  <1>1. D!TypeOK /\ mentions \in Seq(User) /\ Creator \in User /\ Nobody \notin User
    BY PartsAssumption DEF TalkInv
  <1>2. /\ posts[r].pc = "idle" /\ comments[c].row = "none" /\ \A s \in Client : posts[s].comment # c
        /\ D!Becomes(r, q) /\ owed' = [owed EXCEPT ![c] = [x \in User |-> owes(x)]]
        /\ UNCHANGED <<assignee, comments, inbox, cut, crossed>>
    BY DEF D!BeginCreate
  <1>3. entity \in D!CommentRow /\ entity.author = a /\ entity.row = "there"
    BY BlankRows DEF D!CommentRow, D!RowState
  <1>4. D!Names(mentions) \subseteq User /\ concerned \subseteq User
    BY <1>1, <1>2 DEF D!Names, D!TypeOK
  <1> HIDE DEF entity
  <1>5. /\ q \in D!RequestState /\ q.pc = "insert" /\ q.comment = c /\ q.mentions = mentions
        /\ q.entity = entity /\ q.names = D!Names(mentions) /\ q.concerned = concerned
    BY <1>1, <1>3, <1>4, BlankRows DEF D!RequestState
  <1> HIDE DEF q
  <1>6. /\ posts' \in [Client -> D!RequestState]
        /\ \A s \in Client : posts'[s] = IF s = r THEN q ELSE posts[s]
    BY <1>1, <1>2, <1>5, PostMoves
  <1>7. ASSUME NEW u \in User PROVE owes(u) \in Nat /\ owes(u) = Left(q, u)
    <2>1. D!Times(mentions, u) \in Nat
      BY <1>1, TimesIsNat
    <2>2. u \notin D!Names(mentions) => D!Times(mentions, u) = 0
      BY <1>1, TimesUnnamed
    <2>3. Left(q, u) = (IF u = a THEN 0 ELSE D!Times(mentions, u))
                       + (IF u \in concerned \ D!Names(mentions) THEN 1 ELSE 0)
      BY <1>3, <1>5 DEF Left
    <2> QED
      BY <1>1, <2>1, <2>2, <2>3
  <1>8. /\ owed' \in [Comment -> [User -> Nat]]
        /\ \A x \in Comment : x # c => owed'[x] = owed[x]
        /\ \A u \in User : owed'[c][u] = owes(u)
    <2>1. [x \in User |-> owes(x)] \in [User -> Nat]
      BY <1>7
    <2> HIDE DEF owes
    <2> QED
      BY <1>1, <1>2, <2>1 DEF D!TypeOK
  <1> HIDE DEF owes
  <1>9. D!TypeOK'
    BY <1>1, <1>2, <1>6, <1>8 DEF D!TypeOK
  <1>10. PostsTyped'
    BY <1>3, <1>5, <1>6 DEF TalkInv, PostsTyped
  <1>11. CreatedOnce'
    BY <1>2, <1>5, <1>6 DEF TalkInv, CreatedOnce, Creating
  <1>12. OwedIsLeft'
    <2> SUFFICES ASSUME NEW s \in Client, Creating(s)', NEW u \in User
                 PROVE  owed'[posts'[s].comment][u] = inbox[posts'[s].comment][u] + Left(posts'[s], u)
      BY <1>2 DEF OwedIsLeft
    <2>1. CASE s = r
      <3>1. inbox[c][u] = 0 /\ Left(q, u) \in Nat
        BY <1>2, <1>7 DEF TalkInv, CreatedOnce
      <3> QED
        BY <1>5, <1>6, <1>7, <1>8, <2>1, <3>1
    <2>2. CASE s # r
      <3>1. Creating(s) /\ posts'[s] = posts[s] /\ posts[s].comment # c
        BY <1>2, <1>6, <2>2 DEF Creating
      <3>2. posts[s].comment \in Comment
        BY <3>1 DEF TalkInv, PostsTyped, Creating
      <3>3. owed[posts[s].comment][u] = inbox[posts[s].comment][u] + Left(posts[s], u)
        BY <3>1 DEF TalkInv, OwedIsLeft
      <3> QED
        BY <1>8, <3>1, <3>2, <3>3
    <2> QED
      BY <2>1, <2>2
  <1>13. SavedApart'
    BY <1>2, <1>5, <1>6 DEF TalkInv, SavedApart, Saving
  <1>14. ConcernedAreTold'
    <2> SUFFICES ASSUME NEW x \in Comment
                 PROVE  \/ \E s \in Client : Creating(s)' /\ posts'[s].comment = x
                        \/ /\ inbox'[x] = inbox[x] /\ owed'[x] = owed[x] /\ (x \in cut => x \in cut')
                           /\ \A s \in Client : ~ (Creating(s) /\ posts[s].comment = x)
      BY <1>9, <1>12, ToldStays DEF TalkInv
    <2>1. CASE x = c
      BY <1>5, <1>6, <2>1 DEF Creating
    <2>2. CASE x # c
      <3>1. ASSUME NEW s \in Client, Creating(s), posts[s].comment = x
            PROVE  Creating(s)' /\ posts'[s].comment = x
        BY <1>2, <1>6, <3>1 DEF Creating
      <3> QED
        BY <1>2, <1>8, <2>2, <3>1
    <2> QED
      BY <2>1, <2>2
  <1> QED
    BY <1>9, <1>10, <1>11, <1>12, <1>13, <1>14 DEF TalkInv

\* Nothing that the invariant speaks of changes.
LEMMA TalkUnchanged ==
  ASSUME TalkInv, assignee' \in User \cup {Nobody}, UNCHANGED <<comments, posts, inbox, owed, cut, crossed>>
  PROVE  TalkInv'
  BY DEF TalkInv, D!TypeOK, PostsTyped, CreatedOnce, OwedIsLeft, SavedApart, Creating, Saving,
         ConcernedAreTold, D!ConcernedAreTold

LEMMA NextKeepsTalk == TalkInv /\ [D!Next]_discussions => TalkInv'
  <1> SUFFICES ASSUME TalkInv, [D!Next]_discussions PROVE TalkInv'
    OBVIOUS
  <1>1. CASE UNCHANGED discussions
    BY <1>1, TalkUnchanged DEF discussions, TalkInv, D!TypeOK
  <1>2. CASE D!Begins
    BY <1>2, BeginKeepsTalk, LoadKeepsTalk DEF D!Begins
  <1>3. CASE D!Continues
    BY <1>3, CreationsKeepTalk, ConcernKeepsTalk, BareStepsKeepTalk, EndsKeepTalk DEF D!Continues
  <1>4. ASSUME NEW u \in User \cup {Nobody}, D!Assign(u) PROVE TalkInv'
    BY <1>4, TalkUnchanged DEF D!Assign, D!histories
  <1> QED
    BY <1>1, <1>2, <1>3, <1>4 DEF D!Next

\* Whatever lists of mentions clients send, to whomever the task is assigned
\* meanwhile, and wherever requests fail: nobody gets more notifications of a
\* comment than it owes, and those it owes are sent or were cut short.
THEOREM AllConcernedAreTold == D!Spec => []ConcernedAreTold
  <1>1. TalkInv => ConcernedAreTold
    BY DEF TalkInv
  <1> QED
    BY InitTalk, NextKeepsTalk, <1>1, PTL DEF D!Spec, D!vars, D!histories, discussions

\* Comments, requests, notifications and histories keep their types.
THEOREM TalkTyped == D!Spec => []D!TypeOK
  <1>1. TalkInv => D!TypeOK
    BY DEF TalkInv
  <1> QED
    BY InitTalk, NextKeepsTalk, <1>1, PTL DEF D!Spec, D!vars, D!histories, discussions

\* What the property asks of a step.
CommentsStay ==
    \A c \in Comment \ crossed' :
       comments[c].row = "there" =>
          /\ comments[c].deletedAt = "recent" => comments'[c].deletedAt = "recent"
          /\ comments'[c].parent = comments[c].parent

LEMMA NextKeepsComments == TalkInv /\ [D!Next]_discussions => CommentsStay
  <1> SUFFICES ASSUME TalkInv, [D!Next]_discussions PROVE CommentsStay
    OBVIOUS
  <1>1. ASSUME UNCHANGED comments PROVE CommentsStay
    BY <1>1 DEF CommentsStay
  <1>2. ASSUME NEW r \in Client, D!InsertComment(r) PROVE CommentsStay
    <2>1. posts[r].pc = "insert" /\ comments' = [comments EXCEPT ![posts[r].comment] = posts[r].entity]
      BY <1>2 DEF D!InsertComment
    <2>2. comments[posts[r].comment].row = "none"
      BY <2>1 DEF TalkInv, CreatedOnce
    <2> QED
      BY <2>1, <2>2 DEF CommentsStay, TalkInv, D!TypeOK
  <1>3. ASSUME NEW r \in Client, D!WriteComment(r) PROVE CommentsStay
    <2> DEFINE x == posts[r].comment
               saved(f) == D!Written(f, posts[r].plan, posts[r].entity, comments[x])
    <2>1. /\ posts[r].pc = "write"
          /\ comments' = [comments EXCEPT ![x] = [@ EXCEPT !.text = saved("text"), !.deletedAt = saved("deletedAt"),
                                                          !.parent = saved("parent")]]
          /\ crossed \subseteq crossed'
      BY <1>3 DEF D!WriteComment
    <2>2. x \in Comment /\ comments[x] \in D!CommentRow /\ comments \in [Comment -> D!CommentRow]
      BY <2>1 DEF TalkInv, PostsTyped, D!TypeOK
    <2>3. x \in crossed' \/ (comments[x].deletedAt = "null" /\ posts[r].entity.parent = comments[x].parent)
      BY <2>1 DEF TalkInv, SavedApart, Saving
    <2>4. ASSUME x \notin crossed'
          PROVE  comments[x].deletedAt # "recent" /\ saved("parent") = comments[x].parent
      BY <2>3, <2>4 DEF D!Written
    <2> HIDE DEF saved
    <2>5. /\ comments'[x].parent = saved("parent")
          /\ \A c \in Comment : c # x => comments'[c] = comments[c]
      BY <2>1, <2>2 DEF D!CommentRow
    <2> QED
      BY <2>2, <2>4, <2>5 DEF CommentsStay
  <1>4. CASE UNCHANGED discussions
    BY <1>1, <1>4 DEF discussions
  <1>5. CASE D!Begins
    BY <1>1, <1>5 DEF D!Begins, D!BeginCreate, D!LoadComment
  <1>6. CASE D!Continues
    BY <1>1, <1>2, <1>3, <1>6 DEF D!Continues, D!NotifyMentioned, D!EndMentions, D!NotifyConcerned,
       D!LogActivity, D!SelectComment, D!Abort
  <1>7. ASSUME NEW u \in User \cup {Nobody}, D!Assign(u) PROVE CommentsStay
    BY <1>1, <1>7 DEF D!Assign
  <1> QED
    BY <1>4, <1>5, <1>6, <1>7 DEF D!Next

\* However many edits and deletions of a comment are in flight: one brings a
\* deleted comment back, or moves it, only when saves of it have crossed.
THEOREM DeletionsOfCommentsStay == D!Spec => DeletedCommentsStay
  <1>1. CommentsStay =>
          \A c \in Comment \ crossed' :
             D!Exists(comments[c]) =>
                /\ comments[c].deletedAt = "recent" => comments'[c].deletedAt = "recent"
                /\ comments'[c].parent = comments[c].parent
    BY DEF CommentsStay, D!Exists
  <1> QED
    BY InitTalk, NextKeepsTalk, NextKeepsComments, <1>1, PTL
       DEF D!Spec, D!vars, D!histories, discussions, DeletedCommentsStay, D!DeletedCommentsStay

------------------------------------------------------------------------------
(* Progress *)

\* What a request knows: whoever is to change a sub-task has one and recounts
\* afterwards.
Changing == {"select", "write", "remove"}

ChecklistAddressed(r) ==
    /\ recounts[r].pc \in Changing => recounts[r].subTask \in SubTask
    /\ recounts[r].pc \in Changing \cup {"insert"} => P!Recounts(recounts[r].kind)

\* A percentage that no change has overtaken is that of the checklist.
FreshIsRight ==
    \A r \in fresh : recounts[r].pc = "store" /\ recounts[r].percent = P!CurrentPercent

ProgressInv ==
    /\ P!TypeOK /\ FreshIsRight /\ P!ProgressIsExact
    /\ \A r \in Client : ChecklistAddressed(r)

------------------------------------------------------------------------------
(* Percentages *)

\* Rounding up does not pass 100.
LEMMA RoundedShare ==
  ASSUME NEW all \in Nat \ {0}, NEW done \in 0..all
  PROVE  (200 * done + all) \div (2 * all) \in 0..100
  <1> DEFINE n == 200 * done + all
             d == 2 * all
             q == n \div d
  <1>1. n \in Nat /\ d \in Nat \ {0} /\ n < 101 * d
    OBVIOUS
  <1> HIDE DEF n, d
  <1>2. q \in Int /\ q >= 0 /\ q * d <= n
    BY <1>1
  <1>3. q < 101
    <2>1. SUFFICES ASSUME q >= 101 PROVE FALSE
      BY <1>2
    <2> HIDE DEF q
    <2>2. q * d >= 101 * d
      BY <1>1, <1>2, <2>1
    <2> QED
      BY <1>1, <1>2, <2>2
  <1> QED
    BY <1>2, <1>3 DEF n, d

LEMMA PercentInRange ==
  ASSUME NEW all \in Nat, NEW done \in Nat, done <= all
  PROVE  P!Percent(done, all) \in 0..100
  <1>1. CASE all = 0
    BY <1>1 DEF P!Percent
  <1>2. CASE all # 0
    BY <1>2, RoundedShare DEF P!Percent
  <1> QED
    BY <1>1, <1>2

LEMMA ChecklistCountedAlike == \A S : P!Cardinality(S) = Cardinality(S)
  BY DEF P!Cardinality, Cardinality

LEMMA CurrentPercentInRange == P!CurrentPercent \in 0..100
  <1> DEFINE done == {s \in P!Checklist : subTasks[s].completed}
  <1>1. IsFiniteSet(P!Checklist) /\ done \subseteq P!Checklist
    BY PartsAssumption, FS_Subset DEF P!Checklist
  <1>2. /\ Cardinality(P!Checklist) \in Nat /\ Cardinality(done) \in Nat
        /\ Cardinality(done) <= Cardinality(P!Checklist)
    BY <1>1, FS_Subset, FS_CardinalityType
  <1> QED
    BY <1>2, PercentInRange, ChecklistCountedAlike DEF P!CurrentPercent

LEMMA SameRowsSamePercent == UNCHANGED subTasks => P!CurrentPercent' = P!CurrentPercent
  BY DEF P!CurrentPercent, P!Checklist

------------------------------------------------------------------------------

LEMMA ProgressTypes ==
    /\ P!NoSubTaskRow \in P!SubTaskRow
    /\ [P!NoSubTaskRow EXCEPT !.row = "removed"] \in P!SubTaskRow
    /\ \A c \in BOOLEAN : [row |-> "there", completed |-> c] \in P!SubTaskRow
    /\ P!Idle \in P!RequestState
  <1>1. /\ P!NoSubTaskRow \in P!SubTaskRow
        /\ [P!NoSubTaskRow EXCEPT !.row = "removed"] \in P!SubTaskRow
        /\ \A c \in BOOLEAN : [row |-> "there", completed |-> c] \in P!SubTaskRow
    BY DEF P!NoSubTaskRow, P!SubTaskRow, P!RowState
  <1>2. /\ [s \in SubTask |-> P!NoSubTaskRow] \in [SubTask -> P!SubTaskRow]
        /\ [s \in SubTask |-> {}] \in [SubTask -> P!Plan]
    BY <1>1 DEF P!Plan
  <1>3. /\ "none" \in P!Kind \cup {"none"} /\ "idle" \in P!PC /\ {} \in P!Plan
        /\ 0 \in 0..100 /\ FALSE \in BOOLEAN /\ NoSubTask \in SubTask \cup {NoSubTask}
    BY DEF P!PC, P!Plan
  <1>4. P!Idle \in P!RequestState
    BY <1>1, <1>2, <1>3 DEF P!Idle, P!RequestState
  <1> QED
    BY <1>1, <1>4

LEMMA InitProgress == P!Init => ProgressInv
  <1> SUFFICES ASSUME P!Init PROVE ProgressInv
    OBVIOUS
  <1>1. P!TypeOK
    BY ProgressTypes DEF P!Init, P!TypeOK
  <1>2. P!Checklist = {} /\ {s \in P!Checklist : subTasks[s].completed} = {}
    BY DEF P!Init, P!Checklist, P!NoSubTaskRow, P!Exists
  <1>3. P!CurrentPercent = 0
    BY <1>2, FS_EmptySet, ChecklistCountedAlike DEF P!CurrentPercent, P!Percent
  <1>4. P!ProgressIsExact
    BY <1>3 DEF P!Init, P!ProgressIsExact
  <1>5. FreshIsRight /\ \A r \in Client : ChecklistAddressed(r)
    BY DEF P!Init, FreshIsRight, ChecklistAddressed, P!Idle, Changing
  <1> QED
    BY <1>1, <1>4, <1>5 DEF ProgressInv

\* A statement that changes none of the variables but its request.
LEMMA QuietKeepsProgress ==
  ASSUME ProgressInv, P!Quietly, NEW r \in Client, NEW q \in P!RequestState,
         recounts' = [recounts EXCEPT ![r] = q],
         recounts[r].pc \notin {"find", "store"},
         q.pc \in Changing => q.subTask \in SubTask,
         q.pc \in Changing \cup {"insert"} => P!Recounts(q.kind)
  PROVE  ProgressInv'
  <1>1. \A s \in Client : recounts'[s] = IF s = r THEN q ELSE recounts[s]
    BY DEF ProgressInv, P!TypeOK
  <1>2. P!CurrentPercent' = P!CurrentPercent /\ r \notin fresh
    BY SameRowsSamePercent DEF P!Quietly, ProgressInv, FreshIsRight
  <1>3. P!TypeOK'
    BY DEF P!Quietly, ProgressInv, P!TypeOK
  <1>4. FreshIsRight'
    BY <1>1, <1>2 DEF P!Quietly, ProgressInv, FreshIsRight, P!TypeOK
  <1>5. P!ProgressIsExact'
    BY <1>1, <1>2 DEF P!Quietly, ProgressInv, P!ProgressIsExact
  <1>6. \A s \in Client : ChecklistAddressed(s)'
    BY <1>1 DEF ProgressInv, ChecklistAddressed
  <1> QED
    BY <1>3, <1>4, <1>5, <1>6 DEF ProgressInv

LEMMA OvertakesOrKeeps ==
  ASSUME P!Overtakes PROVE fresh' = {} \/ (fresh' = fresh /\ P!CurrentPercent' = P!CurrentPercent)
  <1>1. CASE P!CurrentPercent' = P!CurrentPercent
    BY <1>1 DEF P!Overtakes
  <1>2. CASE P!CurrentPercent' # P!CurrentPercent
    BY <1>2 DEF P!Overtakes
  <1> QED
    BY <1>1, <1>2

\* A statement that changes sub-tasks and after which its request recounts.
LEMMA ChangeKeepsProgress ==
  ASSUME ProgressInv, NEW r \in Client, recounts[r].pc # "store", recounts[r].pc # "find",
         P!Recounts(recounts[r].kind), P!Proceeds(r), P!Overtakes,
         subTasks' \in [SubTask -> P!SubTaskRow], UNCHANGED <<progress, blame>>
  PROVE  ProgressInv'
  <1> DEFINE q == [P!Idle EXCEPT !.kind = recounts[r].kind, !.pc = "find"]
  <1>1. q \in P!RequestState /\ q.pc = "find" /\ recounts' = [recounts EXCEPT ![r] = q]
    BY ProgressTypes DEF P!Proceeds, P!Becomes, ProgressInv, P!TypeOK, P!RequestState, P!PC
  <1> HIDE DEF q
  <1>2. \A s \in Client : recounts'[s] = IF s = r THEN q ELSE recounts[s]
    BY <1>1 DEF ProgressInv, P!TypeOK
  <1>3. fresh' = {} \/ (fresh' = fresh /\ P!CurrentPercent' = P!CurrentPercent)
    BY OvertakesOrKeeps
  <1>4. r \notin fresh
    BY DEF ProgressInv, FreshIsRight
  <1>5. P!TypeOK'
    BY <1>1, <1>3 DEF ProgressInv, P!TypeOK
  <1>6. FreshIsRight'
    BY <1>2, <1>3, <1>4 DEF ProgressInv, FreshIsRight, P!TypeOK
  <1>7. P!ProgressIsExact'
    BY <1>1, <1>2 DEF P!ProgressIsExact
  <1>8. \A s \in Client : ChecklistAddressed(s)'
    BY <1>1, <1>2 DEF ProgressInv, ChecklistAddressed, Changing
  <1> QED
    BY <1>5, <1>6, <1>7, <1>8 DEF ProgressInv

\* A statement of a request that is to save or remove a sub-task.
LEMMA SavedSubTaskTyped ==
  ASSUME NEW plan \in P!Plan, NEW entity \in P!SubTaskRow, NEW row \in P!SubTaskRow
  PROVE  P!SavedSubTask(plan, entity, row) \in P!SubTaskRow
  BY DEF P!SavedSubTask, P!Written, P!SubTaskRow

LEMMA SubTaskStatementsKeep ==
  ASSUME ProgressInv, NEW r \in Client,
         (\E s \in SubTask : P!InsertSubTask(r, s)) \/ P!WriteSubTask(r) \/ P!RemoveSubTask(r)
  PROVE  ProgressInv'
  <1>1. recounts[r] \in P!RequestState /\ ChecklistAddressed(r)
    BY DEF ProgressInv, P!TypeOK
  <1>2. CASE \E s \in SubTask : P!InsertSubTask(r, s)
    <2>1. PICK s \in SubTask : P!InsertSubTask(r, s)
      BY <1>2
    <2>2. recounts[r].pc = "insert" /\ UNCHANGED <<progress, blame>> /\ P!Proceeds(r) /\ P!Overtakes
          /\ subTasks' = [subTasks EXCEPT ![s] = [row |-> "there", completed |-> FALSE]]
      BY <2>1 DEF P!InsertSubTask
    <2>3. subTasks' \in [SubTask -> P!SubTaskRow]
      BY <2>2, ProgressTypes DEF ProgressInv, P!TypeOK
    <2> QED
      BY <1>1, <2>2, <2>3, ChangeKeepsProgress DEF ChecklistAddressed
  <1>3. CASE P!RemoveSubTask(r)
    <2>1. recounts[r].pc = "remove" /\ UNCHANGED <<progress, blame>> /\ P!Proceeds(r) /\ P!Overtakes
      BY <1>3 DEF P!RemoveSubTask
    <2>2. subTasks' \in [SubTask -> P!SubTaskRow]
      BY <1>3, ProgressTypes DEF P!RemoveSubTask, ProgressInv, P!TypeOK
    <2> QED
      BY <1>1, <2>1, <2>2, ChangeKeepsProgress DEF ChecklistAddressed, Changing
  <1>4. CASE P!WriteSubTask(r)
    <2> DEFINE q == recounts[r]
               old == subTasks[q.subTask]
               row == P!SavedSubTask(q.plan, q.entity, old)
    <2>1. q.pc = "write" /\ UNCHANGED <<progress, blame>> /\ P!Overtakes
      BY <1>4 DEF P!WriteSubTask
    <2>2. q.subTask \in SubTask /\ row \in P!SubTaskRow
      BY <1>1, <2>1, SavedSubTaskTyped DEF ChecklistAddressed, Changing, P!RequestState, ProgressInv, P!TypeOK
    <2>3. subTasks' \in [SubTask -> P!SubTaskRow]
      <3> HIDE DEF row
      <3>1. subTasks' = [subTasks EXCEPT ![q.subTask] = row] \/ subTasks' = subTasks
        BY <1>4 DEF P!WriteSubTask, row
      <3> QED
        BY <2>2, <3>1 DEF ProgressInv, P!TypeOK
    <2>4. CASE P!SaveFails(q.plan, old)
      <3>1. UNCHANGED subTasks /\ recounts' = [recounts EXCEPT ![r] = P!Idle]
        BY <1>4, <2>4 DEF P!WriteSubTask, P!Ends, P!Becomes
      <3>2. P!CurrentPercent' = P!CurrentPercent /\ fresh' = fresh
        BY <2>1, <3>1, SameRowsSamePercent DEF P!Overtakes
      <3>3. P!Quietly
        BY <2>1, <3>1, <3>2 DEF P!Quietly
      <3>4. P!Idle \in P!RequestState /\ P!Idle.pc = "idle"
        BY ProgressTypes DEF P!Idle
      <3> QED
        BY <2>1, <3>1, <3>3, <3>4, QuietKeepsProgress DEF Changing
    <2>5. CASE ~P!SaveFails(q.plan, old)
      <3>1. P!Proceeds(r)
        BY <1>4, <2>5 DEF P!WriteSubTask
      <3> QED
        BY <1>1, <2>1, <2>3, <3>1, ChangeKeepsProgress DEF ChecklistAddressed, Changing
    <2> QED
      BY <2>4, <2>5
  <1> QED
    BY <1>2, <1>3, <1>4

\* The loads, the SELECTs and the reads of a reorder.
LEMMA QuietStatementsKeep ==
  ASSUME ProgressInv, NEW r \in Client,
         \/ P!BeginCreate(r) \/ P!SelectSubTask(r) \/ P!FindSiblings(r) \/ P!SelectSiblings(r)
         \/ P!LoadTask(r) \/ P!SelectTask(r)
         \/ \E s \in SubTask : P!LoadToDelete(r, s) \/ P!LoadToReorder(r, s)
         \/ \E s \in SubTask, kind \in {"update", "toggle"}, completed \in BOOLEAN :
                P!LoadToSave(r, kind, s, completed)
  PROVE  ProgressInv'
  <1>1. recounts[r] \in P!RequestState /\ ChecklistAddressed(r) /\ subTasks \in [SubTask -> P!SubTaskRow]
        /\ progress \in 0..100
    BY DEF ProgressInv, P!TypeOK
  <1>2. P!Idle \in P!RequestState /\ P!Idle.pc = "idle"
    BY ProgressTypes DEF P!Idle
  <1> DEFINE Leads(q) == /\ q \in P!RequestState /\ recounts' = [recounts EXCEPT ![r] = q]
                         /\ recounts[r].pc \notin {"find", "store"} /\ P!Quietly
                         /\ q.pc \in Changing => q.subTask \in SubTask
                         /\ q.pc \in Changing \cup {"insert"} => P!Recounts(q.kind)
  <1>3. ASSUME NEW q, Leads(q) PROVE ProgressInv'
    BY <1>3, QuietKeepsProgress
  <1>4. CASE P!BeginCreate(r)
    <2> DEFINE q == [P!Idle EXCEPT !.kind = "create", !.pc = "insert"]
    <2>1. q \in P!RequestState /\ q.pc = "insert" /\ q.kind = "create"
      BY <1>2 DEF P!RequestState, P!PC, P!Kind
    <2>2. Leads(q)
      BY <1>4, <2>1 DEF P!BeginCreate, P!Becomes, Changing, P!Recounts
    <2> QED
      BY <1>3, <2>2
  <1>5. CASE P!SelectSubTask(r)
    <2> DEFINE plan == P!SavePlan(recounts[r].entity, subTasks[recounts[r].subTask])
               q == [recounts[r] EXCEPT !.pc = "write", !.plan = plan]
    <2>1. plan \in P!Plan
      BY <1>1 DEF P!SavePlan, P!Plan, P!RequestState, P!SubTaskRow
    <2> HIDE DEF plan
    <2>2. q \in P!RequestState /\ q.pc = "write" /\ q.kind = recounts[r].kind
          /\ q.subTask = recounts[r].subTask
      BY <1>1, <2>1 DEF P!RequestState, P!PC
    <2>3. recounts[r].pc = "select" /\ P!Quietly /\ recounts' = [recounts EXCEPT ![r] = q]
      BY <1>5 DEF P!SelectSubTask, P!Becomes, plan
    <2>4. Leads(q)
      BY <1>1, <2>2, <2>3 DEF ChecklistAddressed, Changing
    <2> QED
      BY <1>3, <2>4
  <1>6. CASE P!FindSiblings(r)
    <2> DEFINE read == [s \in SubTask |-> IF s \in P!Checklist THEN subTasks[s] ELSE P!NoSubTaskRow]
               q == [recounts[r] EXCEPT !.pc = "siblingsSelect", !.siblings = read]
    <2>1. read \in [SubTask -> P!SubTaskRow]
      BY <1>1, ProgressTypes
    <2> HIDE DEF read
    <2>2. q \in P!RequestState /\ q.pc = "siblingsSelect"
      BY <1>1, <2>1 DEF P!RequestState, P!PC
    <2>3. /\ recounts[r].pc = "siblings" /\ P!Quietly
          /\ \/ recounts' = [recounts EXCEPT ![r] = q]
             \/ recounts' = [recounts EXCEPT ![r] = P!Idle]
      BY <1>6 DEF P!FindSiblings, P!Becomes, P!Ends, read
    <2>4. Leads(q) \/ Leads(P!Idle)
      BY <1>2, <2>2, <2>3 DEF Changing
    <2> QED
      BY <1>3, <2>4
  <1>7. CASE P!SelectSiblings(r)
    <2> DEFINE plan(s) == IF P!Exists(recounts[r].siblings[s])
                          THEN P!SavePlan(recounts[r].siblings[s], subTasks[s]) ELSE {}
               plans == [s \in SubTask |-> plan(s)]
               q == [recounts[r] EXCEPT !.pc = "siblingsWrite", !.siblingPlans = plans]
    <2>1. ASSUME NEW s \in SubTask PROVE plan(s) \in P!Plan
      BY <1>1 DEF P!SavePlan, P!Plan, P!RequestState, P!SubTaskRow
    <2>2. plans \in [SubTask -> P!Plan]
      BY <2>1
    <2> HIDE DEF plans
    <2>3. q \in P!RequestState /\ q.pc = "siblingsWrite"
      BY <1>1, <2>2 DEF P!RequestState, P!PC
    <2>4. recounts[r].pc = "siblingsSelect" /\ P!Quietly /\ recounts' = [recounts EXCEPT ![r] = q]
      BY <1>7 DEF P!SelectSiblings, P!Becomes, plans
    <2>5. Leads(q)
      BY <2>3, <2>4 DEF Changing
    <2> QED
      BY <1>3, <2>5
  <1>8. CASE P!LoadTask(r)
    <2> DEFINE q == [P!Idle EXCEPT !.kind = "taskSave", !.pc = "taskSelect", !.percent = progress]
    <2>1. q \in P!RequestState /\ q.pc = "taskSelect"
      BY <1>1, <1>2 DEF P!RequestState, P!PC, P!Kind
    <2>2. Leads(q)
      BY <1>8, <2>1 DEF P!LoadTask, P!Becomes, Changing
    <2> QED
      BY <1>3, <2>2
  <1>9. CASE P!SelectTask(r)
    <2> DEFINE differs == recounts[r].percent # progress
               q == [recounts[r] EXCEPT !.pc = "taskWrite", !.writesPercent = differs]
    <2>1. q \in P!RequestState /\ q.pc = "taskWrite"
      BY <1>1 DEF P!RequestState, P!PC
    <2>2. Leads(q)
      BY <1>9, <2>1 DEF P!SelectTask, P!Becomes, Changing
    <2> QED
      BY <1>3, <2>2
  <1>10. ASSUME NEW s \in SubTask, P!LoadToDelete(r, s) \/ P!LoadToReorder(r, s) PROVE ProgressInv'
    <2> DEFINE delete == [P!Idle EXCEPT !.kind = "delete", !.pc = "remove", !.subTask = s]
               reorder == [P!Idle EXCEPT !.kind = "reorder", !.pc = "siblings"]
    <2>1. /\ delete \in P!RequestState /\ delete.pc = "remove" /\ delete.kind = "delete"
          /\ delete.subTask = s
          /\ reorder \in P!RequestState /\ reorder.pc = "siblings"
      BY <1>2 DEF P!RequestState, P!PC, P!Kind
    <2>2. CASE P!LoadToDelete(r, s)
      <3>1. Leads(delete)
        BY <2>1, <2>2 DEF P!LoadToDelete, P!Becomes, Changing, P!Recounts
      <3> QED
        BY <1>3, <3>1
    <2>3. CASE P!LoadToReorder(r, s)
      <3>1. Leads(reorder)
        BY <2>1, <2>3 DEF P!LoadToReorder, P!Becomes, Changing
      <3> QED
        BY <1>3, <3>1
    <2> QED
      BY <1>10, <2>2, <2>3
  <1>11. ASSUME NEW s \in SubTask, NEW kind \in {"update", "toggle"}, NEW completed \in BOOLEAN,
                P!LoadToSave(r, kind, s, completed)
         PROVE  ProgressInv'
    <2> DEFINE entity == [row |-> "there", completed |-> completed]
               q == [P!Idle EXCEPT !.kind = kind, !.pc = "select", !.subTask = s, !.entity = entity]
    <2>1. entity \in P!SubTaskRow
      BY ProgressTypes
    <2> HIDE DEF entity
    <2>2. q \in P!RequestState /\ q.pc = "select" /\ q.kind = kind /\ q.subTask = s
      BY <1>2, <2>1 DEF P!RequestState, P!PC, P!Kind
    <2>3. Leads(q)
      BY <1>11, <2>2 DEF P!LoadToSave, P!Becomes, Changing, P!Recounts, entity
    <2> QED
      BY <1>3, <2>3
  <1> QED
    BY <1>4, <1>5, <1>6, <1>7, <1>8, <1>9, <1>10, <1>11

LEMMA FindKeepsProgress ==
  ASSUME ProgressInv, NEW r \in Client, P!FindSubTasks(r)
  PROVE  ProgressInv'
  <1> DEFINE q == [recounts[r] EXCEPT !.pc = "store", !.percent = P!CurrentPercent]
  <1>1. recounts[r] \in P!RequestState
    BY DEF ProgressInv, P!TypeOK
  <1>2. q \in P!RequestState /\ q.pc = "store" /\ q.percent = P!CurrentPercent
    BY <1>1, CurrentPercentInRange DEF P!RequestState, P!PC
  <1>3. recounts' = [recounts EXCEPT ![r] = q] /\ fresh' = fresh \cup {r}
        /\ UNCHANGED <<subTasks, progress, blame>>
    BY DEF P!FindSubTasks, P!Becomes
  <1> HIDE DEF q
  <1>4. \A s \in Client : recounts'[s] = IF s = r THEN q ELSE recounts[s]
    BY <1>3 DEF ProgressInv, P!TypeOK
  <1>5. P!CurrentPercent' = P!CurrentPercent
    BY <1>3, SameRowsSamePercent
  <1>6. P!TypeOK'
    BY <1>2, <1>3 DEF ProgressInv, P!TypeOK
  <1>7. FreshIsRight'
    BY <1>2, <1>3, <1>4, <1>5 DEF ProgressInv, FreshIsRight, P!TypeOK
  <1>8. P!ProgressIsExact'
    BY <1>3 DEF P!ProgressIsExact
  <1>9. \A s \in Client : ChecklistAddressed(s)'
    BY <1>2, <1>4 DEF ProgressInv, ChecklistAddressed, Changing
  <1> QED
    BY <1>6, <1>7, <1>8, <1>9 DEF ProgressInv

\* The statements after which a request ends, but for those of ChangeKeeps.
LEMMA EndKeepsProgress ==
  ASSUME ProgressInv, NEW r \in Client, P!Ends(r),
         subTasks' \in [SubTask -> P!SubTaskRow], progress' \in 0..100,
         blame' \in {"none", "overtaken", "died", "reordered", "saved"},
         fresh' \subseteq fresh \ {r},
         fresh' = {} \/ P!CurrentPercent' = P!CurrentPercent,
         P!ProgressIsExact'
  PROVE  ProgressInv'
  <1>1. P!Idle \in P!RequestState /\ P!Idle.pc = "idle" /\ recounts' = [recounts EXCEPT ![r] = P!Idle]
    BY ProgressTypes DEF P!Idle, P!Ends, P!Becomes
  <1>2. \A s \in Client : recounts'[s] = IF s = r THEN P!Idle ELSE recounts[s]
    BY <1>1 DEF ProgressInv, P!TypeOK
  <1>3. P!TypeOK'
    BY <1>1 DEF ProgressInv, P!TypeOK
  <1>4. FreshIsRight'
    BY <1>2 DEF ProgressInv, FreshIsRight, P!TypeOK
  <1>5. \A s \in Client : ChecklistAddressed(s)'
    BY <1>1, <1>2 DEF ProgressInv, ChecklistAddressed, Changing
  <1> QED
    BY <1>3, <1>4, <1>5 DEF ProgressInv

\* A fresh percentage is right when it is stored; any other is to blame.
LEMMA StoreKeepsProgress ==
  ASSUME ProgressInv, NEW r \in Client, P!StoreProgress(r)
  PROVE  ProgressInv'
  <1>1. /\ P!Ends(r) /\ UNCHANGED subTasks /\ progress' = recounts[r].percent
        /\ fresh' = fresh \ {r}
        /\ blame' = IF r \in fresh THEN "none" ELSE "overtaken"
    BY DEF P!StoreProgress
  <1>2. recounts[r] \in P!RequestState /\ subTasks \in [SubTask -> P!SubTaskRow]
    BY DEF ProgressInv, P!TypeOK
  <1>3. P!CurrentPercent' = P!CurrentPercent
    BY <1>1, SameRowsSamePercent
  <1>4. P!ProgressIsExact'
    BY <1>1, <1>3 DEF ProgressInv, FreshIsRight, P!ProgressIsExact
  <1> QED
    BY <1>1, <1>2, <1>3, <1>4, EndKeepsProgress DEF P!RequestState

\* A reorder that changes the percentage is to blame.
LEMMA WriteSiblingsKeepsProgress ==
  ASSUME ProgressInv, NEW r \in Client, P!WriteSiblings(r)
  PROVE  ProgressInv'
  <1> DEFINE q == recounts[r]
             saved(s) == IF P!SaveHits(q.siblingPlans[s], subTasks[s])
                         THEN P!SavedSubTask(q.siblingPlans[s], q.siblings[s], subTasks[s])
                         ELSE subTasks[s]
  <1>1. /\ q \in P!RequestState /\ q.pc = "siblingsWrite" /\ r \notin fresh
        /\ subTasks \in [SubTask -> P!SubTaskRow] /\ progress \in 0..100
        /\ blame \in {"none", "overtaken", "died", "reordered", "saved"}
    BY DEF P!WriteSiblings, ProgressInv, P!TypeOK, FreshIsRight
  <1>2. /\ P!Ends(r) /\ P!Overtakes /\ UNCHANGED progress
        /\ blame' = IF P!CurrentPercent' = P!CurrentPercent THEN blame ELSE "reordered"
    BY DEF P!WriteSiblings
  <1>3. subTasks' \in [SubTask -> P!SubTaskRow]
    <2>1. ASSUME NEW s \in SubTask PROVE saved(s) \in P!SubTaskRow
      BY <1>1, SavedSubTaskTyped DEF P!RequestState
    <2>2. subTasks' = subTasks \/ subTasks' = [s \in SubTask |-> saved(s)]
      BY DEF P!WriteSiblings
    <2> QED
      BY <1>1, <2>1, <2>2
  <1>4. CASE P!CurrentPercent' = P!CurrentPercent
    <2>1. fresh' = fresh /\ blame' = blame
      BY <1>2, <1>4 DEF P!Overtakes
    <2>2. \A s \in Client : recounts[s].pc = "find" => recounts'[s].pc = "find"
      BY <1>1, <1>2 DEF P!Ends, P!Becomes, ProgressInv, P!TypeOK
    <2>3. P!ProgressIsExact'
      BY <1>2, <1>4, <2>1, <2>2 DEF ProgressInv, P!ProgressIsExact
    <2> QED
      BY <1>1, <1>2, <1>3, <1>4, <2>1, <2>3, EndKeepsProgress
  <1>5. CASE P!CurrentPercent' # P!CurrentPercent
    <2>1. fresh' = {} /\ blame' = "reordered"
      BY <1>2, <1>5 DEF P!Overtakes
    <2>2. P!ProgressIsExact'
      BY <2>1 DEF P!ProgressIsExact
    <2> QED
      BY <1>1, <1>2, <1>3, <2>1, <2>2, EndKeepsProgress
  <1> QED
    BY <1>4, <1>5

LEMMA WriteTaskKeepsProgress ==
  ASSUME ProgressInv, NEW r \in Client, P!WriteTask(r)
  PROVE  ProgressInv'
  <1>1. /\ P!Ends(r) /\ UNCHANGED <<subTasks, fresh>> /\ recounts[r].pc = "taskWrite"
        /\ progress' = IF recounts[r].writesPercent THEN recounts[r].percent ELSE progress
        /\ blame' = IF progress' = progress THEN blame ELSE "saved"
    BY DEF P!WriteTask
  <1>2. /\ recounts[r] \in P!RequestState /\ subTasks \in [SubTask -> P!SubTaskRow]
        /\ progress \in 0..100 /\ r \notin fresh
        /\ blame \in {"none", "overtaken", "died", "reordered", "saved"}
    BY <1>1 DEF ProgressInv, P!TypeOK, FreshIsRight
  <1>3. P!CurrentPercent' = P!CurrentPercent
    BY <1>1, SameRowsSamePercent
  <1>4. \A s \in Client : recounts[s].pc = "find" => recounts'[s].pc = "find"
    BY <1>1 DEF P!Ends, P!Becomes, ProgressInv, P!TypeOK
  <1>5. P!ProgressIsExact'
    BY <1>1, <1>3, <1>4 DEF ProgressInv, P!ProgressIsExact
  <1> QED
    BY <1>1, <1>2, <1>3, <1>5, EndKeepsProgress DEF P!RequestState

LEMMA AbortKeepsProgress ==
  ASSUME ProgressInv, NEW r \in Client, P!Abort(r)
  PROVE  ProgressInv'
  <1>1. /\ P!Ends(r) /\ UNCHANGED <<subTasks, progress>> /\ fresh' = fresh \ {r}
        /\ blame' = IF recounts[r].pc \in {"find", "store"} THEN "died" ELSE blame
    BY DEF P!Abort
  <1>2. /\ subTasks \in [SubTask -> P!SubTaskRow] /\ progress \in 0..100
        /\ blame \in {"none", "overtaken", "died", "reordered", "saved"}
    BY DEF ProgressInv, P!TypeOK
  <1>3. P!CurrentPercent' = P!CurrentPercent
    BY <1>1, SameRowsSamePercent
  <1>4. CASE recounts[r].pc \in {"find", "store"}
    <2>1. P!ProgressIsExact'
      BY <1>1, <1>4 DEF P!ProgressIsExact
    <2> QED
      BY <1>1, <1>2, <1>3, <1>4, <2>1, EndKeepsProgress
  <1>5. CASE recounts[r].pc \notin {"find", "store"}
    <2>1. fresh' = fresh /\ blame' = blame
      BY <1>1, <1>5 DEF ProgressInv, FreshIsRight
    <2>2. \A s \in Client : recounts[s].pc = "find" => recounts'[s].pc = "find"
      BY <1>1, <1>5 DEF P!Ends, P!Becomes, ProgressInv, P!TypeOK
    <2>3. P!ProgressIsExact'
      BY <1>1, <1>3, <2>1, <2>2 DEF ProgressInv, P!ProgressIsExact
    <2> QED
      BY <1>1, <1>2, <1>3, <2>1, <2>3, EndKeepsProgress
  <1> QED
    BY <1>4, <1>5

LEMMA NextKeepsProgress == ProgressInv /\ [P!Next]_checklists => ProgressInv'
  <1> SUFFICES ASSUME ProgressInv, [P!Next]_checklists PROVE ProgressInv'
    OBVIOUS
  <1>1. ASSUME NEW r \in Client, P!Step(r) PROVE ProgressInv'
    <2>1. ASSUME NEW s \in SubTask, P!InsertSubTask(r, s) PROVE ProgressInv'
      BY <2>1, SubTaskStatementsKeep
    <2>2. CASE P!WriteSubTask(r) \/ P!RemoveSubTask(r)
      BY <2>2, SubTaskStatementsKeep
    <2>3. ASSUME NEW s \in SubTask, P!LoadToDelete(r, s) \/ P!LoadToReorder(r, s) PROVE ProgressInv'
      BY <2>3, QuietStatementsKeep
    <2>4. ASSUME NEW s \in SubTask, NEW kind \in {"update", "toggle"},
                 NEW completed \in BOOLEAN, P!LoadToSave(r, kind, s, completed)
          PROVE  ProgressInv'
      BY <2>4, QuietStatementsKeep
    <2>5. CASE \/ P!BeginCreate(r) \/ P!SelectSubTask(r) \/ P!FindSiblings(r) \/ P!SelectSiblings(r)
               \/ P!LoadTask(r) \/ P!SelectTask(r)
      BY <2>5, QuietStatementsKeep
    <2>6. CASE P!FindSubTasks(r)
      BY <2>6, FindKeepsProgress
    <2>7. CASE P!StoreProgress(r)
      BY <2>7, StoreKeepsProgress
    <2>8. CASE P!WriteSiblings(r)
      BY <2>8, WriteSiblingsKeepsProgress
    <2>9. CASE P!WriteTask(r)
      BY <2>9, WriteTaskKeepsProgress
    <2>10. CASE P!Abort(r)
      BY <2>10, AbortKeepsProgress
    <2> QED
      BY <1>1, <2>1, <2>2, <2>3, <2>4, <2>5, <2>6, <2>7, <2>8, <2>9, <2>10 DEF P!Step
  <1>2. CASE UNCHANGED checklists
    <2>1. P!CurrentPercent' = P!CurrentPercent
      BY <1>2, SameRowsSamePercent DEF checklists
    <2> QED
      BY <1>2, <2>1 DEF checklists, ProgressInv, P!TypeOK, FreshIsRight, P!ProgressIsExact, ChecklistAddressed
  <1> QED
    BY <1>1, <1>2 DEF P!Next

------------------------------------------------------------------------------

\* However many requests overlap, the stored percentage is between 0 and 100,
\* because the rows it is computed from are read by one statement.
THEOREM ProgressTyped == P!Spec => []P!TypeOK
  <1>1. ProgressInv => P!TypeOK
    BY DEF ProgressInv
  <1> QED
    BY InitProgress, NextKeepsProgress, <1>1, PTL DEF P!Spec, P!vars, checklists

\* A wrong percentage has nothing but the four causes ProgressIsExact names, or
\* is about to be corrected, for any checklist and number of requests.
THEOREM ProgressExplained == P!Spec => []ProgressIsExact
  <1>1. ProgressInv => ProgressIsExact
    BY DEF ProgressInv, ProgressIsExact
  <1> QED
    BY InitProgress, NextKeepsProgress, <1>1, PTL DEF P!Spec, P!vars, checklists

------------------------------------------------------------------------------
(* Sequences: what taking an element out and putting one in do               *)

LEMMA RemovedAt ==
  ASSUME NEW S, NEW s \in Seq(S), NEW i \in DOMAIN s
  PROVE  /\ RemoveAt(s, i) \in Seq(S) /\ Len(RemoveAt(s, i)) = Len(s) - 1
         /\ \A k \in 1 .. Len(s) - 1 : RemoveAt(s, i)[k] = IF k < i THEN s[k] ELSE s[k + 1]
  <1> DEFINE a == SubSeq(s, 1, i - 1)
             b == SubSeq(s, i + 1, Len(s))
  <1>1. Len(s) \in Nat /\ i \in 1 .. Len(s) /\ i \in Int
    OBVIOUS
  <1>2. /\ a \in Seq(S) /\ Len(a) = i - 1 /\ \A k \in 1 .. i - 1 : a[k] = s[k]
    BY <1>1
  <1>3. /\ b \in Seq(S) /\ Len(b) = Len(s) - i /\ \A k \in 1 .. Len(s) - i : b[k] = s[i + k]
    BY <1>1
  <1>4. RemoveAt(s, i) = a \o b
    BY DEF RemoveAt
  <1> HIDE DEF a, b
  <1>5. a \o b \in Seq(S) /\ Len(a \o b) = Len(s) - 1
    BY <1>1, <1>2, <1>3
  <1>6. ASSUME NEW k \in 1 .. Len(s) - 1
        PROVE  (a \o b)[k] = IF k < i THEN s[k] ELSE s[k + 1]
    <2>1. CASE k < i
      BY <1>1, <1>2, <1>3, <2>1
    <2>2. CASE ~ k < i
      <3>1. k - (i - 1) \in 1 .. Len(s) - i /\ (a \o b)[k] = b[k - (i - 1)]
        BY <1>1, <1>2, <1>3, <2>2
      <3>2. b[k - (i - 1)] = s[i + (k - (i - 1))] /\ i + (k - (i - 1)) = k + 1
        BY <1>1, <1>3, <3>1
      <3> QED
        BY <2>2, <3>1, <3>2
    <2> QED
      BY <2>1, <2>2
  <1> QED
    BY <1>4, <1>5, <1>6

LEMMA InsertedAt ==
  ASSUME NEW S, NEW s \in Seq(S), NEW e \in S, NEW i \in 1 .. Len(s) + 1
  PROVE  /\ InsertAt(s, i, e) \in Seq(S) /\ Len(InsertAt(s, i, e)) = Len(s) + 1
         /\ \A k \in 1 .. Len(s) + 1 :
               InsertAt(s, i, e)[k] = IF k < i THEN s[k] ELSE IF k = i THEN e ELSE s[k - 1]
  <1> DEFINE a == SubSeq(s, 1, i - 1)
             b == SubSeq(s, i, Len(s))
             c == a \o <<e>>
  <1>1. Len(s) \in Nat /\ i \in Int /\ 1 <= i /\ i <= Len(s) + 1
    OBVIOUS
  <1>2. /\ a \in Seq(S) /\ Len(a) = i - 1 /\ \A k \in 1 .. i - 1 : a[k] = s[k]
    BY <1>1
  <1>3. /\ b \in Seq(S) /\ Len(b) = Len(s) - i + 1 /\ \A k \in 1 .. Len(s) - i + 1 : b[k] = s[i + k - 1]
    BY <1>1
  <1>4. InsertAt(s, i, e) = c \o b
    BY DEF InsertAt
  <1> HIDE DEF a, b
  <1>5. /\ c \in Seq(S) /\ Len(c) = i
        /\ \A k \in 1 .. i : c[k] = IF k < i THEN s[k] ELSE e
    BY <1>1, <1>2
  <1> HIDE DEF c
  <1>6. c \o b \in Seq(S) /\ Len(c \o b) = Len(s) + 1
    <2>1. c \in Seq(S) /\ b \in Seq(S)
      BY <1>3, <1>5
    <2>2. c \o b \in Seq(S) /\ Len(c \o b) = Len(c) + Len(b)
      BY <2>1
    <2> QED
      BY <1>1, <1>3, <1>5, <2>2
  <1>7. ASSUME NEW k \in 1 .. Len(s) + 1
        PROVE  (c \o b)[k] = IF k < i THEN s[k] ELSE IF k = i THEN e ELSE s[k - 1]
    <2>1. CASE k <= i
      BY <1>1, <1>3, <1>5, <2>1
    <2>2. CASE ~ k <= i
      <3>1. k - i \in 1 .. Len(s) - i + 1 /\ (c \o b)[k] = b[k - i]
        BY <1>1, <1>3, <1>5, <2>2
      <3>2. b[k - i] = s[i + (k - i) - 1] /\ i + (k - i) - 1 = k - 1
        BY <1>1, <1>3, <3>1
      <3> QED
        BY <2>2, <3>1, <3>2
    <2> QED
      BY <2>1, <2>2
  <1> QED
    BY <1>4, <1>6, <1>7

\* What findIndex finds.
LEMMA FoundAt ==
  ASSUME NEW S, NEW s \in Seq(S), NEW x
  PROVE  LET i == SelectInSeq(s, LAMBDA y : y = x)
         IN /\ (\A k \in DOMAIN s : s[k] # x) => i = 0
            /\ (\E k \in DOMAIN s : s[k] = x) /\ IsInjective(s) => i \in DOMAIN s /\ s[i] = x
  <1> DEFINE I == {k \in 1 .. Len(s) : s[k] = x}
  <1>1. DOMAIN s = 1 .. Len(s) /\ Len(s) \in Nat
    OBVIOUS
  <1>2. SelectInSeq(s, LAMBDA y : y = x) = IF I # {} THEN Min(I) ELSE 0
    BY DEF SelectInSeq
  <1>3. (\A k \in DOMAIN s : s[k] # x) => I = {}
    BY <1>1
  <1>4. ASSUME NEW k \in DOMAIN s, s[k] = x, IsInjective(s)
        PROVE  Min(I) = k /\ I # {}
    <2>1. I = {k}
      BY <1>1, <1>4 DEF IsInjective
    <2>2. k <= k
      BY <1>1
    <2> HIDE DEF I
    <2> QED
      BY <2>1, <2>2 DEF Min
  <1> HIDE DEF I
  <1>5. ASSUME NEW k \in DOMAIN s, s[k] = x, IsInjective(s)
        PROVE  LET i == SelectInSeq(s, LAMBDA y : y = x) IN i \in DOMAIN s /\ s[i] = x
    BY <1>2, <1>4, <1>5
  <1> QED
    BY <1>2, <1>3, <1>5

------------------------------------------------------------------------------
(* Ordered lists                                                             *)

\* s lists the rows in S, which t maps to rows of the table, in the order of
\* their positions, no two of which are equal.
Sorts(t, S, s) ==
    /\ s \in Seq(S)
    /\ \A x \in S : t[x].position \in Int /\ \E i \in DOMAIN s : s[i] = x
    /\ \A i, j \in DOMAIN s : i < j => t[s[i]].position < t[s[j]].position

\* The list of ListOf in a table t.
ListIn(t, S) ==
    LET Before(x) == {y \in S : t[y].position < t[x].position}
        UpTo(x) == {y \in S : t[y].position <= t[x].position}
    IN [i \in 1 .. Cardinality(S) |->
           CHOOSE x \in S : Cardinality(Before(x)) < i /\ i <= Cardinality(UpTo(x))]

LEMMA ListOfIs == \A p : ListOf(p) = ListIn(rows, RowsOf(p))
  BY DEF ListOf, ListIn

LEMMA SortedOnce ==
  ASSUME NEW t, NEW S, NEW s, Sorts(t, S, s)
  PROVE  /\ IsInjective(s)
         /\ \A i, j \in DOMAIN s : t[s[i]].position < t[s[j]].position <=> i < j
  <1>1. \A i \in DOMAIN s : i \in Int /\ s[i] \in S /\ t[s[i]].position \in Int
    BY DEF Sorts
  <1>2. \A i, j \in DOMAIN s : t[s[i]].position < t[s[j]].position <=> i < j
    BY <1>1 DEF Sorts
  <1>3. ASSUME NEW i \in DOMAIN s, NEW j \in DOMAIN s, s[i] = s[j] PROVE i = j
    BY <1>1, <1>2, <1>3
  <1> QED
    BY <1>2, <1>3 DEF IsInjective

\* The first rows of a sorted list are as many as their number says.
LEMMA FirstRows ==
  ASSUME NEW t, NEW S, NEW s, Sorts(t, S, s), NEW n \in 0 .. Len(s)
  PROVE  LET F == {y \in S : \E k \in 1 .. n : s[k] = y} IN IsFiniteSet(F) /\ Cardinality(F) = n
  <1> DEFINE F == {y \in S : \E k \in 1 .. n : s[k] = y}
             f == [k \in 1 .. n |-> s[k]]
  <1>1. s \in Seq(S) /\ Len(s) \in Nat /\ DOMAIN s = 1 .. Len(s) /\ n \in Nat
    BY DEF Sorts
  <1>2. f \in Bijection(1 .. n, F)
    <2>1. f \in [1 .. n -> F]
      BY <1>1
    <2>2. \A a, b \in 1 .. n : f[a] = f[b] => a = b
      BY <1>1, SortedOnce DEF IsInjective
    <2>3. \A y \in F : \E a \in 1 .. n : f[a] = y
      OBVIOUS
    <2> QED
      BY <2>1, <2>2, <2>3, Fun_IsBij
  <1>3. IsFiniteSet(1 .. n) /\ Cardinality(1 .. n) = n
    BY <1>1, FS_Interval
  <1> QED
    BY <1>2, <1>3, FS_Bijection DEF ExistsBijection

\* So a list that sorts the rows is the list shown.
LEMMA SortedIsShown ==
  ASSUME NEW t, NEW S, NEW s, Sorts(t, S, s)
  PROVE  ListIn(t, S) = s /\ IsFiniteSet(S)
  <1> DEFINE Before(x) == {y \in S : t[y].position < t[x].position}
             UpTo(x) == {y \in S : t[y].position <= t[x].position}
             First(n) == {y \in S : \E k \in 1 .. n : s[k] = y}
  <1>1. /\ s \in Seq(S) /\ Len(s) \in Nat /\ DOMAIN s = 1 .. Len(s)
        /\ \A x \in S : \E k \in DOMAIN s : s[k] = x
        /\ \A k \in DOMAIN s : s[k] \in S /\ t[s[k]].position \in Int
    BY DEF Sorts
  <1>2. \A n \in 0 .. Len(s) : IsFiniteSet(First(n)) /\ Cardinality(First(n)) = n
    BY FirstRows
  <1>3. First(Len(s)) = S
    BY <1>1
  <1>4. IsFiniteSet(S) /\ Cardinality(S) = Len(s)
    <2> HIDE DEF First
    <2>1. Len(s) \in 0 .. Len(s)
      BY <1>1
    <2> QED
      BY <1>2, <1>3, <2>1
  <1>5. \A i, j \in DOMAIN s : t[s[i]].position < t[s[j]].position <=> i < j
    BY SortedOnce
  <1>6. ASSUME NEW i \in DOMAIN s
        PROVE  Cardinality(Before(s[i])) = i - 1 /\ Cardinality(UpTo(s[i])) = i
    <2>1. Before(s[i]) = First(i - 1)
      <3>1. ASSUME NEW y \in Before(s[i]) PROVE y \in First(i - 1)
        <4>1. PICK k \in DOMAIN s : s[k] = y
          BY <1>1
        <4>2. k < i
          BY <1>5, <4>1
        <4> QED
          BY <1>1, <4>1, <4>2
      <3>2. ASSUME NEW y \in First(i - 1) PROVE y \in Before(s[i])
        <4>1. PICK k \in 1 .. i - 1 : s[k] = y
          OBVIOUS
        <4>2. k \in DOMAIN s /\ k < i
          BY <1>1
        <4> QED
          BY <1>5, <4>1, <4>2
      <3> HIDE DEF Before, First
      <3>3. Before(s[i]) \subseteq S /\ First(i - 1) \subseteq S
        BY DEF Before, First
      <3> QED
        BY <3>1, <3>2
    <2>2. UpTo(s[i]) = First(i)
      <3>1. ASSUME NEW y \in UpTo(s[i]) PROVE y \in First(i)
        <4>1. PICK k \in DOMAIN s : s[k] = y
          BY <1>1
        <4>2. ~ i < k
          BY <1>1, <1>5, <4>1
        <4> QED
          BY <1>1, <4>1, <4>2
      <3>2. ASSUME NEW y \in First(i) PROVE y \in UpTo(s[i])
        <4>1. PICK k \in 1 .. i : s[k] = y
          OBVIOUS
        <4>2. k \in DOMAIN s /\ ~ i < k
          BY <1>1
        <4> QED
          BY <1>1, <1>5, <4>1, <4>2
      <3> HIDE DEF UpTo, First
      <3> QED
        BY <3>1, <3>2
    <2> HIDE DEF Before, UpTo, First
    <2>3. i - 1 \in 0 .. Len(s) /\ i \in 0 .. Len(s)
      BY <1>1
    <2> QED
      BY <1>2, <2>1, <2>2, <2>3
  <1>7. ListIn(t, S) = [i \in 1 .. Cardinality(S) |->
                          CHOOSE x \in S : Cardinality(Before(x)) < i /\ i <= Cardinality(UpTo(x))]
    BY DEF ListIn
  <1> HIDE DEF Before, UpTo, First
  <1>8. ASSUME NEW i \in DOMAIN s
        PROVE  (CHOOSE x \in S : Cardinality(Before(x)) < i /\ i <= Cardinality(UpTo(x))) = s[i]
    <2>1. s[i] \in S /\ Cardinality(Before(s[i])) < i /\ i <= Cardinality(UpTo(s[i]))
      BY <1>1, <1>6
    <2>2. ASSUME NEW x \in S, Cardinality(Before(x)) < i, i <= Cardinality(UpTo(x)) PROVE x = s[i]
      <3>1. PICK k \in DOMAIN s : s[k] = x
        BY <1>1
      <3>2. k - 1 < i /\ i <= k
        BY <1>6, <2>2, <3>1
      <3> QED
        BY <1>1, <3>1, <3>2
    <2> QED
      BY <2>1, <2>2
  <1> QED
    BY <1>1, <1>4, <1>7, <1>8

\* s is a list of the rows in S, each once.
Enumerates(s, S) ==
    s \in Seq(S) /\ IsInjective(s) /\ \A x \in S : \E i \in DOMAIN s : s[i] = x

\* A list m is l, or what OrderedList lets l become.
Follows(l, m) ==
    \/ m = l
    \/ \E x \in Row \ Range(l) : m = Append(l, x)
    \/ \E i \in DOMAIN l : m = RemoveAt(l, i)
    \/ \E i, j \in DOMAIN l : m = InsertAt(RemoveAt(l, i), j, l[i])

\* RowsOf(p) and ListOf(p) in a table t.
RowsIn(t, p) == {x \in Row : ParentOf[x] = p /\ Exists(t[x])}
Shown(t, p) == ListIn(t, RowsIn(t, p))

\* No two rows of a parent have the same position.
Ordered(t) == \A p \in Parent : Sorts(t, RowsIn(t, p), Shown(t, p))

\* What a request has read, and what it is about to write, still hold: a new
\* row will come last, and a reordering writes the list but for one move.
Ready(t, q) ==
    /\ q.pc # "idle" => q.parent \in Parent
    /\ q.pc = "insert" => \A y \in RowsIn(t, q.parent) : t[y].position < q.position
    /\ q.pc = "remove" => q.row \in RowsIn(t, q.parent)
    /\ q.pc = "siblings" => q.row = NoRow \/ q.row \in RowsIn(t, q.parent)
    /\ q.pc \in {"select", "write"} =>
         Enumerates(q.order, RowsIn(t, q.parent)) /\ Follows(Shown(t, q.parent), q.order)
    /\ q.pc = "write" => q.plans = [i \in DOMAIN q.order |-> SavePlan(Renumber(i), t[q.order[i]])]

OrderInv ==
    /\ TypeOK
    /\ Ordered(rows)
    /\ \A r \in Request : Ready(rows, requests[r])

LEMMA ListOfIsShown == \A p : ListOf(p) = Shown(rows, p) /\ RowsOf(p) = RowsIn(rows, p)
  BY DEF ListOf, Shown, ListIn, RowsOf, RowsIn

LEMMA SameSorts ==
  ASSUME NEW t, NEW u, NEW S, NEW s, Sorts(t, S, s), \A x \in S : u[x].position = t[x].position
  PROVE  Sorts(u, S, s)
  BY DEF Sorts

\* A row that comes last goes to the end.
LEMMA AppendSorts ==
  ASSUME NEW t, NEW u, NEW S, NEW s, NEW x, Sorts(t, S, s), x \notin S,
         \A y \in S : u[y].position = t[y].position /\ t[y].position < u[x].position,
         u[x].position \in Int
  PROVE  Sorts(u, S \cup {x}, Append(s, x))
  <1> DEFINE a == Append(s, x)
             T == S \cup {x}
  <1>1. /\ s \in Seq(T) /\ x \in T /\ Len(s) \in Nat /\ DOMAIN s = 1 .. Len(s)
        /\ \A k \in DOMAIN s : s[k] \in S
    BY DEF Sorts
  <1>2. /\ a \in Seq(T) /\ DOMAIN a = 1 .. Len(s) + 1
        /\ \A k \in 1 .. Len(s) + 1 : a[k] = IF k <= Len(s) THEN s[k] ELSE x
    BY <1>1
  <1>3. ASSUME NEW y \in T PROVE u[y].position \in Int /\ \E k \in DOMAIN a : a[k] = y
    <2>1. CASE y = x
      <3>1. Len(s) + 1 \in DOMAIN a /\ a[Len(s) + 1] = x
        BY <1>1, <1>2
      <3> QED
        BY <2>1, <3>1
    <2>2. CASE y # x
      <3>1. PICK k \in DOMAIN s : s[k] = y
        BY <2>2 DEF Sorts
      <3> QED
        BY <1>1, <1>2, <3>1 DEF Sorts
    <2> QED
      BY <2>1, <2>2
  <1>4. ASSUME NEW k \in DOMAIN a, NEW m \in DOMAIN a, k < m
        PROVE  u[a[k]].position < u[a[m]].position
    <2>1. k \in DOMAIN s /\ a[k] = s[k] /\ s[k] \in S
      BY <1>1, <1>2, <1>4
    <2>2. CASE m = Len(s) + 1
      BY <1>1, <1>2, <2>1, <2>2
    <2>3. CASE m # Len(s) + 1
      <3>1. m \in DOMAIN s /\ a[m] = s[m] /\ s[m] \in S
        BY <1>1, <1>2, <2>3
      <3> QED
        BY <1>4, <2>1, <3>1 DEF Sorts
    <2> QED
      BY <2>2, <2>3
  <1> HIDE DEF a, T
  <1>5. Sorts(u, T, a)
    BY <1>2, <1>3, <1>4 DEF Sorts
  <1> QED
    BY <1>5 DEF a, T

\* A row that goes leaves the order of the others as it was.
LEMMA RemoveSorts ==
  ASSUME NEW t, NEW u, NEW S, NEW s, Sorts(t, S, s), NEW i \in DOMAIN s,
         \A y \in S : y # s[i] => u[y].position = t[y].position
  PROVE  Sorts(u, S \ {s[i]}, RemoveAt(s, i))
  <1> DEFINE a == RemoveAt(s, i)
             T == S \ {s[i]}
             n == Len(s)
             old(k) == IF k < i THEN k ELSE k + 1
  <1>1. /\ s \in Seq(S) /\ n \in Nat /\ DOMAIN s = 1 .. n /\ i \in 1 .. n
        /\ \A k \in DOMAIN s : s[k] \in S
    BY DEF Sorts
  <1>2. /\ a \in Seq(S) /\ Len(a) = n - 1 /\ DOMAIN a = 1 .. n - 1
        /\ \A k \in 1 .. n - 1 : a[k] = IF k < i THEN s[k] ELSE s[k + 1]
    <2>1. /\ a \in Seq(S) /\ Len(a) = n - 1
          /\ \A k \in 1 .. n - 1 : a[k] = IF k < i THEN s[k] ELSE s[k + 1]
      <3> HIDE DEF n
      <3> QED
        BY ONLY <1>1, RemovedAt DEF n
    <2> QED
      BY <1>1, <2>1
  <1>3. \A k, m \in DOMAIN s : s[k] = s[m] => k = m
    BY SortedOnce DEF IsInjective
  <1>4. ASSUME NEW k \in DOMAIN a
        PROVE  old(k) \in DOMAIN s /\ old(k) # i /\ a[k] = s[old(k)] /\ a[k] \in T
    <2>1. old(k) \in DOMAIN s /\ old(k) # i /\ a[k] = s[old(k)]
      BY <1>1, <1>2
    <2> QED
      BY <1>1, <1>3, <2>1
  <1>5. a \in Seq(T)
    BY <1>1, <1>2, <1>4
  <1>6. ASSUME NEW y \in T PROVE u[y].position \in Int /\ \E k \in DOMAIN a : a[k] = y
    <2>1. PICK k \in DOMAIN s : s[k] = y
      BY DEF Sorts
    <2>2. k # i /\ k \in Int /\ i \in Int
      BY <1>1, <2>1
    <2>3. CASE k < i
      <3>1. k \in DOMAIN a /\ a[k] = s[k]
        BY <1>1, <1>2, <2>3
      <3> QED
        BY <2>1, <3>1 DEF Sorts
    <2>4. CASE i < k
      <3>1. k - 1 \in DOMAIN a /\ a[k - 1] = s[(k - 1) + 1] /\ (k - 1) + 1 = k
        BY <1>1, <1>2, <2>4
      <3> QED
        BY <2>1, <3>1 DEF Sorts
    <2> QED
      BY <2>2, <2>3, <2>4
  <1>7. ASSUME NEW k \in DOMAIN a, NEW m \in DOMAIN a, k < m
        PROVE  u[a[k]].position < u[a[m]].position
    <2>1. old(k) < old(m)
      BY <1>1, <1>2, <1>7
    <2>2. t[s[old(k)]].position < t[s[old(m)]].position
      BY <1>4, <2>1 DEF Sorts
    <2>3. u[a[k]].position = t[s[old(k)]].position /\ u[a[m]].position = t[s[old(m)]].position
      BY <1>4
    <2> QED
      BY <2>2, <2>3
  <1> HIDE DEF a, T
  <1>8. Sorts(u, T, a)
    BY <1>5, <1>6, <1>7 DEF Sorts
  <1> QED
    BY <1>8 DEF a, T

\* Numbering the rows of a list sorts them as the list has them.
LEMMA NumberedSorts ==
  ASSUME NEW u, NEW S, NEW s, Enumerates(s, S),
         \A i \in DOMAIN s : u[s[i]].position = i - 1
  PROVE  Sorts(u, S, s)
  <1>1. s \in Seq(S) /\ DOMAIN s = 1 .. Len(s) /\ Len(s) \in Nat
    BY DEF Enumerates
  <1>2. ASSUME NEW x \in S PROVE u[x].position \in Int /\ \E i \in DOMAIN s : s[i] = x
    <2>1. PICK i \in DOMAIN s : s[i] = x
      BY DEF Enumerates
    <2> QED
      BY <1>1, <2>1
  <1>3. ASSUME NEW i \in DOMAIN s, NEW j \in DOMAIN s, i < j
        PROVE  u[s[i]].position < u[s[j]].position
    BY <1>1, <1>3
  <1> QED
    BY <1>1, <1>2, <1>3 DEF Sorts

LEMMA SortedEnumerates ==
  ASSUME NEW t, NEW S, NEW s, Sorts(t, S, s)
  PROVE  Enumerates(s, S)
  BY SortedOnce DEF Sorts, Enumerates

LEMMA MovedAt ==
  ASSUME NEW S, NEW s \in Seq(S), NEW i \in DOMAIN s, NEW j \in DOMAIN s
  PROVE  LET m == InsertAt(RemoveAt(s, i), j, s[i])
         IN /\ m \in Seq(S) /\ Len(m) = Len(s)
            /\ \A k \in 1 .. Len(s) :
                  m[k] = s[IF k < j THEN IF k < i THEN k ELSE k + 1
                           ELSE IF k = j THEN i ELSE IF k - 1 < i THEN k - 1 ELSE k]
  <1>1. Len(s) \in Nat /\ i \in 1 .. Len(s) /\ j \in 1 .. Len(s) /\ s[i] \in S
    OBVIOUS
  <1>2. /\ RemoveAt(s, i) \in Seq(S) /\ Len(RemoveAt(s, i)) = Len(s) - 1
        /\ \A k \in 1 .. Len(s) - 1 : RemoveAt(s, i)[k] = IF k < i THEN s[k] ELSE s[k + 1]
    BY RemovedAt
  <1>3. PICK a \in Seq(S) :
          /\ a = RemoveAt(s, i) /\ Len(a) = Len(s) - 1
          /\ \A k \in 1 .. Len(s) - 1 : a[k] = IF k < i THEN s[k] ELSE s[k + 1]
    BY <1>2
  <1>4. PICK e \in S : e = s[i]
    BY <1>1
  <1>5. PICK l \in 1 .. Len(a) + 1 : l = j
    BY <1>1, <1>3
  <1>6. /\ InsertAt(a, l, e) \in Seq(S) /\ Len(InsertAt(a, l, e)) = Len(a) + 1
        /\ \A k \in 1 .. Len(a) + 1 :
              InsertAt(a, l, e)[k] = IF k < l THEN a[k] ELSE IF k = l THEN e ELSE a[k - 1]
    BY InsertedAt
  <1>7. PICK m \in Seq(S) :
          /\ m = InsertAt(RemoveAt(s, i), j, s[i]) /\ Len(m) = Len(s)
          /\ \A k \in 1 .. Len(s) : m[k] = IF k < j THEN a[k] ELSE IF k = j THEN s[i] ELSE a[k - 1]
    BY <1>1, <1>3, <1>4, <1>5, <1>6
  <1>8. ASSUME NEW k \in 1 .. Len(s)
        PROVE  m[k] = s[IF k < j THEN IF k < i THEN k ELSE k + 1
                        ELSE IF k = j THEN i ELSE IF k - 1 < i THEN k - 1 ELSE k]
    <2>1. CASE k < j
      <3>1. k \in 1 .. Len(s) - 1 /\ m[k] = a[k]
        BY <1>1, <1>7, <2>1
      <3> QED
        BY <1>3, <2>1, <3>1
    <2>2. CASE k = j
      BY <1>1, <1>7, <2>2
    <2>3. CASE j < k
      <3>1. k - 1 \in 1 .. Len(s) - 1 /\ m[k] = a[k - 1] /\ (k - 1) + 1 = k
        BY <1>1, <1>7, <2>3
      <3>2. a[k - 1] = IF k - 1 < i THEN s[k - 1] ELSE s[(k - 1) + 1]
        BY <1>3, <3>1
      <3> QED
        BY <1>1, <2>3, <3>1, <3>2
    <2>4. k \in Int /\ j \in Int
      BY <1>1
    <2> QED
      BY <2>1, <2>2, <2>3, <2>4
  <1> QED
    BY <1>7, <1>8

\* Moving a row loses none and doubles none.
LEMMA MovedEnumerates ==
  ASSUME NEW S, NEW s, Enumerates(s, S), NEW i \in DOMAIN s, NEW j \in DOMAIN s
  PROVE  Enumerates(InsertAt(RemoveAt(s, i), j, s[i]), S)
  <1> DEFINE m == InsertAt(RemoveAt(s, i), j, s[i])
             n == Len(s)
             old(k) == IF k < j THEN IF k < i THEN k ELSE k + 1
                       ELSE IF k = j THEN i ELSE IF k - 1 < i THEN k - 1 ELSE k
             keep(k) == IF k < i THEN k ELSE k - 1
             new(k) == IF k = i THEN j ELSE IF keep(k) < j THEN keep(k) ELSE keep(k) + 1
  <1>1. /\ s \in Seq(S) /\ n \in Nat /\ DOMAIN s = 1 .. n /\ i \in 1 .. n /\ j \in 1 .. n
        /\ \A k \in DOMAIN s : s[k] \in S
        /\ \A k, l \in DOMAIN s : s[k] = s[l] => k = l
    BY DEF Enumerates, IsInjective
  <1>2. m \in Seq(S) /\ Len(m) = n /\ \A k \in 1 .. n : m[k] = s[old(k)]
    <2>1. s \in Seq(S) /\ i \in DOMAIN s /\ j \in DOMAIN s
      BY <1>1
    <2> QED
      BY ONLY <2>1, MovedAt
  <1> HIDE DEF m
  <1>3. DOMAIN m = 1 .. n
    BY <1>2
  <1>4. ASSUME NEW k \in 1 .. n PROVE m[k] = s[old(k)] /\ old(k) \in 1 .. n
    BY <1>1, <1>2
  <1>5. ASSUME NEW k \in 1 .. n PROVE new(k) \in 1 .. n /\ old(new(k)) = k
    BY <1>1
  <1>6. ASSUME NEW k \in 1 .. n, NEW l \in 1 .. n, old(k) = old(l) PROVE k = l
    BY <1>1, <1>6
  <1> HIDE DEF old, new
  <1>7. IsInjective(m)
    <2>1. ASSUME NEW k \in DOMAIN m, NEW l \in DOMAIN m, m[k] = m[l] PROVE k = l
      BY <1>1, <1>3, <1>4, <1>6, <2>1
    <2> QED
      BY <2>1 DEF IsInjective
  <1>8. ASSUME NEW x \in S PROVE \E k \in DOMAIN m : m[k] = x
    <2>1. PICK k \in DOMAIN s : s[k] = x
      BY DEF Enumerates
    <2>2. new(k) \in DOMAIN m /\ m[new(k)] = s[k]
      BY <1>1, <1>3, <1>4, <1>5
    <2> QED
      BY <2>1, <2>2
  <1>9. Enumerates(m, S)
    BY <1>2, <1>7, <1>8 DEF Enumerates
  <1> QED
    BY <1>9 DEF m

\* An order the rows may be found in, when no two positions are equal.
LEMMA FoundInOrder ==
  ASSUME NEW t, NEW S, NEW l, Sorts(t, S, l), NEW s \in SetToSeqs(S),
         \A i, j \in DOMAIN s : i < j => t[s[i]].position <= t[s[j]].position
  PROVE  s = l
  <1> DEFINE n == Cardinality(S)
  <1>1. ListIn(t, S) = l /\ IsFiniteSet(S)
    BY SortedIsShown
  <1>2. n \in Nat /\ IsFiniteSet(1 .. n) /\ Cardinality(1 .. n) = n
    <2>1. n \in Nat
      BY <1>1, FS_CardinalityType
    <2> QED
      BY <2>1, FS_Interval
  <1>3. s \in [1 .. n -> S] /\ \A i, j \in 1 .. n : i # j => s[i] # s[j]
    BY DEF SetToSeqs
  <1> HIDE DEF n
  <1>4. s \in Injection(1 .. n, S)
    BY <1>3 DEF Injection, IsInjective
  <1>5. s \in Surjection(1 .. n, S)
    BY <1>1, <1>2, <1>4, FS_Injection DEF n
  <1>6. s \in Seq(S) /\ DOMAIN s = 1 .. n
    BY <1>2, <1>3
  <1>7. \A x \in S : \E i \in DOMAIN s : s[i] = x
    BY <1>5, <1>6 DEF Surjection
  <1>8. ASSUME NEW x \in S, NEW y \in S, x # y PROVE t[x].position # t[y].position
    <2>1. PICK i \in DOMAIN l, j \in DOMAIN l : l[i] = x /\ l[j] = y
      BY DEF Sorts
    <2>2. i < j \/ j < i
      BY <1>8, <2>1 DEF Sorts
    <2> QED
      BY <2>1, <2>2 DEF Sorts
  <1>9. ASSUME NEW i \in DOMAIN s, NEW j \in DOMAIN s, i < j
        PROVE  t[s[i]].position < t[s[j]].position
    <2>1. s[i] \in S /\ s[j] \in S /\ s[i] # s[j]
      BY <1>2, <1>3, <1>6, <1>9
    <2>2. t[s[i]].position \in Int /\ t[s[j]].position \in Int /\ t[s[i]].position # t[s[j]].position
      BY <1>8, <2>1 DEF Sorts
    <2> QED
      BY <1>9, <2>2
  <1>10. Sorts(t, S, s)
    BY <1>6, <1>7, <1>9 DEF Sorts
  <1> QED
    BY <1>1, <1>10, SortedIsShown

------------------------------------------------------------------------------
(* What the statements do to the lists                                       *)

\* A list is not touched by what is done to the rows of another parent.
LEMMA ApartSorts ==
  ASSUME NEW t, NEW u, NEW p \in Parent, Ordered(t),
         \A x \in Row : ParentOf[x] = p => Exists(u[x]) = Exists(t[x]) /\ u[x].position = t[x].position
  PROVE  /\ Sorts(u, RowsIn(u, p), Shown(u, p))
         /\ Shown(u, p) = Shown(t, p)
  <1>1. RowsIn(u, p) = RowsIn(t, p)
    BY DEF RowsIn
  <1>2. Sorts(t, RowsIn(t, p), Shown(t, p))
    BY DEF Ordered
  <1>3. \A x \in RowsIn(t, p) : u[x].position = t[x].position
    BY DEF RowsIn
  <1>4. Sorts(u, RowsIn(u, p), Shown(t, p))
    BY <1>1, <1>2, <1>3, SameSorts
  <1>5. Shown(u, p) = Shown(t, p)
    BY <1>4, SortedIsShown DEF Shown
  <1> QED
    BY <1>4, <1>5

\* An INSERT behind the others adds to the end of one list.
LEMMA InsertAppends ==
  ASSUME NEW t \in [Row -> OrderedRow], Ordered(t), NEW x \in Row, t[x].row = "none", NEW n \in Nat,
         \A y \in RowsIn(t, ParentOf[x]) : t[y].position < n,
         NEW u, u = [t EXCEPT ![x] = [row |-> "there", position |-> n]]
  PROVE  Ordered(u) /\ \A p \in Parent : Follows(Shown(t, p), Shown(u, p))
  <1>1. ASSUME NEW p \in Parent, ParentOf[x] # p
        PROVE  /\ Sorts(u, RowsIn(u, p), Shown(u, p))
               /\ Shown(u, p) = Shown(t, p)
    <2>1. \A y \in Row : ParentOf[y] = p => u[y] = t[y]
      BY <1>1
    <2> QED
      BY <2>1, ApartSorts
  <1>2. ASSUME NEW p \in Parent, ParentOf[x] = p
        PROVE  /\ Sorts(u, RowsIn(u, p), Shown(u, p))
               /\ Shown(u, p) = Append(Shown(t, p), x) /\ x \notin Range(Shown(t, p))
    <2> DEFINE l == Shown(t, p)
               S == RowsIn(t, p)
    <2>1. Sorts(t, S, l)
      BY DEF Ordered
    <2>2. x \notin S /\ u[x] = [row |-> "there", position |-> n] /\ \A y \in S : y \in Row /\ u[y] = t[y]
      BY DEF RowsIn, Exists
    <2>3. RowsIn(u, p) = S \cup {x}
      BY <1>2, <2>2 DEF RowsIn, Exists
    <2>4. /\ \A y \in S : u[y].position = t[y].position /\ t[y].position < u[x].position
          /\ u[x].position \in Int
      BY <1>2, <2>2
    <2> HIDE DEF l, S
    <2>5. Sorts(u, RowsIn(u, p), Append(l, x))
      <3>1. x \notin S
        BY <2>2
      <3>2. Sorts(u, S \cup {x}, Append(l, x))
        BY ONLY <2>1, <2>4, <3>1, AppendSorts
      <3> QED
        BY <2>3, <3>2
    <2>6. Shown(u, p) = Append(l, x)
      BY <2>5, SortedIsShown DEF Shown
    <2>7. x \notin Range(l)
      BY <2>1, <2>2 DEF Sorts, Range
    <2> QED
      BY <2>5, <2>6, <2>7 DEF l
  <1> QED
    BY <1>1, <1>2 DEF Ordered, Follows

\* A DELETE takes out of one list.
LEMMA DeleteTakes ==
  ASSUME NEW t \in [Row -> OrderedRow], Ordered(t), NEW x \in Row, Exists(t[x]),
         NEW u, u = [t EXCEPT ![x].row = "removed"]
  PROVE  Ordered(u) /\ \A p \in Parent : Follows(Shown(t, p), Shown(u, p))
  <1>1. ASSUME NEW p \in Parent, ParentOf[x] # p
        PROVE  /\ Sorts(u, RowsIn(u, p), Shown(u, p))
               /\ Shown(u, p) = Shown(t, p)
    <2>1. \A y \in Row : ParentOf[y] = p => u[y] = t[y]
      BY <1>1
    <2> QED
      BY <2>1, ApartSorts
  <1>2. ASSUME NEW p \in Parent, ParentOf[x] = p
        PROVE  /\ Sorts(u, RowsIn(u, p), Shown(u, p))
               /\ \E i \in DOMAIN Shown(t, p) : Shown(u, p) = RemoveAt(Shown(t, p), i)
    <2> DEFINE l == Shown(t, p)
               S == RowsIn(t, p)
    <2>1. Sorts(t, S, l)
      BY DEF Ordered
    <2>2. x \in S
      BY <1>2 DEF RowsIn
    <2>3. PICK i \in DOMAIN l : l[i] = x
      BY <2>1, <2>2 DEF Sorts
    <2>4. u[x].row = "removed" /\ \A y \in Row : y # x => u[y] = t[y]
      BY DEF OrderedRow
    <2>5. RowsIn(u, p) = S \ {x} /\ S \subseteq Row
      BY <2>4 DEF RowsIn, Exists
    <2>6. \A y \in S : y # l[i] => u[y].position = t[y].position
      BY <2>3, <2>4, <2>5
    <2> HIDE DEF l, S
    <2>7. Sorts(u, RowsIn(u, p), RemoveAt(l, i))
      <3>1. i \in DOMAIN l
        OBVIOUS
      <3>2. Sorts(u, S \ {l[i]}, RemoveAt(l, i))
        BY ONLY <2>1, <2>6, <3>1, RemoveSorts
      <3> QED
        BY <2>3, <2>5, <3>2
    <2>8. Shown(u, p) = RemoveAt(l, i)
      BY <2>7, SortedIsShown DEF Shown
    <2> QED
      BY <2>7, <2>8 DEF l
  <1> QED
    BY <1>1, <1>2 DEF Ordered, Follows

\* Numbering one list makes it the one that was numbered.
LEMMA NumberingShows ==
  ASSUME NEW t, Ordered(t), NEW o \in Parent, NEW s,
         Enumerates(s, RowsIn(t, o)), Follows(Shown(t, o), s),
         NEW u, \A x \in Row : Exists(u[x]) = Exists(t[x]),
         \A x \in Row : ParentOf[x] # o => u[x].position = t[x].position,
         \A i \in DOMAIN s : u[s[i]].position = i - 1
  PROVE  Ordered(u) /\ \A p \in Parent : Follows(Shown(t, p), Shown(u, p))
  <1>1. ASSUME NEW p \in Parent, p # o
        PROVE  /\ Sorts(u, RowsIn(u, p), Shown(u, p))
               /\ Shown(u, p) = Shown(t, p)
    BY <1>1, ApartSorts
  <1>2. Sorts(u, RowsIn(u, o), Shown(u, o)) /\ Shown(u, o) = s
    <2>1. RowsIn(u, o) = RowsIn(t, o)
      BY DEF RowsIn
    <2>2. Sorts(u, RowsIn(u, o), s)
      BY <2>1, NumberedSorts
    <2>3. Shown(u, o) = s
      BY <2>2, SortedIsShown DEF Shown
    <2> QED
      BY <2>2, <2>3
  <1>3. \A p \in Parent : Sorts(u, RowsIn(u, p), Shown(u, p))
    BY <1>1, <1>2
  <1>4. \A p \in Parent : Follows(Shown(t, p), Shown(u, p))
    <2>1. ASSUME NEW p \in Parent, p # o PROVE Follows(Shown(t, p), Shown(u, p))
      BY <1>1, <2>1 DEF Follows
    <2> QED
      BY <1>2, <2>1
  <1> QED
    BY <1>3, <1>4 DEF Ordered

\* The position after the last is after them all.
LEMMA NextIsLast ==
  ASSUME TypeOK, Ordered(rows), NEW p \in Parent
  PROVE  NextPosition(p) \in Nat /\ \A y \in RowsIn(rows, p) : rows[y].position < NextPosition(p)
  <1> DEFINE l == Shown(rows, p)
             S == RowsIn(rows, p)
             Ps == {rows[x].position : x \in S} \cup {-1}
             last == IF Len(l) = 0 THEN -1 ELSE rows[l[Len(l)]].position
  <1>1. Sorts(rows, S, l)
    BY DEF Ordered
  <1>2. \A x \in S : rows[x].position \in Nat
    BY DEF RowsIn, TypeOK, OrderedRow
  <1>3. l \in Seq(S) /\ Len(l) \in Nat /\ DOMAIN l = 1 .. Len(l)
    BY <1>1 DEF Sorts
  <1> HIDE DEF l, S
  <1>4. last \in Ps /\ last \in Int /\ last >= -1
    BY <1>2, <1>3
  <1>5. ASSUME NEW x \in S PROVE rows[x].position <= last
    <2>1. PICK k \in DOMAIN l : l[k] = x
      BY <1>1 DEF Sorts
    <2>2. Len(l) \in DOMAIN l /\ Len(l) # 0 /\ (k < Len(l) \/ k = Len(l))
      BY <1>3, <2>1
    <2>3. rows[x].position \in Nat /\ rows[l[Len(l)]].position \in Nat
      BY <1>2, <1>3, <2>2
    <2>4. k < Len(l) => rows[l[k]].position < rows[l[Len(l)]].position
      BY <1>1, <2>2 DEF Sorts
    <2> QED
      BY <2>1, <2>2, <2>3, <2>4
  <1>6. \A y \in Ps : y \in Int /\ last >= y
    BY <1>2, <1>4, <1>5
  <1> HIDE DEF Ps, last
  <1>7. Max(Ps) = last
    <2>1. ASSUME NEW m \in Ps, \A y \in Ps : m >= y PROVE m = last
      BY <1>4, <1>6, <2>1
    <2> QED
      BY <1>4, <1>6, <2>1 DEF Max
  <1>8. NextPosition(p) = last + 1
    BY <1>7, ListOfIsShown DEF NextPosition, Ps, S
  <1> QED
    BY <1>2, <1>4, <1>5, <1>8 DEF S

------------------------------------------------------------------------------
(* One request in flight                                                     *)

\* Only one request is in flight at a time.
OneRequest == \A r, s \in Request : r = s

\* What a step must do to keep the invariant, when there is one request: leave
\* a table that keeps its order, and a request that is ready in it.
LEMMA StepKeeps ==
  ASSUME OneRequest, TypeOK, NEW r \in Request, NEW q \in RequestState, Becomes(r, q),
         rows' \in [Row -> OrderedRow], Ordered(rows'), Ready(rows', q)
  PROVE  OrderInv'
  <1>1. requests' \in [Request -> RequestState] /\ \A s \in Request : requests'[s] = q
    BY DEF OneRequest, TypeOK, Becomes
  <1> QED
    BY <1>1 DEF OrderInv, TypeOK

\* Steps that only read.
LEMMA ReadKeeps ==
  ASSUME OneRequest, OrderInv, NEW r \in Request, NEW q \in RequestState, Becomes(r, q),
         UNCHANGED rows, Ready(rows, q)
  PROVE  OrderInv' /\ \A p \in Parent : Follows(Shown(rows, p), Shown(rows', p))
  BY StepKeeps DEF OrderInv, TypeOK, Follows

LEMMA IdleReady == \A t : Ready(t, Idle) /\ Idle \in RequestState
  BY DEF Ready, Idle, RequestState, PC

\* What every step does: keep the invariant, and the promise to the users.
Keeps == OrderInv' /\ \A p \in Parent : Follows(Shown(rows, p), Shown(rows', p))

LEMMA FindMaxPositionKeeps ==
  ASSUME OneRequest, OrderInv, NEW r \in Request, NEW p \in Parent, FindMaxPosition(r, p)
  PROVE  Keeps
  <1> DEFINE q == [Idle EXCEPT !.pc = "insert", !.parent = p, !.position = NextPosition(p)]
  <1>1. NextPosition(p) \in Nat /\ \A y \in RowsIn(rows, p) : rows[y].position < NextPosition(p)
    BY NextIsLast DEF OrderInv
  <1>2. q \in RequestState /\ q.pc = "insert" /\ q.parent = p /\ q.position = NextPosition(p)
    BY <1>1, IdleReady DEF RequestState, PC
  <1>3. Becomes(r, q) /\ UNCHANGED rows
    BY DEF FindMaxPosition
  <1> HIDE DEF q
  <1>4. Ready(rows, q)
    BY <1>1, <1>2 DEF Ready
  <1> QED
    BY <1>2, <1>3, <1>4, ReadKeeps DEF Keeps

LEMMA LoadToDeleteKeeps ==
  ASSUME OneRequest, OrderInv, NEW r \in Request, NEW x \in Row, LoadToDelete(r, x)
  PROVE  Keeps
  <1> DEFINE q == [Idle EXCEPT !.pc = "remove", !.row = x, !.parent = ParentOf[x]]
  <1>1. ParentOf[x] \in Parent
    BY ConstantsAssumption
  <1>2. q \in RequestState /\ q.pc = "remove" /\ q.parent = ParentOf[x] /\ q.row = x
    BY <1>1, IdleReady DEF RequestState, PC
  <1>3. Becomes(r, q) /\ UNCHANGED rows /\ Exists(rows[x])
    BY DEF LoadToDelete
  <1> HIDE DEF q
  <1>4. Ready(rows, q)
    BY <1>1, <1>2, <1>3 DEF Ready, RowsIn
  <1> QED
    BY <1>2, <1>3, <1>4, ReadKeeps DEF Keeps

LEMMA LoadToReorderKeeps ==
  ASSUME OneRequest, OrderInv, NEW r \in Request, NEW x \in Row, NEW n \in NewPositions,
         LoadToReorder(r, x, n)
  PROVE  Keeps
  <1> DEFINE q == [Idle EXCEPT !.pc = "siblings", !.row = x, !.parent = ParentOf[x],
                               !.position = n]
  <1>1. ParentOf[x] \in Parent /\ n \in Nat
    BY ConstantsAssumption
  <1>2. q \in RequestState /\ q.pc = "siblings" /\ q.parent = ParentOf[x] /\ q.row = x
    BY <1>1, IdleReady DEF RequestState, PC
  <1>3. Becomes(r, q) /\ UNCHANGED rows /\ Exists(rows[x])
    BY DEF LoadToReorder
  <1> HIDE DEF q
  <1>4. Ready(rows, q)
    BY <1>1, <1>2, <1>3 DEF Ready, RowsIn
  <1> QED
    BY <1>2, <1>3, <1>4, ReadKeeps DEF Keeps

LEMMA AbortKeeps ==
  ASSUME OneRequest, OrderInv, NEW r \in Request, Abort(r)
  PROVE  Keeps
  BY IdleReady, ReadKeeps DEF Abort, Ends, Keeps

LEMMA InsertRowKeeps ==
  ASSUME OneRequest, OrderInv, NEW r \in Request, NEW x \in Row, InsertRow(r, x)
  PROVE  Keeps
  <1> DEFINE n == requests[r].position
             u == [rows EXCEPT ![x] = [row |-> "there", position |-> n]]
  <1>1. rows \in [Row -> OrderedRow] /\ Ordered(rows) /\ rows[x].row = "none" /\ n \in Nat
    BY DEF OrderInv, TypeOK, InsertRow, RequestState
  <1>2. \A y \in RowsIn(rows, ParentOf[x]) : rows[y].position < n
    BY DEF OrderInv, Ready, InsertRow
  <1>3. rows' = u /\ Becomes(r, Idle)
    BY DEF InsertRow, Ends
  <1>4. u \in [Row -> OrderedRow]
    BY <1>1 DEF OrderedRow, RowState
  <1> HIDE DEF n
  <1>5. Ordered(rows') /\ \A p \in Parent : Follows(Shown(rows, p), Shown(rows', p))
    BY ONLY <1>1, <1>2, <1>3, x \in Row, InsertAppends
  <1> QED
    BY <1>3, <1>4, <1>5, StepKeeps, IdleReady DEF OrderInv, Keeps

LEMMA RemoveRowKeeps ==
  ASSUME OneRequest, OrderInv, NEW r \in Request, RemoveRow(r)
  PROVE  Keeps
  <1> DEFINE q == requests[r]
             u == [rows EXCEPT ![q.row].row = "removed"]
             n == [q EXCEPT !.pc = "siblings", !.row = NoRow]
  <1>1. /\ rows \in [Row -> OrderedRow] /\ Ordered(rows) /\ TypeOK
        /\ q \in RequestState /\ q.pc = "remove" /\ Ready(rows, q)
    BY DEF OrderInv, TypeOK, RemoveRow
  <1>2. q.row \in Row /\ Exists(rows[q.row]) /\ q.parent \in Parent
    BY <1>1 DEF Ready, RowsIn
  <1>3. rows' = u /\ (Becomes(r, n) \/ Becomes(r, Idle))
    BY DEF RemoveRow, Ends
  <1>4. u \in [Row -> OrderedRow]
    BY <1>1, <1>2 DEF OrderedRow, RowState
  <1>5. n \in RequestState /\ n.pc = "siblings" /\ n.row = NoRow /\ n.parent = q.parent
    BY <1>1 DEF RequestState, PC
  <1> HIDE DEF q, n
  <1>6. Ordered(rows') /\ \A p \in Parent : Follows(Shown(rows, p), Shown(rows', p))
    BY ONLY <1>1, <1>2, <1>3, DeleteTakes
  <1>7. Ready(rows', n)
    BY <1>2, <1>5 DEF Ready
  <1> HIDE DEF u
  <1>8. OrderInv'
    BY <1>1, <1>3, <1>4, <1>5, <1>6, <1>7, StepKeeps, IdleReady
  <1> QED
    BY <1>6, <1>8 DEF Keeps

LEMMA FindSiblingsKeeps ==
  ASSUME OneRequest, OrderInv, NEW r \in Request, FindSiblings(r)
  PROVE  Keeps
  <1> DEFINE q == requests[r]
             l == Shown(rows, q.parent)
             S == RowsIn(rows, q.parent)
             old == Index(l, q.row)
             new == IF q.position < Len(l) THEN q.position ELSE Len(l) - 1
             saves(s) == [q EXCEPT !.pc = "select", !.order = s]
  <1>1. /\ Ordered(rows) /\ q \in RequestState /\ q.pc = "siblings" /\ Ready(rows, q)
    BY DEF OrderInv, TypeOK, FindSiblings
  <1>2. q.parent \in Parent /\ (q.row = NoRow \/ q.row \in S) /\ q.position \in Nat
    BY <1>1 DEF Ready, RequestState
  <1>3. Sorts(rows, S, l)
    BY <1>1, <1>2 DEF Ordered
  <1>4. S \subseteq Row
    BY DEF RowsIn
  <1>5. \/ q.row = NoRow /\ Becomes(r, saves(l))
        \/ q.row # NoRow /\ Becomes(r, Idle)
        \/ q.row # NoRow /\ Becomes(r, saves(Moved(l, old, new)))
    <2>1. PICK s \in Orders(q.parent) :
            LET o == Index(s, q.row)
                m == IF q.position < Len(s) THEN q.position ELSE Len(s) - 1
            IN CASE q.row = NoRow -> Becomes(r, saves(s))
                 [] q.row # NoRow /\ o = m -> Ends(r)
                 [] OTHER -> Becomes(r, saves(Moved(s, o, m)))
      BY DEF FindSiblings
    <2>2. /\ s \in SetToSeqs(S)
          /\ \A i, j \in DOMAIN s : i < j => rows[s[i]].position <= rows[s[j]].position
      BY ListOfIsShown DEF Orders
    <2>3. s = l
      BY ONLY <1>3, <2>2, FoundInOrder
    <2> HIDE DEF l, S, saves, q
    <2> QED
      BY <2>1, <2>3 DEF Ends
  <1>6. UNCHANGED rows
    BY DEF FindSiblings
  <1>7. ASSUME NEW s \in Seq(S), Enumerates(s, S), Follows(l, s), Becomes(r, saves(s))
        PROVE  Keeps
    <2>1. s \in Seq(Row)
      BY <1>4
    <2>2. /\ saves(s) \in RequestState /\ saves(s).pc = "select" /\ saves(s).order = s
          /\ saves(s).parent = q.parent
      BY <1>1, <2>1 DEF RequestState, PC
    <2> HIDE DEF saves, q
    <2>3. Ready(rows, saves(s))
      BY <1>2, <1>7, <2>2 DEF Ready
    <2> QED
      BY <1>6, <1>7, <2>2, <2>3, ReadKeeps DEF Keeps
  <1>8. Enumerates(l, S)
    BY <1>3, SortedEnumerates
  <1>9. CASE q.row = NoRow /\ Becomes(r, saves(l))
    <2>1. l \in Seq(S) /\ Follows(l, l)
      BY <1>3 DEF Sorts, Follows
    <2> HIDE DEF l, S, saves
    <2> QED
      BY <1>7, <1>8, <1>9, <2>1
  <1>10. CASE Becomes(r, Idle)
    BY <1>6, <1>10, ReadKeeps, IdleReady DEF Keeps
  <1>11. CASE q.row # NoRow /\ Becomes(r, saves(Moved(l, old, new)))
    <2> DEFINE i == SelectInSeq(l, LAMBDA y : y = q.row)
    <2>1. /\ l \in Seq(S) /\ Len(l) \in Nat /\ DOMAIN l = 1 .. Len(l) /\ IsInjective(l)
          /\ \E k \in DOMAIN l : l[k] = q.row
      BY <1>2, <1>8, <1>11 DEF Enumerates
    <2>2. i \in DOMAIN l /\ l[i] = q.row
      BY ONLY <2>1, FoundAt
    <2>3. old = i - 1
      BY DEF Index
    <2> HIDE DEF i, old, l, S, saves
    <2>4. new \in Nat /\ new + 1 \in DOMAIN l
      BY <1>2, <2>1, <2>2
    <2> HIDE DEF new
    <2>5. Moved(l, old, new) = InsertAt(RemoveAt(l, i), new + 1, l[i])
      <3>1. old # -1 /\ old + 1 = i
        BY <2>1, <2>2, <2>3
      <3> QED
        BY <3>1 DEF Moved
    <2>6. Enumerates(InsertAt(RemoveAt(l, i), new + 1, l[i]), S)
      BY ONLY <1>8, <2>2, <2>4, MovedEnumerates
    <2>7. Follows(l, Moved(l, old, new))
      BY <2>2, <2>4, <2>5 DEF Follows
    <2> QED
      BY <1>7, <1>11, <2>5, <2>6, <2>7 DEF Enumerates
  <1> QED
    BY <1>5, <1>9, <1>10, <1>11

LEMMA SelectSiblingsKeeps ==
  ASSUME OneRequest, OrderInv, NEW r \in Request, SelectSiblings(r)
  PROVE  Keeps
  <1> DEFINE q == requests[r]
             plans == [i \in DOMAIN q.order |-> SavePlan(Renumber(i), rows[q.order[i]])]
             n == [q EXCEPT !.pc = "write", !.plans = plans]
  <1>1. q \in RequestState /\ q.pc = "select" /\ Ready(rows, q) /\ Becomes(r, n) /\ UNCHANGED rows
    BY DEF OrderInv, TypeOK, SelectSiblings
  <1>2. \A i \in DOMAIN q.order : SavePlan(Renumber(i), rows[q.order[i]]) \subseteq {"row", "position"}
    BY DEF SavePlan, Renumber
  <1>3. plans \in Seq(SUBSET {"row", "position"})
    <2>1. DOMAIN q.order = 1 .. Len(q.order) /\ Len(q.order) \in Nat
      BY <1>1 DEF RequestState
    <2> QED
      BY <1>2, <2>1
  <1> HIDE DEF q
  <1>4. /\ n \in RequestState /\ n.pc = "write" /\ n.order = q.order /\ n.parent = q.parent
        /\ n.plans = plans
    BY <1>1, <1>3 DEF RequestState, PC
  <1> HIDE DEF n
  <1>5. Ready(rows, n)
    BY <1>1, <1>4 DEF Ready
  <1> QED
    BY <1>1, <1>4, <1>5, ReadKeeps DEF Keeps

LEMMA WriteSiblingsKeeps ==
  ASSUME OneRequest, OrderInv, NEW r \in Request, WriteSiblings(r)
  PROVE  Keeps
  <1> DEFINE q == requests[r]
             s == q.order
             S == RowsIn(rows, q.parent)
             fails == \E i \in DOMAIN s : SaveFails(q.plans[i], rows[s[i]])
             at(x) == SelectInSeq(s, LAMBDA y : y = x)
             saved(x) == LET i == Index(s, x) + 1
                         IN IF i # 0 /\ SaveHits(q.plans[i], rows[x])
                            THEN SavedRow(q.plans[i], Renumber(i), rows[x]) ELSE rows[x]
  <1>1. /\ Ordered(rows) /\ rows \in [Row -> OrderedRow] /\ q \in RequestState
        /\ q.pc = "write" /\ Ready(rows, q) /\ Becomes(r, Idle)
        /\ rows' = IF fails THEN rows ELSE [x \in Row |-> saved(x)]
    BY DEF OrderInv, TypeOK, WriteSiblings, Ends
  <1>2. /\ q.parent \in Parent /\ Enumerates(s, S) /\ Follows(Shown(rows, q.parent), s)
        /\ q.plans = [i \in DOMAIN s |-> SavePlan(Renumber(i), rows[s[i]])]
    BY <1>1 DEF Ready
  <1>3. /\ s \in Seq(S) /\ IsInjective(s) /\ DOMAIN s = 1 .. Len(s) /\ Len(s) \in Nat
        /\ \A x \in S : \E i \in DOMAIN s : s[i] = x
        /\ \A i \in DOMAIN s : s[i] \in S
    BY <1>2 DEF Enumerates
  <1>4. \A x \in S : x \in Row /\ ParentOf[x] = q.parent /\ Exists(rows[x])
    BY DEF RowsIn
  <1>5. ASSUME NEW i \in DOMAIN s
        PROVE  /\ "row" \notin q.plans[i]
               /\ SavedRow(q.plans[i], Renumber(i), rows[s[i]]) = [row |-> "there", position |-> i - 1]
    <2>1. Exists(rows[s[i]]) /\ rows[s[i]] \in OrderedRow
      BY <1>1, <1>3, <1>4
    <2>2. q.plans[i] = {f \in {"row", "position"} : Renumber(i)[f] # rows[s[i]][f]}
      BY <1>2, <2>1 DEF SavePlan, Renumber
    <2>3. rows[s[i]].row = "there" /\ Renumber(i).row = "there" /\ Renumber(i).position = i - 1
      BY <2>1 DEF Exists, Renumber
    <2> HIDE DEF q, s
    <2> QED
      BY <2>2, <2>3 DEF SavedRow, Written
  <1>6. ~fails
    BY <1>5 DEF SaveFails, IsInsert
  <1>7. rows' = [x \in Row |-> saved(x)]
    BY <1>1, <1>6
  <1>8. ASSUME NEW x \in Row, x \notin S PROVE saved(x) = rows[x]
    <2>1. \A k \in DOMAIN s : s[k] # x
      BY <1>3, <1>8
    <2>2. at(x) = 0
      BY ONLY <1>3, <2>1, FoundAt
    <2>3. Index(s, x) + 1 = 0
      BY <2>2 DEF Index
    <2> QED
      BY <2>3
  <1>9. ASSUME NEW k \in DOMAIN s PROVE saved(s[k]) = [row |-> "there", position |-> k - 1]
    <2>1. at(s[k]) \in DOMAIN s /\ s[at(s[k])] = s[k]
      <3>1. \E j \in DOMAIN s : s[j] = s[k]
        OBVIOUS
      <3> HIDE DEF s, S
      <3> QED
        BY ONLY <1>3, <3>1, FoundAt
    <2>2. at(s[k]) = k
      <3> HIDE DEF at
      <3> QED
        BY <1>3, <2>1 DEF IsInjective
    <2>3. Index(s, s[k]) + 1 = k /\ k # 0
      BY <1>3, <2>2 DEF Index
    <2>4. SaveHits(q.plans[k], rows[s[k]])
      BY <1>3, <1>4 DEF SaveHits
    <2> HIDE DEF q, s
    <2> QED
      BY <1>5, <2>3, <2>4
  <1> HIDE DEF saved, fails, at, q, s, S
  <1>10. rows' \in [Row -> OrderedRow] /\ \A x \in Row : Exists(rows'[x]) = Exists(rows[x])
    <2>1. ASSUME NEW x \in Row PROVE saved(x) \in OrderedRow /\ Exists(saved(x)) = Exists(rows[x])
      <3>1. CASE x \in S
        <4>1. PICK k \in DOMAIN s : s[k] = x
          BY <1>3, <3>1
        <4>2. saved(x) = [row |-> "there", position |-> k - 1] /\ k - 1 \in Nat
          BY <1>3, <1>9, <4>1
        <4> QED
          BY <1>4, <3>1, <4>2 DEF OrderedRow, RowState, Exists
      <3>2. CASE x \notin S
        BY <1>1, <1>8, <3>2
      <3> QED
        BY <3>1, <3>2
    <2> QED
      BY <1>7, <2>1
  <1>11. \A i \in DOMAIN s : rows'[s[i]].position = i - 1
    BY <1>3, <1>4, <1>7, <1>9
  <1>12. \A x \in Row : ParentOf[x] # q.parent => rows'[x].position = rows[x].position
    BY <1>4, <1>7, <1>8
  <1>13. Ordered(rows') /\ \A p \in Parent : Follows(Shown(rows, p), Shown(rows', p))
    <2>1. Enumerates(s, RowsIn(rows, q.parent))
      BY <1>2 DEF S
    <2>2. Ordered(rows) /\ q.parent \in Parent /\ Follows(Shown(rows, q.parent), s)
      BY <1>1, <1>2
    <2> QED
      BY ONLY <1>10, <1>11, <1>12, <2>1, <2>2, NumberingShows
  <1>14. OrderInv'
    BY <1>1, <1>10, <1>13, StepKeeps, IdleReady DEF OrderInv
  <1> QED
    BY <1>13, <1>14 DEF Keeps

LEMMA OrderStep ==
  ASSUME OneRequest, OrderInv, [Next]_vars
  PROVE  Keeps
  <1>1. CASE UNCHANGED vars
    BY <1>1 DEF vars, OrderInv, TypeOK, Keeps, Follows
  <1>2. ASSUME NEW r \in Request, Step(r) PROVE Keeps
    BY <1>2, FindMaxPositionKeeps, InsertRowKeeps, LoadToDeleteKeeps, LoadToReorderKeeps,
       RemoveRowKeeps, FindSiblingsKeeps, SelectSiblingsKeeps, WriteSiblingsKeeps, AbortKeeps
    DEF Step
  <1> QED
    BY <1>1, <1>2 DEF Next

LEMMA OrderInit ==
  ASSUME Init
  PROVE  OrderInv /\ \A p \in Parent : Shown(rows, p) = Template[p]
  <1> DEFINE at(x) == SelectInSeq(Template[ParentOf[x]], LAMBDA y : y = x)
  <1>1. ASSUME NEW p \in Parent
        PROVE  /\ Template[p] \in Seq(Row) /\ IsInjective(Template[p])
               /\ \A x \in Range(Template[p]) : ParentOf[x] = p
    BY ConstantsAssumption
  <1>2. ASSUME NEW p \in Parent, NEW k \in DOMAIN Template[p]
        PROVE  /\ Template[p][k] \in Row /\ ParentOf[Template[p][k]] = p
               /\ rows[Template[p][k]] = [row |-> "there", position |-> k - 1]
    <2> DEFINE s == Template[p]
               i == SelectInSeq(s, LAMBDA y : y = s[k])
    <2>1. s \in Seq(Row) /\ IsInjective(s) /\ s[k] \in Row /\ ParentOf[s[k]] = p
      BY <1>1 DEF Range
    <2>2. \E j \in DOMAIN s : s[j] = s[k]
      OBVIOUS
    <2>3. i \in DOMAIN s /\ s[i] = s[k]
      <3> HIDE DEF s
      <3> QED
        BY ONLY <2>1, <2>2, FoundAt
    <2>4. i = k /\ i # 0
      <3> HIDE DEF i
      <3> QED
        BY <2>1, <2>3 DEF IsInjective
    <2> HIDE DEF i
    <2>5. rows[s[k]] = [row |-> "there", position |-> k - 1]
      BY <2>1, <2>4 DEF Init, i
    <2> QED
      BY <2>1, <2>5
  <1>3. ASSUME NEW p \in Parent, NEW x \in Row, ParentOf[x] = p, \A k \in DOMAIN Template[p] : Template[p][k] # x
        PROVE  rows[x] = [row |-> "none", position |-> 0]
    <2>1. Template[p] \in Seq(Row)
      BY <1>1
    <2>2. SelectInSeq(Template[p], LAMBDA y : y = x) = 0
      BY ONLY <1>3, <2>1, FoundAt
    <2> QED
      BY <1>3, <2>2 DEF Init
  <1>4. ASSUME NEW p \in Parent
        PROVE  Sorts(rows, RowsIn(rows, p), Shown(rows, p)) /\ Shown(rows, p) = Template[p]
    <2> DEFINE s == Template[p]
               S == RowsIn(rows, p)
    <2>1. s \in Seq(Row) /\ IsInjective(s) /\ DOMAIN s = 1 .. Len(s)
      BY <1>1
    <2>2. ASSUME NEW k \in DOMAIN s PROVE s[k] \in S /\ rows[s[k]].position = k - 1
      <3>1. s[k] \in Row /\ ParentOf[s[k]] = p /\ rows[s[k]] = [row |-> "there", position |-> k - 1]
        BY <1>2
      <3> QED
        BY <3>1 DEF RowsIn, Exists
    <2>3. \A x \in S : \E k \in DOMAIN s : s[k] = x
      BY <1>3 DEF RowsIn, Exists
    <2> HIDE DEF s, S
    <2>4. Enumerates(s, S)
      <3>1. s \in Seq(S)
        BY <2>1, <2>2
      <3> QED
        BY <2>1, <2>3, <3>1 DEF Enumerates
    <2>5. Sorts(rows, S, s)
      BY ONLY <2>2, <2>4, NumberedSorts
    <2> QED
      BY <2>5, SortedIsShown DEF Shown, s, S
  <1>5. TypeOK
    <2>1. ASSUME NEW x \in Row PROVE rows[x] \in OrderedRow
      <3>1. ParentOf[x] \in Parent
        BY ConstantsAssumption
      <3>2. CASE \A k \in DOMAIN Template[ParentOf[x]] : Template[ParentOf[x]][k] # x
        BY <1>3, <3>1, <3>2 DEF OrderedRow, RowState
      <3>3. ASSUME NEW k \in DOMAIN Template[ParentOf[x]], Template[ParentOf[x]][k] = x
            PROVE  rows[x] \in OrderedRow
        <4>1. rows[x] = [row |-> "there", position |-> k - 1] /\ k - 1 \in Nat
          BY <1>1, <1>2, <3>1, <3>3
        <4> QED
          BY <4>1 DEF OrderedRow, RowState
      <3> QED
        BY <3>2, <3>3
    <2>2. rows \in [Row -> OrderedRow]
      BY <2>1 DEF Init
    <2> QED
      BY <2>2, IdleReady DEF Init, TypeOK
  <1> QED
    BY <1>4, <1>5, IdleReady DEF OrderInv, Ordered, Init

\* What the invariant is in one step of BoardList and Checklist.
LEMMA BoardStep ==
  ASSUME Follows(ListOf(board), ListOf(board)')
  PROVE  [BoardList!Next]_(ListOf(board))
  <1>1. /\ \A s : BoardList!Range(s) = Range(s)
        /\ \A s, i : BoardList!RemoveAt(s, i) = RemoveAt(s, i)
        /\ \A s, i, e : BoardList!InsertAt(s, i, e) = InsertAt(s, i, e)
    BY DEF BoardList!Range, BoardList!RemoveAt, BoardList!InsertAt, Range, RemoveAt, InsertAt
  <1> DEFINE l == ListOf(board)
  <1>2. \/ l' = l
        \/ l' \in BoardList!Adding(l)
        \/ l' \in BoardList!Taking(l)
        \/ l' \in BoardList!Moving(l)
    BY <1>1 DEF Follows, BoardList!Adding, BoardList!Taking, BoardList!Moving
  <1> QED
    BY <1>2 DEF BoardList!Next

LEMMA ChecklistStep ==
  ASSUME Follows(ListOf(checklist), ListOf(checklist)')
  PROVE  [Checklist!Next]_(ListOf(checklist))
  <1>1. /\ \A s : Checklist!Range(s) = Range(s)
        /\ \A s, i : Checklist!RemoveAt(s, i) = RemoveAt(s, i)
        /\ \A s, i, e : Checklist!InsertAt(s, i, e) = InsertAt(s, i, e)
    BY DEF Checklist!Range, Checklist!RemoveAt, Checklist!InsertAt, Range, RemoveAt, InsertAt
  <1> DEFINE l == ListOf(checklist)
  <1>2. \/ l' = l
        \/ l' \in Checklist!Adding(l)
        \/ l' \in Checklist!Taking(l)
        \/ l' \in Checklist!Moving(l)
    BY <1>1 DEF Follows, Checklist!Adding, Checklist!Taking, Checklist!Moving
  <1> QED
    BY <1>2 DEF Checklist!Next

\* The order of the columns of a project is a list to whose end columns are
\* added, out of which any is taken, and in which one moves at a time.
THEOREM ColumnsAreAList ==
  ASSUME OneRequest
  PROVE  Spec => BoardIsList
  <1>1. Init => OrderInv /\ ListOf(board) = Template[board]
    BY OrderInit, ListOfIsShown, PartsAssumption
  <1>2. OrderInv /\ [Next]_vars => OrderInv' /\ [BoardList!Next]_(ListOf(board))
    <2> SUFFICES ASSUME OrderInv, [Next]_vars
                 PROVE  OrderInv' /\ [BoardList!Next]_(ListOf(board))
      OBVIOUS
    <2>1. Keeps
      BY OrderStep
    <2>2. Follows(ListOf(board), ListOf(board)')
      BY <2>1, PartsAssumption DEF Keeps, Shown, RowsIn, ListOf, ListIn, RowsOf
    <2> QED
      BY <2>1, <2>2, BoardStep DEF Keeps
  <1>3. ListOf(board) = Template[board] => BoardList!Init
    BY DEF BoardList!Init
  <1> QED
    BY <1>1, <1>2, <1>3, PTL DEF Spec, BoardIsList, BoardList!Spec

\* The order of the sub-tasks of a task likewise.
THEOREM SubTasksAreAList ==
  ASSUME OneRequest
  PROVE  Spec => ChecklistIsList
  <1>1. Init => OrderInv /\ ListOf(checklist) = Template[checklist]
    BY OrderInit, ListOfIsShown, PartsAssumption
  <1>2. OrderInv /\ [Next]_vars => OrderInv' /\ [Checklist!Next]_(ListOf(checklist))
    <2> SUFFICES ASSUME OrderInv, [Next]_vars
                 PROVE  OrderInv' /\ [Checklist!Next]_(ListOf(checklist))
      OBVIOUS
    <2>1. Keeps
      BY OrderStep
    <2>2. Follows(ListOf(checklist), ListOf(checklist)')
      BY <2>1, PartsAssumption DEF Keeps, Shown, RowsIn, ListOf, ListIn, RowsOf
    <2> QED
      BY <2>1, <2>2, ChecklistStep DEF Keeps
  <1>3. ListOf(checklist) = Template[checklist] => Checklist!Init
    BY DEF Checklist!Init
  <1> QED
    BY <1>1, <1>2, <1>3, PTL DEF Spec, ChecklistIsList, Checklist!Spec

\* No schedule of one request at a time leaves two rows of a parent with the
\* same position, nor a request with what no longer holds.
THEOREM OrderedAlways ==
  ASSUME OneRequest
  PROVE  Spec => []OrderInv
  <1>1. Init => OrderInv
    BY OrderInit
  <1>2. OrderInv /\ [Next]_vars => OrderInv'
    BY OrderStep DEF Keeps
  <1> QED
    BY <1>1, <1>2, PTL DEF Spec

------------------------------------------------------------------------------
(* Membership *)

Answering == {"select", "write"}
Holding == Answering \cup {"remove"}

\* What an answer to an invitation leaves of a row.
Answered(row) == row.status = "declined" /\ ~row.token

OwnerStands == members[OwnerRow] = M!OwnerMember

\* Only an accepted row has a token: acceptInvitation refuses every one.
TokensOfAccepted ==
    \A m \in MemberId : M!Exists(members[m]) /\ members[m].token => members[m].status = "accepted"

\* A request holds a row that is not the owner's and whose id is not used
\* again.  One that saves holds the answer to an invitation, and leaves a column
\* out of its plan only when the row has the answer already.
HoldsOthers(r) ==
    LET q == invitations[r]
        row == members[q.member]
    IN /\ q.pc \in Holding => q.member \in MemberId \ {OwnerRow} /\ row.row # "none"
       /\ q.pc \in Answering => M!Exists(q.entity) /\ Answered(q.entity)
       /\ q.pc = "write" /\ M!IsInsert(q.plan) => q.plan = DOMAIN M!NoMemberRow
       /\ q.pc = "write" /\ ~M!IsInsert(q.plan) /\ M!Exists(row) =>
            /\ "status" \in q.plan \/ row.status = "declined"
            /\ "token" \in q.plan \/ ~row.token

NoAccepts == \A r \in Slot : invitations[r].kind # "accept"

MembersInv ==
    /\ M!TypeOK /\ OwnerStands /\ TokensOfAccepted /\ NoAccepts
    /\ \A r \in Slot : HoldsOthers(r)

------------------------------------------------------------------------------

LEMMA MemberTypes ==
    /\ M!NoMemberRow \in M!MemberRow
    /\ [M!NoMemberRow EXCEPT !.row = "removed"] \in M!MemberRow
    /\ M!OwnerMember \in M!MemberRow
    /\ \A u \in Person : M!Invited(u) \in M!MemberRow
    /\ M!Idle \in M!RequestState
  BY PartsAssumption
  DEF M!NoMemberRow, M!OwnerMember, M!Invited, M!MemberRow, M!RowState, M!Idle, M!RequestState, M!PC, M!Kind

LEMMA InitMembers == M!Init => MembersInv
  <1> SUFFICES ASSUME M!Init PROVE MembersInv
    OBVIOUS
  <1>1. M!TypeOK
    BY MemberTypes DEF M!Init, M!TypeOK
  <1>2. OwnerStands
    BY PartsAssumption DEF M!Init, OwnerStands
  <1>3. TokensOfAccepted
    BY DEF M!Init, TokensOfAccepted, M!OwnerMember, M!NoMemberRow, M!Exists
  <1>4. NoAccepts /\ \A r \in Slot : HoldsOthers(r)
    BY DEF M!Init, NoAccepts, HoldsOthers, M!Idle, Answering, Holding
  <1> QED
    BY <1>1, <1>2, <1>3, <1>4 DEF MembersInv

\* A step that only moves one request to a state in which it holds no row.
LEMMA ReleaseKeeps ==
  ASSUME MembersInv, UNCHANGED members, NEW r \in Slot, NEW q \in M!RequestState,
         q.pc \notin Holding, q.kind # "accept",
         invitations' = [invitations EXCEPT ![r] = q]
  PROVE  MembersInv'
  <1>1. \A s \in Slot : invitations'[s] = IF s = r THEN q ELSE invitations[s]
    BY DEF MembersInv, M!TypeOK
  <1>2. M!TypeOK'
    BY DEF MembersInv, M!TypeOK
  <1>3. OwnerStands' /\ TokensOfAccepted'
    BY DEF MembersInv, OwnerStands, TokensOfAccepted
  <1>4. NoAccepts' /\ \A s \in Slot : HoldsOthers(s)'
    BY <1>1 DEF MembersInv, NoAccepts, HoldsOthers, Holding, Answering
  <1> QED
    BY <1>2, <1>3, <1>4 DEF MembersInv

\* A step that changes one row that is not the owner's: nobody holds it yet, or
\* it is gone, or it has been answered; the request that changes it holds no row
\* afterwards.
LEMMA ChangeKeeps ==
  ASSUME MembersInv, NEW r \in Slot, NEW q \in M!RequestState, NEW m \in MemberId, NEW row \in M!MemberRow,
         q.pc \notin Holding, q.kind # "accept",
         invitations' = [invitations EXCEPT ![r] = q],
         members' = [members EXCEPT ![m] = row],
         m # OwnerRow, row.row # "none",
         M!Exists(row) /\ row.token => row.status = "accepted",
         \/ members[m].row = "none"
         \/ ~M!Exists(row)
         \/ Answered(row)
  PROVE  MembersInv'
  <1>1. \A s \in Slot : invitations'[s] = IF s = r THEN q ELSE invitations[s]
    BY DEF MembersInv, M!TypeOK
  <1>2. \A n \in MemberId : members'[n] = IF n = m THEN row ELSE members[n]
    BY DEF MembersInv, M!TypeOK
  <1>3. M!TypeOK'
    BY DEF MembersInv, M!TypeOK
  <1>4. OwnerStands'
    BY <1>2, PartsAssumption DEF MembersInv, OwnerStands
  <1>5. TokensOfAccepted'
    BY <1>2 DEF MembersInv, TokensOfAccepted
  <1>6. NoAccepts'
    BY <1>1 DEF MembersInv, NoAccepts
  <1>7. ASSUME NEW s \in Slot PROVE HoldsOthers(s)'
    <2>1. CASE s = r
      BY <1>1, <2>1 DEF HoldsOthers, Holding, Answering
    <2>2. CASE s # r /\ invitations[s].pc \notin Holding
      BY <1>1, <2>2 DEF HoldsOthers, Holding, Answering
    <2>3. CASE s # r /\ invitations[s].pc \in Holding
      <3>1. HoldsOthers(s) /\ invitations'[s] = invitations[s]
        BY <1>1, <2>3 DEF MembersInv
      <3>2. invitations[s].member \in MemberId
        BY <2>3, <3>1 DEF HoldsOthers
      <3>3. CASE invitations[s].member # m
        BY <1>2, <3>1, <3>2, <3>3 DEF HoldsOthers, Holding, Answering
      <3>4. CASE invitations[s].member = m
        <4>1. ~M!Exists(row) \/ Answered(row)
          BY <2>3, <3>1, <3>4 DEF HoldsOthers
        <4> QED
          BY <1>2, <3>1, <3>2, <3>4, <4>1 DEF HoldsOthers, Holding, Answering, Answered
      <3> QED
        BY <3>3, <3>4
    <2> QED
      BY <2>1, <2>2, <2>3
  <1> QED
    BY <1>3, <1>4, <1>5, <1>6, <1>7 DEF MembersInv

\* The end of a list of addresses, or the next of them.
LEMMA ContinueReleases ==
  ASSUME NEW r \in Slot, NEW todo \in SUBSET Person, M!Continue(r, todo)
  PROVE  \E q \in M!RequestState : /\ q.pc \in {"idle", "next"} /\ q.kind # "accept"
                                   /\ invitations' = [invitations EXCEPT ![r] = q]
  <1>1. M!Idle \in M!RequestState /\ M!Idle.pc = "idle" /\ M!Idle.kind # "accept"
    BY MemberTypes DEF M!Idle
  <1> DEFINE q == [M!Idle EXCEPT !.kind = "invite", !.pc = "next", !.todo = todo]
  <1>2. q \in M!RequestState /\ q.pc = "next" /\ q.kind = "invite"
    BY <1>1 DEF M!RequestState, M!PC, M!Kind
  <1> QED
    BY <1>1, <1>2 DEF M!Continue, M!Ends, M!Becomes

LEMMA BeginInviteKeeps ==
  ASSUME MembersInv, NEW r \in Slot, NEW users \in SUBSET Person, M!BeginInvite(r, users)
  PROVE  MembersInv'
  <1> DEFINE q == [M!Idle EXCEPT !.kind = "invite", !.pc = "next", !.todo = users]
  <1>1. q \in M!RequestState /\ q.pc = "next" /\ q.kind = "invite"
    BY MemberTypes DEF M!RequestState, M!PC, M!Kind
  <1>2. invitations' = [invitations EXCEPT ![r] = q] /\ UNCHANGED members
    BY DEF M!BeginInvite, M!Becomes
  <1> QED
    BY <1>1, <1>2, ReleaseKeeps DEF Holding, Answering

LEMMA FindMemberKeeps ==
  ASSUME MembersInv, NEW r \in Slot, NEW u \in Person, M!FindMember(r, u)
  PROVE  MembersInv'
  <1>1. invitations[r] \in M!RequestState /\ UNCHANGED members
    BY DEF MembersInv, M!TypeOK, M!FindMember
  <1>2. CASE M!RowsOf(u) # {}
    <2>1. invitations[r].todo \ {u} \in SUBSET Person
      BY <1>1 DEF M!RequestState
    <2>2. M!Continue(r, invitations[r].todo \ {u})
      BY <1>2 DEF M!FindMember
    <2> QED
      BY <1>1, <2>1, <2>2, ContinueReleases, ReleaseKeeps DEF Holding, Answering
  <1>3. CASE M!RowsOf(u) = {}
    <2> DEFINE q == [invitations[r] EXCEPT !.pc = "insert", !.user = u, !.todo = @ \ {u}]
    <2>1. q \in M!RequestState /\ q.pc = "insert" /\ q.kind # "accept"
      BY <1>1 DEF M!RequestState, M!PC, MembersInv, NoAccepts
    <2>2. invitations' = [invitations EXCEPT ![r] = q]
      BY <1>3 DEF M!FindMember, M!Becomes
    <2> QED
      BY <1>1, <2>1, <2>2, ReleaseKeeps DEF Holding, Answering
  <1> QED
    BY <1>2, <1>3

LEMMA InsertKeeps ==
  ASSUME MembersInv, NEW r \in Slot, NEW m \in MemberId, M!InsertMember(r, m)
  PROVE  MembersInv'
  <1>1. invitations[r] \in M!RequestState /\ M!Idle \in M!RequestState
    BY MemberTypes DEF MembersInv, M!TypeOK
  <1>2. CASE M!Taken(invitations[r].user, m)
    <2>1. M!Idle.pc = "idle" /\ M!Idle.kind = "none"
      BY DEF M!Idle
    <2> QED
      BY <1>1, <1>2, <2>1, ReleaseKeeps DEF M!InsertMember, M!Ends, M!Becomes, Holding, Answering
  <1>3. CASE ~M!Taken(invitations[r].user, m)
    <2> DEFINE row == M!Invited(invitations[r].user)
    <2>1. members[m].row = "none" /\ members' = [members EXCEPT ![m] = row]
      BY <1>3 DEF M!InsertMember
    <2>2. PICK q \in M!RequestState : /\ q.pc \in {"idle", "next"} /\ q.kind # "accept"
                                      /\ invitations' = [invitations EXCEPT ![r] = q]
      BY <1>1, <1>3, ContinueReleases DEF M!InsertMember, M!RequestState
    <2>3. row \in M!MemberRow /\ row.row # "none" /\ row.status = "accepted"
      BY <1>1 DEF M!Invited, M!MemberRow, M!RowState, M!RequestState
    <2>4. m # OwnerRow
      BY <2>1 DEF MembersInv, OwnerStands, M!OwnerMember
    <2> QED
      BY <2>1, <2>2, <2>3, <2>4, ChangeKeeps DEF Holding, Answering
  <1> QED
    BY <1>2, <1>3

\* The row a handler finds is not the owner's: removeMember compares the user,
\* leaveProject the role, and the owner's row has no token to be declined by.
LEMMA LoadsKeep ==
  ASSUME MembersInv, NEW r \in Slot, NEW u \in Person, NEW m \in MemberId,
         M!LoadToRemove(r, u, m) \/ M!LoadToLeave(r, u, m) \/ M!LoadToDecline(r, m)
  PROVE  MembersInv'
  <1>1. /\ UNCHANGED members
        /\ m # OwnerRow /\ members[m].row # "none" /\ members[m] \in M!MemberRow
    BY DEF M!LoadToRemove, M!LoadToLeave, M!LoadToDecline, M!RowsOf, M!Exists, M!Removable,
           MembersInv, OwnerStands, M!OwnerMember, M!TypeOK
  <1>2. PICK q \in M!RequestState :
            /\ invitations' = [invitations EXCEPT ![r] = q] /\ q.kind # "accept"
            /\ q.member = m /\ q.pc \in {"remove", "select"}
            /\ q.pc = "select" => M!Exists(q.entity) /\ Answered(q.entity)
    <2> DEFINE remove == [M!Idle EXCEPT !.kind = "remove", !.pc = "remove", !.member = m]
               leave == [M!Idle EXCEPT !.kind = "leave", !.pc = "remove", !.member = m]
               decline == [M!Idle EXCEPT !.kind = "decline", !.pc = "select", !.member = m,
                                       !.entity = M!Declined(members[m])]
    <2>1. M!Declined(members[m]) \in M!MemberRow /\ Answered(M!Declined(members[m]))
          /\ M!Declined(members[m]).row = members[m].row
      BY <1>1 DEF M!Declined, M!MemberRow, Answered
    <2>2. remove \in M!RequestState /\ leave \in M!RequestState /\ decline \in M!RequestState
      BY <2>1, MemberTypes DEF M!RequestState, M!PC, M!Kind
    <2>3. /\ remove.kind = "remove" /\ remove.pc = "remove" /\ remove.member = m
          /\ leave.kind = "leave" /\ leave.pc = "remove" /\ leave.member = m
          /\ decline.kind = "decline" /\ decline.pc = "select" /\ decline.member = m
          /\ decline.entity = M!Declined(members[m])
      BY DEF M!Idle
    <2>4. M!LoadToDecline(r, m) => M!Exists(members[m])
      BY DEF M!LoadToDecline
    <2>5. \/ invitations' = [invitations EXCEPT ![r] = decline] /\ M!LoadToDecline(r, m)
          \/ invitations' \in {[invitations EXCEPT ![r] = remove], [invitations EXCEPT ![r] = leave]}
      BY DEF M!LoadToRemove, M!LoadToLeave, M!LoadToDecline, M!Becomes
    <2> HIDE DEF remove, leave, decline
    <2> QED
      BY <2>1, <2>2, <2>3, <2>4, <2>5 DEF M!Exists
  <1>3. \A s \in Slot : invitations'[s] = IF s = r THEN q ELSE invitations[s]
    BY <1>2 DEF MembersInv, M!TypeOK
  <1>4. M!TypeOK' /\ OwnerStands' /\ TokensOfAccepted' /\ NoAccepts'
    BY <1>1, <1>2, <1>3 DEF MembersInv, M!TypeOK, OwnerStands, TokensOfAccepted, NoAccepts
  <1>5. \A s \in Slot : HoldsOthers(s)'
    BY <1>1, <1>2, <1>3 DEF MembersInv, HoldsOthers, Holding, Answering
  <1> QED
    BY <1>4, <1>5 DEF MembersInv

\* acceptInvitation is answered "Invitation already accepted".
LEMMA AcceptIsRefused ==
  ASSUME MembersInv, NEW r \in Slot, NEW u \in Person, NEW m \in MemberId, M!LoadToAccept(r, u, m)
  PROVE  UNCHANGED memberships
  BY DEF M!LoadToAccept, MembersInv, TokensOfAccepted, memberships

LEMMA RemoveKeeps ==
  ASSUME MembersInv, NEW r \in Slot, M!RemoveMember(r)
  PROVE  MembersInv'
  <1> DEFINE m == invitations[r].member
             gone == [M!NoMemberRow EXCEPT !.row = "removed"]
  <1>1. M!Idle \in M!RequestState /\ M!Idle.pc = "idle" /\ M!Idle.kind = "none"
        /\ invitations' = [invitations EXCEPT ![r] = M!Idle]
    BY MemberTypes DEF M!RemoveMember, M!Ends, M!Becomes, M!Idle
  <1>2. CASE M!Exists(members[m])
    <2>1. members' = [members EXCEPT ![m] = gone]
      BY <1>2 DEF M!RemoveMember
    <2>2. gone \in M!MemberRow /\ gone.row = "removed"
      BY MemberTypes DEF M!NoMemberRow
    <2>3. m \in MemberId \ {OwnerRow}
      BY DEF M!RemoveMember, MembersInv, HoldsOthers, Holding
    <2> HIDE DEF gone, m
    <2> QED
      BY <1>1, <2>1, <2>2, <2>3, ChangeKeeps DEF Holding, Answering, M!Exists
  <1>3. CASE ~M!Exists(members[m])
    BY <1>1, <1>3, ReleaseKeeps DEF M!RemoveMember, Holding, Answering
  <1> QED
    BY <1>2, <1>3

LEMMA SelectKeeps ==
  ASSUME MembersInv, NEW r \in Slot, M!SelectMember(r)
  PROVE  MembersInv'
  <1> DEFINE row == members[invitations[r].member]
             plan == M!SavePlan(invitations[r].entity, row)
             q == [invitations[r] EXCEPT !.pc = "write", !.plan = plan]
  <1>1. /\ invitations[r] \in M!RequestState /\ invitations[r].pc = "select"
        /\ invitations' = [invitations EXCEPT ![r] = q] /\ UNCHANGED members
        /\ HoldsOthers(r) /\ invitations[r].kind # "accept"
    BY DEF M!SelectMember, M!Becomes, MembersInv, M!TypeOK, NoAccepts
  <1>2. invitations[r].entity \in M!MemberRow /\ row \in M!MemberRow
    BY <1>1 DEF M!RequestState, HoldsOthers, Holding, Answering, MembersInv, M!TypeOK
  <1>3. DOMAIN invitations[r].entity = DOMAIN M!NoMemberRow
    BY <1>2 DEF M!MemberRow, M!NoMemberRow
  <1>4. plan \in SUBSET DOMAIN M!NoMemberRow
    BY <1>3 DEF M!SavePlan
  <1>5. /\ M!IsInsert(plan) => plan = DOMAIN M!NoMemberRow
        /\ ~M!IsInsert(plan) /\ M!Exists(row) =>
              /\ "status" \in plan \/ row.status = "declined"
              /\ "token" \in plan \/ ~row.token
    <2>1. M!Exists(invitations[r].entity) /\ Answered(invitations[r].entity)
      BY <1>1 DEF HoldsOthers, Answering
    <2>2. {"row", "status", "token"} \subseteq DOMAIN M!NoMemberRow
      BY DEF M!NoMemberRow
    <2>3. CASE ~M!Exists(row)
      BY <1>3, <2>3 DEF M!SavePlan
    <2>4. CASE M!Exists(row)
      <3>1. plan = {f \in DOMAIN M!NoMemberRow : invitations[r].entity[f] # row[f]}
        BY <1>3, <2>4 DEF M!SavePlan
      <3>2. "row" \notin plan
        BY <2>1, <2>4, <3>1 DEF M!Exists
      <3> HIDE DEF plan
      <3>3. "status" \in plan \/ row.status = "declined"
        BY <2>1, <2>2, <3>1 DEF Answered
      <3>4. "token" \in plan \/ ~row.token
        BY <2>1, <2>2, <3>1 DEF Answered
      <3> QED
        BY <3>2, <3>3, <3>4 DEF M!IsInsert
    <2> QED
      BY <2>3, <2>4
  <1>6. q \in M!RequestState /\ q.pc = "write" /\ q.kind # "accept" /\ q.plan = plan
        /\ q.member = invitations[r].member /\ q.entity = invitations[r].entity
    BY <1>1, <1>4 DEF M!RequestState, M!PC
  <1> HIDE DEF plan, q
  <1>7. \A s \in Slot : invitations'[s] = IF s = r THEN q ELSE invitations[s]
    BY <1>1 DEF MembersInv, M!TypeOK
  <1>8. M!TypeOK' /\ OwnerStands' /\ TokensOfAccepted' /\ NoAccepts'
    BY <1>1, <1>6, <1>7 DEF MembersInv, M!TypeOK, OwnerStands, TokensOfAccepted, NoAccepts
  <1>9. \A s \in Slot : HoldsOthers(s)'
    BY <1>1, <1>5, <1>6, <1>7 DEF MembersInv, HoldsOthers, Holding, Answering
  <1> QED
    BY <1>8, <1>9 DEF MembersInv

\* The row a save leaves is the answer to an invitation, whatever happened to
\* the row since it was selected.
LEMMA SavedIsAnswered ==
  ASSUME MembersInv, NEW r \in Slot, invitations[r].pc = "write",
         M!SaveHits(invitations[r].plan, members[invitations[r].member]),
         ~M!SaveFails(invitations[r].plan, members[invitations[r].member])
  PROVE  LET row == M!SavedMember(invitations[r].plan, invitations[r].entity, members[invitations[r].member])
         IN row \in M!MemberRow /\ M!Exists(row) /\ Answered(row)
  <1> DEFINE q == invitations[r]
             old == members[q.member]
             row == M!SavedMember(q.plan, q.entity, old)
  <1>1. q \in M!RequestState /\ old \in M!MemberRow /\ HoldsOthers(r)
    BY DEF MembersInv, M!TypeOK, HoldsOthers, Holding, Answering
  <1>2. q.entity \in M!MemberRow /\ M!Exists(q.entity) /\ Answered(q.entity)
    BY <1>1 DEF M!RequestState, HoldsOthers, Answering
  <1>3. row \in M!MemberRow
    BY <1>1, <1>2 DEF M!SavedMember, M!Written, M!MemberRow
  <1>4. CASE M!IsInsert(q.plan)
    <2>1. {"row", "status", "token"} \subseteq q.plan
      BY <1>1, <1>4 DEF HoldsOthers, M!NoMemberRow
    <2> QED
      BY <1>2, <1>3, <2>1 DEF M!SavedMember, M!Written, Answered, M!Exists
  <1>5. CASE ~M!IsInsert(q.plan)
    <2>1. M!Exists(old)
      BY <1>5 DEF M!SaveHits
    <2>2. /\ "status" \in q.plan \/ old.status = "declined"
          /\ "token" \in q.plan \/ ~old.token
      BY <1>1, <1>5, <2>1 DEF HoldsOthers
    <2> QED
      BY <1>2, <1>3, <2>1, <2>2 DEF M!SavedMember, M!Written, Answered, M!Exists
  <1> QED
    BY <1>4, <1>5

LEMMA WriteKeeps ==
  ASSUME MembersInv, NEW r \in Slot, M!WriteMember(r)
  PROVE  MembersInv'
  <1> DEFINE q == invitations[r]
             old == members[q.member]
             row == M!SavedMember(q.plan, q.entity, old)
  <1>1. M!Idle \in M!RequestState /\ M!Idle.pc = "idle" /\ M!Idle.kind = "none"
        /\ invitations' = [invitations EXCEPT ![r] = M!Idle]
    BY MemberTypes DEF M!WriteMember, M!Ends, M!Becomes, M!Idle
  <1>2. q.pc = "write" /\ q.member \in MemberId \ {OwnerRow}
    BY DEF M!WriteMember, MembersInv, HoldsOthers, Holding, Answering
  <1>3. CASE UNCHANGED members
    BY <1>1, <1>3, ReleaseKeeps DEF Holding, Answering
  <1>4. CASE ~UNCHANGED members
    <2>1. /\ members' = [members EXCEPT ![q.member] = row]
          /\ M!SaveHits(q.plan, old) /\ ~M!SaveFails(q.plan, old)
      BY <1>4 DEF M!WriteMember
    <2>2. row \in M!MemberRow /\ M!Exists(row) /\ Answered(row)
      BY <1>2, <2>1, SavedIsAnswered
    <2> HIDE DEF row
    <2> QED
      BY <1>1, <1>2, <2>1, <2>2, ChangeKeeps DEF Holding, Answering, M!Exists, Answered
  <1> QED
    BY <1>3, <1>4

LEMMA GivingUpKeepsMembers ==
  ASSUME MembersInv, NEW r \in Slot, M!Abort(r)
  PROVE  MembersInv'
  <1>1. M!Idle \in M!RequestState /\ M!Idle.pc = "idle" /\ M!Idle.kind = "none"
    BY MemberTypes DEF M!Idle
  <1> QED
    BY <1>1, ReleaseKeeps DEF M!Abort, M!Ends, M!Becomes, Holding, Answering

LEMMA StutterKeepsMembers == ASSUME MembersInv, UNCHANGED memberships PROVE MembersInv'
  BY DEF memberships, MembersInv, M!TypeOK, OwnerStands, TokensOfAccepted, NoAccepts, HoldsOthers

LEMMA StepKeepsMembers == MembersInv /\ [M!Next]_memberships => MembersInv'
  <1> SUFFICES ASSUME MembersInv, [M!Next]_memberships PROVE MembersInv'
    OBVIOUS
  <1>1. ASSUME NEW r \in Slot, M!Step(r) PROVE MembersInv'
    <2>1. ASSUME NEW users \in SUBSET Person, M!BeginInvite(r, users) PROVE MembersInv'
      BY <2>1, BeginInviteKeeps
    <2>2. ASSUME NEW u \in Person, M!FindMember(r, u) PROVE MembersInv'
      BY <2>2, FindMemberKeeps
    <2>3. ASSUME NEW m \in MemberId, M!InsertMember(r, m) PROVE MembersInv'
      BY <2>3, InsertKeeps
    <2>4. ASSUME NEW u \in Person, NEW m \in MemberId, M!LoadToRemove(r, u, m) \/ M!LoadToLeave(r, u, m)
          PROVE  MembersInv'
      BY <2>4, LoadsKeep
    <2>5. ASSUME NEW u \in Person, NEW m \in MemberId, M!LoadToAccept(r, u, m) PROVE MembersInv'
      BY <2>5, AcceptIsRefused, StutterKeepsMembers
    <2>6. ASSUME NEW m \in MemberId, M!LoadToDecline(r, m) PROVE MembersInv'
      BY <2>6, PartsAssumption, LoadsKeep
    <2>7. CASE M!RemoveMember(r)
      BY <2>7, RemoveKeeps
    <2>8. CASE M!SelectMember(r)
      BY <2>8, SelectKeeps
    <2>9. CASE M!WriteMember(r)
      BY <2>9, WriteKeeps
    <2>10. CASE M!Abort(r)
      BY <2>10, GivingUpKeepsMembers
    <2> QED
      BY <1>1, <2>1, <2>2, <2>3, <2>4, <2>5, <2>6, <2>7, <2>8, <2>9, <2>10 DEF M!Step
  <1>2. CASE UNCHANGED memberships
    BY <1>2, StutterKeepsMembers
  <1> QED
    BY <1>1, <1>2 DEF M!Next

------------------------------------------------------------------------------

\* Nothing removes, declines or takes over the owner's membership: the guard of
\* removeMember on projects.owner_id, that of leaveProject on the role and the
\* missing token of the owner's row leave it as create made it.
THEOREM OwnerStays == M!Spec => []OwnerIsMember
  <1>1. MembersInv => OwnerIsMember
    BY PartsAssumption
    DEF MembersInv, OwnerStands, M!OwnerMember, OwnerIsMember, M!OwnerIsMember, M!IsMember, M!RowsOf, M!Exists
  <1> QED
    BY InitMembers, StepKeepsMembers, <1>1, PTL DEF M!Spec, M!vars, memberships

\* Every token belongs to an accepted row, so that acceptInvitation refuses all
\* of them and no request of its kind gets past its check.
THEOREM EveryAcceptIsRefused == M!Spec => [](TokensOfAccepted /\ NoAccepts)
  <1>1. MembersInv => TokensOfAccepted /\ NoAccepts
    BY DEF MembersInv
  <1> QED
    BY InitMembers, StepKeepsMembers, <1>1, PTL DEF M!Spec, M!vars, memberships

\* The table of members changes by three statements only.
LEMMA ThreeChangeMembers ==
  ASSUME NEW r \in Slot, M!Step(r), members' # members
  PROVE  (\E n \in MemberId : M!InsertMember(r, n)) \/ M!RemoveMember(r) \/ M!WriteMember(r)
  <1>1. ASSUME NEW users \in SUBSET Person, M!BeginInvite(r, users) PROVE FALSE
    BY <1>1 DEF M!BeginInvite
  <1>2. ASSUME NEW u \in Person, M!FindMember(r, u) PROVE FALSE
    BY <1>2 DEF M!FindMember
  <1>3. ASSUME NEW u \in Person, NEW m \in MemberId,
               M!LoadToRemove(r, u, m) \/ M!LoadToLeave(r, u, m) \/ M!LoadToAccept(r, u, m)
        PROVE  FALSE
    BY <1>3 DEF M!LoadToRemove, M!LoadToLeave, M!LoadToAccept
  <1>4. ASSUME NEW m \in MemberId, M!LoadToDecline(r, m) PROVE FALSE
    BY <1>4 DEF M!LoadToDecline
  <1>5. ~M!SelectMember(r) /\ ~M!Abort(r)
    BY DEF M!SelectMember, M!Abort
  <1> QED
    BY <1>1, <1>2, <1>3, <1>4, <1>5 DEF M!Step

\* A user who was no member is one after a step only because an invitation
\* inserted the row in this step: no stale save of declineInvitation, nor one
\* that inserts a removed row again, lets anybody in.
LEMMA AdmissionIsInsert ==
  ASSUME MembersInv, [M!Next]_memberships, NEW u \in Person, ~M!IsMember(u), M!IsMember(u)'
  PROVE  \E r \in Slot : /\ invitations[r].pc = "insert" /\ invitations[r].user = u
                         /\ invitations'[r] # invitations[r]
  <1>1. PICK m \in MemberId : /\ M!Exists(members'[m]) /\ members'[m].user = u
                              /\ members'[m].status = "accepted"
    BY DEF M!IsMember, M!RowsOf
  <1>2. members'[m] # members[m]
    BY <1>1 DEF M!IsMember, M!RowsOf
  <1>3. members' # members
    BY <1>2
  <1>4. PICK r \in Slot :
            (\E n \in MemberId : M!InsertMember(r, n)) \/ M!RemoveMember(r) \/ M!WriteMember(r)
    BY <1>3, ThreeChangeMembers DEF M!Next, memberships
  <1>5. CASE \E n \in MemberId : M!InsertMember(r, n)
    <2>1. PICK n \in MemberId : M!InsertMember(r, n)
      BY <1>5
    <2>2. invitations[r].pc = "insert" /\ invitations[r] \in M!RequestState
      BY <2>1 DEF M!InsertMember, MembersInv, M!TypeOK
    <2>3. ~M!Taken(invitations[r].user, n) /\ members' = [members EXCEPT ![n] = M!Invited(invitations[r].user)]
      BY <1>3, <2>1 DEF M!InsertMember
    <2>4. M!Continue(r, invitations[r].todo)
      BY <2>1, <2>3 DEF M!InsertMember
    <2>5. n = m /\ members'[m] = M!Invited(invitations[r].user)
      BY <1>2, <2>3 DEF MembersInv, M!TypeOK
    <2>6. invitations[r].user = u
      BY <1>1, <2>5 DEF M!Invited
    <2>7. invitations'[r] # invitations[r]
      <3>1. PICK q \in M!RequestState : /\ q.pc \in {"idle", "next"}
                                        /\ invitations' = [invitations EXCEPT ![r] = q]
        BY <2>2, <2>4, ContinueReleases DEF M!RequestState
      <3> QED
        BY <2>2, <3>1 DEF MembersInv, M!TypeOK
    <2> QED
      BY <2>2, <2>6, <2>7
  <1>6. ASSUME M!RemoveMember(r) PROVE FALSE
    <2> DEFINE gone == [M!NoMemberRow EXCEPT !.row = "removed"]
    <2>1. gone.row = "removed"
      BY DEF M!NoMemberRow
    <2> HIDE DEF gone
    <2>2. members'[m] = gone
      BY <1>2, <1>3, <1>6 DEF M!RemoveMember, MembersInv, M!TypeOK, gone
    <2> QED
      BY <1>1, <2>1, <2>2 DEF M!Exists
  <1>7. ASSUME M!WriteMember(r) PROVE FALSE
    <2> DEFINE q == invitations[r]
               row == M!SavedMember(q.plan, q.entity, members[q.member])
    <2>1. /\ members' = [members EXCEPT ![q.member] = row] /\ q.pc = "write"
          /\ M!SaveHits(q.plan, members[q.member]) /\ ~M!SaveFails(q.plan, members[q.member])
      BY <1>3, <1>7 DEF M!WriteMember
    <2>2. Answered(row)
      BY <2>1, SavedIsAnswered
    <2> HIDE DEF row
    <2>3. members'[m] = row
      BY <1>2, <2>1 DEF MembersInv, M!TypeOK
    <2> QED
      BY <1>1, <2>2, <2>3 DEF Answered
  <1> QED
    BY <1>4, <1>5, <1>6, <1>7

\* Whoever becomes a member does so by an invitation that names the user, for
\* any number of requests and wherever they die.
THEOREM OnlyInvitations == M!Spec => OnlyInvitationsAdmit
  <1> DEFINE Admitted == \A u \in Person : ~M!IsMember(u) /\ M!IsMember(u)' =>
          \E r \in Slot : /\ invitations[r].pc = "insert" /\ invitations[r].user = u
                          /\ invitations'[r] # invitations[r]
  <1>1. MembersInv /\ [M!Next]_memberships => [Admitted]_memberships
    BY AdmissionIsInsert
  <1> QED
    BY InitMembers, StepKeepsMembers, <1>1, PTL DEF M!Spec, M!vars, memberships, OnlyInvitationsAdmit, M!OnlyInvitationsAdmit

\* A statement changes one row, and either keeps its user or has just been
\* checked against the unique index.
LEMMA ChangedRow ==
  ASSUME MembersInv, [M!Next]_memberships, members' # members
  PROVE  \E m \in MemberId, row \in M!MemberRow :
            /\ members' = [members EXCEPT ![m] = row]
            /\ M!Exists(row) => \/ M!Exists(members[m]) /\ members[m].user = row.user
                                \/ ~M!Taken(row.user, m)
  <1>1. PICK r \in Slot :
            (\E n \in MemberId : M!InsertMember(r, n)) \/ M!RemoveMember(r) \/ M!WriteMember(r)
    BY ThreeChangeMembers DEF M!Next, memberships
  <1>2. CASE \E n \in MemberId : M!InsertMember(r, n)
    <2>1. PICK n \in MemberId : M!InsertMember(r, n)
      BY <1>2
    <2> DEFINE row == M!Invited(invitations[r].user)
    <2>2. ~M!Taken(invitations[r].user, n) /\ members' = [members EXCEPT ![n] = row]
      BY <2>1 DEF M!InsertMember
    <2>3. row \in M!MemberRow /\ row.user = invitations[r].user
      BY DEF M!Invited, M!MemberRow, M!RowState, M!RequestState, MembersInv, M!TypeOK
    <2> HIDE DEF row
    <2> QED
      BY <2>2, <2>3
  <1>3. CASE M!RemoveMember(r)
    <2> DEFINE gone == [M!NoMemberRow EXCEPT !.row = "removed"]
    <2>1. gone \in M!MemberRow /\ ~M!Exists(gone)
      BY MemberTypes DEF M!NoMemberRow, M!Exists
    <2>2. invitations[r].member \in MemberId
      BY <1>3 DEF M!RemoveMember, MembersInv, HoldsOthers, Holding
    <2>3. members' = [members EXCEPT ![invitations[r].member] = gone]
      BY <1>3 DEF M!RemoveMember
    <2> HIDE DEF gone
    <2> QED
      BY <2>1, <2>2, <2>3
  <1>4. CASE M!WriteMember(r)
    <2> DEFINE q == invitations[r]
               old == members[q.member]
               row == M!SavedMember(q.plan, q.entity, old)
    <2>1. /\ q.pc = "write" /\ q.member \in MemberId /\ HoldsOthers(r)
          /\ members' = [members EXCEPT ![q.member] = row]
          /\ M!SaveHits(q.plan, old) /\ ~M!SaveFails(q.plan, old)
          /\ "user" \in q.plan => ~M!Taken(q.entity.user, q.member)
      BY <1>4 DEF M!WriteMember, MembersInv, HoldsOthers, Holding, Answering
    <2>2. row \in M!MemberRow
      BY <2>1, SavedIsAnswered
    <2>3. CASE "user" \in q.plan
      BY <2>1, <2>2, <2>3 DEF M!SavedMember, M!Written
    <2>4. CASE "user" \notin q.plan
      <3>1. "user" \in DOMAIN M!NoMemberRow
        BY DEF M!NoMemberRow
      <3>2. M!Exists(old)
        BY <2>1, <2>4, <3>1 DEF HoldsOthers, M!SaveHits
      <3>3. row.user = old.user
        BY <2>4 DEF M!SavedMember, M!Written
      <3> QED
        BY <2>1, <2>2, <3>2, <3>3
    <2> QED
      BY <2>3, <2>4
  <1> QED
    BY <1>1, <1>2, <1>3, <1>4

\* The check of inviteMembers and its INSERT are two statements, and a stale
\* decline may insert a removed row again: it is the index that keeps one row
\* to a user, and no UPDATE gets around it.
THEOREM OneRow == M!Spec => []OneRowPerUser
  <1>1. M!Init => OneRowPerUser
    BY DEF M!Init, OneRowPerUser, M!OneRowPerUser, M!RowsOf, M!Exists, M!NoMemberRow
  <1>2. ASSUME MembersInv, OneRowPerUser, [M!Next]_memberships PROVE OneRowPerUser'
    <2>1. CASE members' = members
      BY <1>2, <2>1 DEF OneRowPerUser, M!OneRowPerUser, M!RowsOf
    <2>2. CASE members' # members
      <3>1. PICK m \in MemberId, row \in M!MemberRow :
                /\ members' = [members EXCEPT ![m] = row]
                /\ M!Exists(row) => \/ M!Exists(members[m]) /\ members[m].user = row.user
                                    \/ ~M!Taken(row.user, m)
        BY <1>2, <2>2, ChangedRow
      <3>2. \A n \in MemberId : members'[n] = IF n = m THEN row ELSE members[n]
        BY <1>2, <3>1 DEF MembersInv, M!TypeOK
      <3>3. ASSUME NEW u \in Person, NEW k \in MemberId, NEW n \in MemberId, k # n,
                   M!Exists(members'[k]), members'[k].user = u,
                   M!Exists(members'[n]), members'[n].user = u
            PROVE  FALSE
        <4>1. \A x \in MemberId, y \in MemberId :
                 /\ x # y /\ M!Exists(members[x]) /\ M!Exists(members[y])
                 => members[x].user # u \/ members[y].user # u
          BY <1>2 DEF OneRowPerUser, M!OneRowPerUser, M!RowsOf
        <4>2. ~M!Taken(u, m) => \A x \in MemberId \ {m} : ~(M!Exists(members[x]) /\ members[x].user = u)
          BY DEF M!Taken, M!RowsOf
        <4> QED
          BY <3>1, <3>2, <3>3, <4>1, <4>2
      <3> QED
        BY <3>3 DEF OneRowPerUser, M!OneRowPerUser, M!RowsOf
    <2> QED
      BY <2>1, <2>2
  <1> QED
    BY InitMembers, StepKeepsMembers, <1>1, <1>2, PTL DEF M!Spec, M!vars, memberships

------------------------------------------------------------------------------
(* The six side by side *)

\* What the six parts do side by side is what each does alone.
THEOREM PartsAreApart == PartsSpec => Spec /\ D!Spec /\ A!Spec /\ L!Spec /\ P!Spec /\ M!Spec
  <1>1. PartsInit => Init /\ D!Init /\ A!Init /\ L!Init /\ P!Init /\ M!Init
    BY DEF PartsInit
  <1>2. [PartsNext]_parts => /\ [Next]_vars /\ [D!Next]_discussions /\ [A!Next]_attachments
                            /\ [L!Next]_labels /\ [P!Next]_checklists /\ [M!Next]_memberships
    BY DEF PartsNext, parts, lists
  <1> QED
    BY <1>1, <1>2, PTL DEF PartsSpec, Spec, D!Spec, A!Spec, L!Spec, A!vars, attachments, L!vars, labels,
                           D!vars, D!histories, discussions, P!Spec, P!vars, checklists,
                           M!Spec, M!vars, memberships
=============================================================================
