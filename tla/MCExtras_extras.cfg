SPECIFICATION MCSpec
CONSTANTS
    board = board
    checklist = checklist
    k1 = k1
    k2 = k2
    k3 = k3
    s1 = s1
    s2 = s2
    s3 = s3
    Row <- MCRow
    Parent = {board, checklist}
    ParentOf <- MCParentOf
    Renumbered = {board}
    Template <- MCTemplate
    NewPositions = {0, 1, 5}
    Request = {r0}
    CanAbort = TRUE
    NoRow = NoRow
    NoParent = NoParent
    u1 = u1
    u2 = u2
    User = {u1, u2}
    Client = {r1, r2}
    Creator = u1
    Text = {1, 2}
    Nobody = Nobody
    c2 = c2
    Mentions <- MCMentions
    SystemLabels <- MCLabels
    Comment = {c1, c2}
    Attachment = {f1, f2}
    Custom = {l1}
    Task = {t1}
    p1 = p1
    p2 = p2
    SubTask = {p1, p2}
    NoSubTask = NoSubTask
    ann = ann
    o1 = o1
    MemberId = {o1, s1, s2, s3}
    Person = {ann, p1, p2}
    Owner = ann
    OwnerRow = o1
    Slot = {a1, a2, a3}
SYMMETRY Symmetric
INVARIANTS ConcernedAreTold StoresAgree SeededOnce ProgressIsExact OwnerIsMember OneRowPerUser
PROPERTIES BoardIsList ChecklistIsList DeletedCommentsStay OnlyInvitationsAdmit
CHECK_DEADLOCK FALSE
