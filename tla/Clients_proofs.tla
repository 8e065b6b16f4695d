---------------------------- MODULE Clients_proofs ----------------------------
(***************************************************************************)
(* Theorems about Clients: what a page shows is what is stored, for any      *)
(* number of requests in flight, any data and any limits.  Each page has an  *)
(* inductive invariant of its own; the steps of the others leave it alone.   *)
(***************************************************************************)
EXTENDS Clients, Functions, TLAPS, FunctionTheorems, FiniteSetTheorems, SequenceTheorems

------------------------------------------------------------------------------
(* The page of notifications                                                 *)

InboxRequests ==
    [kind : {"none", "load", "one", "all"}, pc : {"idle", "sent", "served"},
     mine : BOOLEAN, id : Notification \cup {None}, rows : Seq(Inbox!Row),
     count : 0 .. Cardinality(Notification), left : SUBSET {"rows", "count"}]

NewestCount(list) == IF InboxLimit <= Len(list) THEN InboxLimit ELSE Len(list)
FirstRows(list, known) ==
    [i \in 1 .. NewestCount(list) |-> [id |-> list[i], isRead |-> list[i] \in known]]

\* These rows are among all, and those shown as read among what is read.
RowsIn(list, all, read) ==
    \A i \in DOMAIN list : list[i].id \in all /\ (list[i].isRead => list[i].id \in read)

\* A request in flight: what it marked is marked.
InboxRequest(q, list, read, after) ==
    /\ q.pc = "idle" <=> q.kind = "none"
    /\ q.kind = "none" => q = Inbox!Idle
    /\ q.kind # "load" => q.left = {}
    /\ Len(q.rows) <= InboxLimit
    /\ q.kind = "one" => q.id \in Range(list)
    /\ q.kind = "one" /\ q.pc = "served" => q.id \in read
    /\ q.kind = "all" /\ q.pc = "served" => Range(list) \subseteq read \cup after

InboxTyped ==
    /\ inbox \in Seq(Notification) /\ isRead \subseteq Range(inbox) /\ late \subseteq Notification
    /\ shown \in Seq(Inbox!Row) /\ Len(shown) <= InboxLimit
    /\ store.rows \in Seq(Inbox!Row) /\ store.unread \in 0 .. Cardinality(Notification)
    /\ DOMAIN store = {"rows", "unread"}
    /\ requests \in [Request -> InboxRequests]

InboxFlags ==
    /\ open \in BOOLEAN /\ loading \in BOOLEAN /\ error \in BOOLEAN /\ markingAll \in BOOLEAN
    /\ changed \in BOOLEAN /\ crossed \in BOOLEAN /\ missed \in BOOLEAN
    /\ marking \in Notification \cup {None}

\* The tab knows of what is read, but for the answers on their way.
KnowsRead(known) ==
    /\ known \subseteq isRead
    /\ shown = FirstRows(inbox, known)
    /\ store = [rows |-> FirstRows(inbox, known), unread |-> Cardinality(Range(inbox) \ known)]
    /\ \/ \E r \in Request : requests[r].kind = "all" /\ requests[r].pc = "served"
       \/ \A n \in isRead \ known : \E r \in Request :
              requests[r].kind = "one" /\ requests[r].pc = "served" /\ requests[r].id = n

\* A fetch is alone on its way, and what it has read is what there is.
FetchIsAlone(r) ==
    /\ loading /\ \A s \in Request \ {r} : requests[s].pc = "idle"
    /\ "rows" \notin requests[r].left => requests[r].rows = FirstRows(inbox, isRead)
    /\ "count" \notin requests[r].left => requests[r].count = Cardinality(Range(inbox) \ isRead)

\* Nothing has disturbed the page since it began to fetch.
InboxFollows ==
    /\ \A r \in Request : requests[r].pc # "idle" => requests[r].mine
    /\ \A r \in Request : requests[r].kind = "load" => FetchIsAlone(r)
    /\ loading => \E r \in Request : requests[r].kind = "load"
    /\ \A r \in Request : requests[r].kind = "one" => \E i \in DOMAIN shown : shown[i].id = requests[r].id
    /\ \A r \in Request : requests[r].kind = "all" /\ requests[r].pc = "served" => isRead = Range(inbox)
    /\ loading \/ \E known \in SUBSET Range(inbox) : KnowsRead(known)

InboxUndisturbed == open /\ ~changed /\ ~crossed /\ ~missed

InboxInv ==
    /\ InboxTyped /\ InboxFlags
    /\ \A r \in Request : /\ InboxRequest(requests[r], inbox, isRead, late)
                          /\ RowsIn(requests[r].rows, Range(inbox), isRead \cup late)
    /\ RowsIn(shown, Range(inbox), isRead \cup late) /\ RowsIn(store.rows, Range(inbox), isRead \cup late)
    /\ InboxUndisturbed => InboxFollows

LEMMA InboxOps ==
  /\ \A S : Inbox!Cardinality(S) = Cardinality(S)
  /\ \A s : Inbox!Range(s) = Range(s)
  BY DEF Inbox!Cardinality, Cardinality, Inbox!Range, Range

LEMMA InboxMin ==
  ASSUME NEW a \in Nat, NEW b \in Nat
  PROVE  Inbox!Min({a, b}) = IF a <= b THEN a ELSE b
  <1> DEFINE m == IF a <= b THEN a ELSE b
  <1>1. m \in {a, b} /\ \A y \in {a, b} : m <= y
    OBVIOUS
  <1>2. ASSUME NEW x \in {a, b}, \A y \in {a, b} : x <= y
        PROVE  x = m
    BY <1>2
  <1> QED
    BY <1>1, <1>2 DEF Inbox!Min

\* A function on an initial part of the numbers is a sequence.
LEMMA MapIsSeq ==
  ASSUME NEW S, NEW n \in Nat, NEW f \in [1 .. n -> S]
  PROVE  f \in Seq(S) /\ Len(f) = n /\ DOMAIN f = 1 .. n
  OBVIOUS

\* The first rows of an inbox.
LEMMA FirstRowsTyped ==
  ASSUME NEW list \in Seq(Notification), NEW known
  PROVE  /\ NewestCount(list) \in Nat /\ NewestCount(list) <= InboxLimit /\ NewestCount(list) <= Len(list)
         /\ FirstRows(list, known) \in Seq(Inbox!Row)
         /\ Len(FirstRows(list, known)) = NewestCount(list)
         /\ DOMAIN FirstRows(list, known) = 1 .. NewestCount(list)
         /\ \A i \in 1 .. NewestCount(list) :
               /\ FirstRows(list, known)[i] = [id |-> list[i], isRead |-> list[i] \in known]
               /\ list[i] \in Range(list) /\ list[i] \in Notification
  <1>1. /\ NewestCount(list) \in Nat /\ NewestCount(list) <= InboxLimit /\ NewestCount(list) <= Len(list)
        /\ Len(list) \in Nat
    BY ClientsAssumption DEF NewestCount
  <1>2. \A i \in 1 .. NewestCount(list) : list[i] \in Range(list) /\ list[i] \in Notification
    BY <1>1 DEF Range
  <1> DEFINE F == FirstRows(list, known)
  <1>3. /\ F = [i \in 1 .. NewestCount(list) |-> F[i]] /\ DOMAIN F = 1 .. NewestCount(list)
        /\ \A i \in 1 .. NewestCount(list) : F[i] = [id |-> list[i], isRead |-> list[i] \in known]
    BY DEF FirstRows
  <1>4. \A i \in 1 .. NewestCount(list) : F[i] \in Inbox!Row
    <2> TAKE i \in 1 .. NewestCount(list)
    <2>1. (list[i] \in known) \in BOOLEAN /\ list[i] \in Notification
      BY <1>2
    <2>2. [id |-> list[i], isRead |-> list[i] \in known] \in Inbox!Row
      BY <2>1 DEF Inbox!Row
    <2> HIDE DEF F
    <2> QED
      BY <1>3, <2>2
  <1> HIDE DEF F
  <1>5. F \in [1 .. NewestCount(list) -> Inbox!Row]
    BY <1>3, <1>4
  <1>6. F \in Seq(Inbox!Row) /\ Len(F) = NewestCount(list)
    BY <1>1, <1>5, MapIsSeq
  <1> QED
    BY <1>1, <1>2, <1>3, <1>6 DEF F

LEMMA FirstRowsIn ==
  ASSUME NEW list \in Seq(Notification), NEW known
  PROVE  RowsIn(FirstRows(list, known), Range(list), known)
  <1> DEFINE F == FirstRows(list, known)
  <1>1. /\ DOMAIN F = 1 .. NewestCount(list)
        /\ \A i \in 1 .. NewestCount(list) :
              F[i] = [id |-> list[i], isRead |-> list[i] \in known] /\ list[i] \in Range(list)
    BY FirstRowsTyped
  <1> HIDE DEF F
  <1>2. \A i \in DOMAIN F : F[i].id = list[i] /\ F[i].isRead = (list[i] \in known) /\ list[i] \in Range(list)
    BY <1>1
  <1>3. RowsIn(F, Range(list), known)
    BY <1>2 DEF RowsIn
  <1> QED
    BY <1>3 DEF F

LEMMA NewestIs ==
  ASSUME inbox \in Seq(Notification)
  PROVE  Inbox!Newest = FirstRows(inbox, isRead)
  <1>1. Len(inbox) \in Nat /\ InboxLimit \in Nat
    BY ClientsAssumption
  <1>2. Inbox!Min({InboxLimit, Len(inbox)}) = NewestCount(inbox)
    BY <1>1, InboxMin DEF NewestCount
  <1> QED
    BY <1>2 DEF Inbox!Newest, FirstRows

\* What the unread ones of an inbox number.
LEMMA UnreadCount ==
  ASSUME NEW list \in Seq(Notification), NEW known
  PROVE  /\ IsFiniteSet(Range(list) \ known)
         /\ Cardinality(Range(list) \ known) \in 0 .. Cardinality(Notification)
  <1>1. Range(list) \ known \subseteq Notification
    BY DEF Range
  <1>2. IsFiniteSet(Notification) /\ Cardinality(Notification) \in Nat
    BY ClientsAssumption, FS_CardinalityType
  <1> QED
    BY <1>1, <1>2, FS_Subset, FS_CardinalityType

LEMMA RowRead ==
  ASSUME NEW x \in Inbox!Row, NEW b \in BOOLEAN
  PROVE  [x EXCEPT !.isRead = b] = [id |-> x.id, isRead |-> b] /\ [id |-> x.id, isRead |-> b] \in Inbox!Row
  BY DEF Inbox!Row

LEMMA MarkedTyped ==
  ASSUME NEW list \in Seq(Inbox!Row), NEW n
  PROVE  /\ Inbox!Marked(list, n) \in Seq(Inbox!Row) /\ Inbox!AllMarked(list) \in Seq(Inbox!Row)
         /\ Len(Inbox!Marked(list, n)) = Len(list) /\ Len(Inbox!AllMarked(list)) = Len(list)
         /\ DOMAIN Inbox!Marked(list, n) = DOMAIN list /\ DOMAIN Inbox!AllMarked(list) = DOMAIN list
         /\ \A i \in DOMAIN list :
               /\ Inbox!Marked(list, n)[i] = [id |-> list[i].id, isRead |-> list[i].isRead \/ list[i].id = n]
               /\ Inbox!AllMarked(list)[i] = [id |-> list[i].id, isRead |-> TRUE]
  <1> DEFINE m == Inbox!Marked(list, n)
             a == Inbox!AllMarked(list)
  <1>1. Len(list) \in Nat /\ DOMAIN list = 1 .. Len(list)
    OBVIOUS
  <1>2. ASSUME NEW i \in 1 .. Len(list)
        PROVE  /\ m[i] = [id |-> list[i].id, isRead |-> list[i].isRead \/ list[i].id = n]
               /\ a[i] = [id |-> list[i].id, isRead |-> TRUE]
               /\ m[i] \in Inbox!Row /\ a[i] \in Inbox!Row
    <2>1. list[i] \in Inbox!Row
      OBVIOUS
    <2>2. list[i].isRead \in BOOLEAN
      BY <2>1 DEF Inbox!Row
    <2>3. (list[i].isRead \/ list[i].id = n) \in BOOLEAN /\ TRUE \in BOOLEAN
      BY <2>2
    <2>4. m[i] = [list[i] EXCEPT !.isRead = list[i].isRead \/ list[i].id = n]
      BY <1>1 DEF Inbox!Marked
    <2>5. a[i] = [list[i] EXCEPT !.isRead = TRUE]
      BY <1>1 DEF Inbox!AllMarked
    <2>6. \A b \in BOOLEAN : /\ [list[i] EXCEPT !.isRead = b] = [id |-> list[i].id, isRead |-> b]
                             /\ [id |-> list[i].id, isRead |-> b] \in Inbox!Row
      BY <2>1, RowRead
    <2> HIDE DEF m, a
    <2> QED
      BY <2>3, <2>4, <2>5, <2>6
  <1>3. DOMAIN m = 1 .. Len(list) /\ DOMAIN a = 1 .. Len(list)
        /\ m = [i \in 1 .. Len(list) |-> m[i]] /\ a = [i \in 1 .. Len(list) |-> a[i]]
    BY <1>1 DEF Inbox!Marked, Inbox!AllMarked
  <1> HIDE DEF m, a
  <1>4. m \in [1 .. Len(list) -> Inbox!Row] /\ a \in [1 .. Len(list) -> Inbox!Row]
    BY ONLY <1>2, <1>3
  <1>5. /\ m \in Seq(Inbox!Row) /\ a \in Seq(Inbox!Row)
        /\ Len(m) = Len(list) /\ Len(a) = Len(list)
    BY <1>1, <1>4, MapIsSeq
  <1> QED
    BY <1>1, <1>2, <1>3, <1>5 DEF m, a

\* Marking among the first rows.
LEMMA MarkedFirstRows ==
  ASSUME NEW list \in Seq(Notification), NEW known, NEW n
  PROVE  /\ Inbox!Marked(FirstRows(list, known), n) = FirstRows(list, known \cup {n})
         /\ Inbox!AllMarked(FirstRows(list, known)) = FirstRows(list, Range(list))
  <1> DEFINE F == FirstRows(list, known)
             m == Inbox!Marked(F, n)
             a == Inbox!AllMarked(F)
             c == NewestCount(list)
  <1>1. /\ F \in Seq(Inbox!Row) /\ DOMAIN F = 1 .. c
        /\ \A i \in 1 .. c : F[i] = [id |-> list[i], isRead |-> list[i] \in known] /\ list[i] \in Range(list)
    BY FirstRowsTyped
  <1> HIDE DEF F, c, m, a
  <1>m. m = Inbox!Marked(F, n) /\ a = Inbox!AllMarked(F)
    BY DEF m, a
  <1>k. F \in Seq(Inbox!Row)
    BY <1>1
  <1>l. /\ DOMAIN Inbox!Marked(F, n) = DOMAIN F /\ DOMAIN Inbox!AllMarked(F) = DOMAIN F
        /\ \A i \in DOMAIN F :
               /\ Inbox!Marked(F, n)[i] = [id |-> F[i].id, isRead |-> F[i].isRead \/ F[i].id = n]
               /\ Inbox!AllMarked(F)[i] = [id |-> F[i].id, isRead |-> TRUE]
    BY ONLY <1>k, MarkedTyped
  <1>2. /\ DOMAIN m = 1 .. c /\ DOMAIN a = 1 .. c
        /\ \A i \in 1 .. c : /\ m[i] = [id |-> F[i].id, isRead |-> F[i].isRead \/ F[i].id = n]
                             /\ a[i] = [id |-> F[i].id, isRead |-> TRUE]
    BY <1>1, <1>m, <1>l
  <1>3. m = [i \in 1 .. c |-> m[i]] /\ a = [i \in 1 .. c |-> a[i]]
    BY <1>2, <1>m DEF Inbox!Marked, Inbox!AllMarked
  <1>4. \A i \in 1 .. c : /\ m[i] = [id |-> list[i], isRead |-> list[i] \in known \cup {n}]
                          /\ a[i] = [id |-> list[i], isRead |-> list[i] \in Range(list)]
    <2> TAKE i \in 1 .. c
    <2>1. /\ F[i].id = list[i] /\ F[i].isRead = (list[i] \in known) /\ list[i] \in Range(list)
      BY <1>1
    <2>2. /\ (list[i] \in known \/ list[i] = n) = (list[i] \in known \cup {n})
          /\ (list[i] \in Range(list)) = TRUE
      BY <2>1
    <2> QED
      BY <1>2, <2>1, <2>2
  <1>5. /\ m = [i \in 1 .. c |-> [id |-> list[i], isRead |-> list[i] \in known \cup {n}]]
        /\ a = [i \in 1 .. c |-> [id |-> list[i], isRead |-> list[i] \in Range(list)]]
    BY <1>3, <1>4
  <1> QED
    BY <1>5 DEF FirstRows, F, m, a, c

\* What is shown as read stays so while more is read.
LEMMA RowsStayIn ==
  ASSUME NEW list, NEW all, NEW read, NEW all2, NEW read2,
         RowsIn(list, all, read), all \subseteq all2, read \subseteq read2
  PROVE  RowsIn(list, all2, read2)
  BY DEF RowsIn

LEMMA RequestStays ==
  ASSUME NEW q, NEW list, NEW read, NEW after, NEW list2, NEW read2, NEW after2,
         InboxRequest(q, list, read, after),
         read \subseteq read2, after \subseteq after2, Range(list) \subseteq Range(list2),
         q.kind = "all" /\ q.pc = "served" => Range(list2) \subseteq read2 \cup after2
  PROVE  InboxRequest(q, list2, read2, after2)
  BY DEF InboxRequest

\* One request changes.
LEMMA InboxRequestChanges ==
  ASSUME NEW base \in [Request -> InboxRequests], NEW r \in Request, NEW q \in InboxRequests
  PROVE  /\ [base EXCEPT ![r] = q] \in [Request -> InboxRequests]
         /\ [base EXCEPT ![r] = q][r] = q
         /\ \A s \in Request \ {r} : [base EXCEPT ![r] = q][s] = base[s]
  OBVIOUS

InboxLoad == [kind |-> "load", pc |-> "sent", mine |-> TRUE, id |-> None,
              rows |-> <<>>, count |-> 0, left |-> {"rows", "count"}]
InboxMark(kind, n) == [kind |-> kind, pc |-> "sent", mine |-> TRUE, id |-> n,
                       rows |-> <<>>, count |-> 0, left |-> {}]

LEMMA InboxRecords ==
  /\ InboxLoad \in InboxRequests /\ Inbox!Idle \in InboxRequests
  /\ \A n \in Notification : InboxMark("one", n) \in InboxRequests
  /\ InboxMark("all", None) \in InboxRequests
  <1>1. Cardinality(Notification) \in Nat
    BY ClientsAssumption, FS_CardinalityType
  <1> QED
    BY <1>1 DEF InboxLoad, InboxMark, InboxRequests, Inbox!Idle

LEMMA InboxSends ==
  ASSUME NEW kind, NEW n, NEW left
  PROVE  [Inbox!Idle EXCEPT !.kind = kind, !.pc = "sent", !.mine = TRUE, !.id = n, !.left = left]
           = [kind |-> kind, pc |-> "sent", mine |-> TRUE, id |-> n,
              rows |-> <<>>, count |-> 0, left |-> left]
  <1> DEFINE E == [Inbox!Idle EXCEPT !.kind = kind, !.pc = "sent", !.mine = TRUE, !.id = n, !.left = left]
             S == [kind : {kind}, pc : {"sent"}, mine : {TRUE}, id : {n}, rows : {<<>>}, count : {0}, left : {left}]
  <1>1. E \in S
    BY DEF Inbox!Idle
  <1>2. ASSUME NEW x \in S
        PROVE  x = [kind |-> kind, pc |-> "sent", mine |-> TRUE, id |-> n,
                    rows |-> <<>>, count |-> 0, left |-> left]
    OBVIOUS
  <1> HIDE DEF E, S
  <1>3. E = [kind |-> kind, pc |-> "sent", mine |-> TRUE, id |-> n,
             rows |-> <<>>, count |-> 0, left |-> left]
    BY <1>1, <1>2
  <1> QED
    BY <1>3 DEF E

\* The page starts with an empty inbox and no request.
LEMMA InitInbox == Inbox!Init => InboxInv
  <1> SUFFICES ASSUME Inbox!Init PROVE InboxInv
    OBVIOUS
  <1>1. inbox \in Seq(Notification)
    <2>1. PICK S \in SUBSET Notification : inbox \in Inbox!Injection(1 .. Inbox!Cardinality(S), S)
      BY DEF Inbox!Init
    <2>2. Cardinality(S) \in Nat
      BY ClientsAssumption, FS_Subset, FS_CardinalityType
    <2>3. inbox \in [1 .. Cardinality(S) -> S]
      BY <2>1, InboxOps DEF Inbox!Injection
    <2> QED
      BY <2>2, <2>3, MapIsSeq
  <1>2. isRead \subseteq Range(inbox)
    BY InboxOps DEF Inbox!Init
  <1>3. store = [rows |-> <<>>, unread |-> 0] /\ shown = <<>> /\ late = {}
        /\ requests = [r \in Request |-> Inbox!Idle]
    BY DEF Inbox!Init
  <1>4. store.rows = <<>> /\ store.unread = 0 /\ DOMAIN store = {"rows", "unread"}
    BY <1>3
  <1>5. InboxTyped
    <2>1. <<>> \in Seq(Inbox!Row) /\ Len(<<>>) <= InboxLimit /\ Cardinality(Notification) \in Nat
      BY ClientsAssumption, FS_CardinalityType
    <2>2. requests \in [Request -> InboxRequests]
      BY <1>3, InboxRecords
    <2> QED
      BY <1>1, <1>2, <1>3, <1>4, <2>1, <2>2 DEF InboxTyped
  <1>6. InboxFlags /\ open = FALSE
    BY DEF Inbox!Init, InboxFlags
  <1>7. \A r \in Request : /\ InboxRequest(requests[r], inbox, isRead, late)
                           /\ RowsIn(requests[r].rows, Range(inbox), isRead \cup late)
    BY <1>3, ClientsAssumption DEF InboxRequest, RowsIn, Inbox!Idle
  <1> QED
    BY <1>3, <1>4, <1>5, <1>6, <1>7 DEF InboxInv, RowsIn, InboxUndisturbed

\* The requests that go on when the page is left.
LEMMA OrphanedRequests ==
  ASSUME InboxInv
  PROVE  /\ Inbox!Orphaned \in [Request -> InboxRequests]
         /\ \A s \in Request : /\ InboxRequest(Inbox!Orphaned[s], inbox, isRead, late)
                               /\ RowsIn(Inbox!Orphaned[s].rows, Range(inbox), isRead \cup late)
                               /\ Inbox!Orphaned[s].kind = requests[s].kind
  <1>1. requests \in [Request -> InboxRequests]
    BY DEF InboxInv, InboxTyped
  <1>2. ASSUME NEW q \in InboxRequests
        PROVE  /\ [q EXCEPT !.mine = FALSE] \in InboxRequests
               /\ \A f \in {"kind", "pc", "id", "rows", "count", "left"} : [q EXCEPT !.mine = FALSE][f] = q[f]
               /\ q = Inbox!Idle => [q EXCEPT !.mine = FALSE] = Inbox!Idle
    <2> DEFINE x == [q EXCEPT !.mine = FALSE]
    <2>1. x \in InboxRequests
      BY DEF InboxRequests
    <2>2. /\ x.kind = q.kind /\ x.pc = q.pc /\ x.id = q.id /\ x.rows = q.rows
          /\ x.count = q.count /\ x.left = q.left /\ x.mine = FALSE
      BY DEF InboxRequests
    <2> HIDE DEF x
    <2>3. ASSUME q = Inbox!Idle PROVE x = Inbox!Idle
      BY <2>1, <2>2, <2>3 DEF InboxRequests, Inbox!Idle
    <2> QED
      BY <2>1, <2>2, <2>3 DEF x
  <1>3. \A s \in Request : Inbox!Orphaned[s] = [requests[s] EXCEPT !.mine = FALSE]
    BY DEF Inbox!Orphaned
  <1>4. ASSUME NEW s \in Request
        PROVE  /\ Inbox!Orphaned[s] \in InboxRequests
               /\ InboxRequest(Inbox!Orphaned[s], inbox, isRead, late)
               /\ RowsIn(Inbox!Orphaned[s].rows, Range(inbox), isRead \cup late)
               /\ Inbox!Orphaned[s].kind = requests[s].kind
    <2>1. requests[s] \in InboxRequests /\ InboxRequest(requests[s], inbox, isRead, late)
          /\ RowsIn(requests[s].rows, Range(inbox), isRead \cup late)
      BY <1>1 DEF InboxInv
    <2>2. PICK q : q = Inbox!Orphaned[s]
      OBVIOUS
    <2>3. /\ q \in InboxRequests
          /\ q.kind = requests[s].kind /\ q.pc = requests[s].pc /\ q.id = requests[s].id
          /\ q.rows = requests[s].rows /\ q.left = requests[s].left
          /\ requests[s] = Inbox!Idle => q = Inbox!Idle
      BY <1>2, <1>3, <2>1, <2>2
    <2> QED
      BY ONLY <2>1, <2>2, <2>3 DEF InboxRequest
  <1>5. Inbox!Orphaned = [s \in Request |-> Inbox!Orphaned[s]]
    BY DEF Inbox!Orphaned
  <1> QED
    BY <1>4, <1>5

LEMMA FetchFollows ==
  ASSUME NEW r \in Request, NEW base \in [Request -> InboxRequests],
         \A s \in Request : /\ InboxRequest(base[s], inbox, isRead, late)
                            /\ RowsIn(base[s].rows, Range(inbox), isRead \cup late)
                            /\ base[s].kind = requests[s].kind,
         Inbox!Fetch(r, base), UNCHANGED <<inbox, isRead, late>>
  PROVE  /\ requests' \in [Request -> InboxRequests]
         /\ \A s \in Request : /\ InboxRequest(requests'[s], inbox, isRead, late)
                               /\ RowsIn(requests'[s].rows, Range(inbox), isRead \cup late)
         /\ loading' = TRUE /\ error' = FALSE
         /\ changed' = FALSE /\ crossed' \in BOOLEAN /\ missed' = FALSE
         /\ ~crossed' => InboxFollows'
  <1>1. requests' = [base EXCEPT ![r] = InboxLoad]
    <2>1. requests' = [base EXCEPT ![r] = [Inbox!Idle EXCEPT !.kind = "load", !.pc = "sent", !.mine = TRUE,
                                                             !.id = None, !.left = {"rows", "count"}]]
      BY DEF Inbox!Fetch, Inbox!Sends
    <2>2. [Inbox!Idle EXCEPT !.kind = "load", !.pc = "sent", !.mine = TRUE,
                             !.id = None, !.left = {"rows", "count"}] = InboxLoad
      BY InboxSends DEF InboxLoad
    <2> QED
      BY <2>1, <2>2
  <1>2. /\ loading' = TRUE /\ error' = FALSE /\ changed' = FALSE /\ missed' = FALSE
        /\ crossed' = \E s \in Request : requests[s].kind \in {"load", "one", "all"}
    BY DEF Inbox!Fetch, Inbox!InFlight
  <1>3. requests' \in [Request -> InboxRequests] /\ requests'[r] = InboxLoad
        /\ \A s \in Request \ {r} : requests'[s] = base[s]
    BY <1>1, InboxRecords, InboxRequestChanges
  <1>4. \A s \in Request : /\ InboxRequest(requests'[s], inbox, isRead, late)
                           /\ RowsIn(requests'[s].rows, Range(inbox), isRead \cup late)
    <2>1. InboxRequest(InboxLoad, inbox, isRead, late) /\ RowsIn(InboxLoad.rows, Range(inbox), isRead \cup late)
      BY ClientsAssumption DEF InboxRequest, InboxLoad, RowsIn
    <2> QED
      BY <1>3, <2>1
  <1>5. ASSUME ~crossed' PROVE InboxFollows'
    <2>1. \A s \in Request \ {r} : requests'[s] = Inbox!Idle
      <3>1. \A s \in Request : base[s].kind \in {"none", "load", "one", "all"}
      BY DEF InboxRequests
    <3>2. \A s \in Request : requests[s].kind \notin {"load", "one", "all"}
      BY <1>2, <1>5
    <3>3. \A s \in Request : base[s].kind = "none"
      BY <3>1, <3>2
    <3> QED
      BY <1>3, <3>3 DEF InboxRequest
    <2>2. \A s \in Request \ {r} : requests'[s].kind = "none" /\ requests'[s].pc = "idle"
      BY <2>1 DEF Inbox!Idle
    <2>3. requests'[r].kind = "load" /\ requests'[r].pc = "sent" /\ requests'[r].mine = TRUE
          /\ requests'[r].left = {"rows", "count"}
      BY <1>3 DEF InboxLoad
    <2> QED
      BY <1>2, <2>2, <2>3 DEF InboxFollows, FetchIsAlone
  <1> QED
    BY <1>2, <1>3, <1>4, <1>5

\* A step that leaves what the user has read alone.
LEMMA InboxStep ==
  ASSUME InboxInv, UNCHANGED <<inbox, isRead, late>>,
         InboxFlags', requests' \in [Request -> InboxRequests],
         \A s \in Request : /\ InboxRequest(requests'[s], inbox, isRead, late)
                            /\ RowsIn(requests'[s].rows, Range(inbox), isRead \cup late),
         shown' \in Seq(Inbox!Row), Len(shown') <= InboxLimit, RowsIn(shown', Range(inbox), isRead \cup late),
         store'.rows \in Seq(Inbox!Row), store'.unread \in 0 .. Cardinality(Notification),
         DOMAIN store' = {"rows", "unread"}, RowsIn(store'.rows, Range(inbox), isRead \cup late),
         InboxUndisturbed' => InboxFollows'
  PROVE  InboxInv'
  BY DEF InboxInv, InboxTyped

LEMMA OpenKeepsInbox ==
  ASSUME InboxInv, NEW r \in Request, Inbox!Open(r)
  PROVE  InboxInv'
  <1>1. /\ Inbox!Fetch(r, Inbox!Orphaned) /\ UNCHANGED <<inbox, isRead, store, late>>
        /\ open' = TRUE /\ shown' = <<>> /\ markingAll' = FALSE /\ marking' = None
    BY DEF Inbox!Open, Inbox!server
  <1>2. /\ requests' \in [Request -> InboxRequests]
        /\ \A s \in Request : /\ InboxRequest(requests'[s], inbox, isRead, late)
                              /\ RowsIn(requests'[s].rows, Range(inbox), isRead \cup late)
        /\ loading' = TRUE /\ error' = FALSE
        /\ changed' = FALSE /\ crossed' \in BOOLEAN /\ missed' = FALSE
        /\ ~crossed' => InboxFollows'
    BY <1>1, OrphanedRequests, FetchFollows
  <1>3. <<>> \in Seq(Inbox!Row) /\ Len(<<>>) <= InboxLimit /\ RowsIn(<<>>, Range(inbox), isRead \cup late)
    BY ClientsAssumption DEF RowsIn
  <1>4. InboxFlags'
    BY <1>1, <1>2 DEF InboxFlags
  <1>5. InboxUndisturbed' => InboxFollows'
    BY <1>2 DEF InboxUndisturbed
  <1> QED
    BY <1>1, <1>2, <1>3, <1>4, <1>5, InboxStep DEF InboxInv, InboxTyped

LEMMA RetryKeepsInbox ==
  ASSUME InboxInv, NEW r \in Request, Inbox!Retry(r)
  PROVE  InboxInv'
  <1>1. /\ Inbox!Fetch(r, requests)
        /\ UNCHANGED <<inbox, isRead, open, shown, markingAll, marking, store, late>>
    BY DEF Inbox!Retry, Inbox!server
  <1>2. /\ requests' \in [Request -> InboxRequests]
        /\ \A s \in Request : /\ InboxRequest(requests'[s], inbox, isRead, late)
                              /\ RowsIn(requests'[s].rows, Range(inbox), isRead \cup late)
        /\ loading' = TRUE /\ error' = FALSE
        /\ changed' = FALSE /\ crossed' \in BOOLEAN /\ missed' = FALSE
        /\ ~crossed' => InboxFollows'
    BY <1>1, FetchFollows DEF InboxInv, InboxTyped
  <1>3. InboxFlags'
    BY <1>1, <1>2 DEF InboxFlags, InboxInv
  <1>4. InboxUndisturbed' => InboxFollows'
    BY <1>2 DEF InboxUndisturbed
  <1> QED
    BY <1>1, <1>2, <1>3, <1>4, InboxStep DEF InboxInv, InboxTyped

LEMMA LeaveKeepsInbox ==
  ASSUME InboxInv, Inbox!Leave
  PROVE  InboxInv'
  <1>1. /\ requests' = Inbox!Orphaned /\ open' = FALSE
        /\ UNCHANGED <<inbox, isRead, shown, loading, error, markingAll, marking, store,
                       changed, crossed, missed, late>>
    BY DEF Inbox!Leave, Inbox!server, Inbox!history
  <1>2. InboxFlags' /\ ~InboxUndisturbed'
    BY <1>1 DEF InboxFlags, InboxInv, InboxUndisturbed
  <1> QED
    BY <1>1, <1>2, OrphanedRequests, InboxStep DEF InboxInv, InboxTyped

\* One request changes, and its new state is as it should be.
LEMMA RequestBecomes ==
  ASSUME InboxInv, NEW r \in Request, NEW q \in InboxRequests,
         requests' = [requests EXCEPT ![r] = q],
         InboxRequest(q, inbox, isRead, late), RowsIn(q.rows, Range(inbox), isRead \cup late)
  PROVE  /\ requests' \in [Request -> InboxRequests]
         /\ \A s \in Request : /\ InboxRequest(requests'[s], inbox, isRead, late)
                               /\ RowsIn(requests'[s].rows, Range(inbox), isRead \cup late)
         /\ requests'[r] = q
         /\ \A s \in Request \ {r} : requests'[s] = requests[s]
  BY InboxRequestChanges DEF InboxInv, InboxTyped

LEMMA InboxSlot ==
  ASSUME InboxInv, NEW r \in Request
  PROVE  /\ requests[r] \in InboxRequests /\ InboxRequest(requests[r], inbox, isRead, late)
         /\ RowsIn(requests[r].rows, Range(inbox), isRead \cup late)
  BY DEF InboxInv, InboxTyped

\* What a fetch reads.
LEMMA FetchReads ==
  ASSUME InboxInv, NEW r \in Request, NEW q \in InboxRequests,
         requests[r].left # {},
         requests' = [requests EXCEPT ![r] = q],
         q.kind = requests[r].kind, q.pc = requests[r].pc, q.mine = requests[r].mine,
         q.id = requests[r].id, Len(q.rows) <= InboxLimit,
         RowsIn(q.rows, Range(inbox), isRead \cup late),
         UNCHANGED <<inbox, isRead, open, shown, loading, error, markingAll, marking, store,
                     changed, crossed, late>>,
         missed' \in BOOLEAN,
         ~missed' => /\ ~missed
                     /\ \A x \in {"rows", "count"} : x \in requests[r].left /\ x \notin q.left =>
                           IF x = "rows" THEN q.rows = FirstRows(inbox, isRead)
                                         ELSE q.count = Cardinality(Range(inbox) \ isRead)
                     /\ \A x \in {"rows", "count"} : x \notin requests[r].left =>
                           /\ x \notin q.left
                           /\ q.rows = requests[r].rows \/ x = "count"
                           /\ q.count = requests[r].count \/ x = "rows"
  PROVE  InboxInv'
  <1>1. requests[r].kind = "load" /\ InboxRequest(q, inbox, isRead, late)
    BY InboxSlot DEF InboxRequest
  <1>2. /\ requests' \in [Request -> InboxRequests]
        /\ \A s \in Request : /\ InboxRequest(requests'[s], inbox, isRead, late)
                              /\ RowsIn(requests'[s].rows, Range(inbox), isRead \cup late)
        /\ requests'[r] = q
        /\ \A s \in Request \ {r} : requests'[s] = requests[s]
    BY <1>1, RequestBecomes
  <1>3. InboxFlags'
    BY DEF InboxFlags, InboxInv
  <1>4. ASSUME InboxUndisturbed' PROVE InboxFollows'
    <2>1. InboxFollows /\ FetchIsAlone(r) /\ ~missed'
      BY <1>1, <1>4 DEF InboxUndisturbed, InboxInv, InboxFollows
    <2>2. \A s \in Request \ {r} : requests'[s].pc = "idle" /\ requests'[s].kind = "none"
      BY <1>2, <2>1 DEF FetchIsAlone, InboxRequest
    <2>3. FetchIsAlone(r)'
      <3>1. "rows" \notin q.left => q.rows = FirstRows(inbox, isRead)
        BY <2>1 DEF FetchIsAlone
      <3>2. "count" \notin q.left => q.count = Cardinality(Range(inbox) \ isRead)
        BY <2>1 DEF FetchIsAlone
      <3> QED
        BY <1>2, <2>1, <2>2, <3>1, <3>2 DEF FetchIsAlone
    <2> QED
      BY <1>1, <1>2, <2>1, <2>2, <2>3 DEF InboxFollows, FetchIsAlone
  <1> QED
    BY <1>2, <1>3, <1>4, InboxStep DEF InboxInv, InboxTyped

LEMMA ServeRowsKeepsInbox ==
  ASSUME InboxInv, NEW r \in Request, Inbox!ServeRows(r)
  PROVE  InboxInv'
  <1> DEFINE q == [requests[r] EXCEPT !.left = @ \ {"rows"}, !.rows = Inbox!Newest]
  <1>1. /\ "rows" \in requests[r].left /\ requests' = [requests EXCEPT ![r] = q]
        /\ UNCHANGED <<inbox, isRead, open, shown, loading, error, markingAll, marking, store,
                       changed, crossed, missed, late>>
    BY InboxSlot DEF Inbox!ServeRows, Inbox!server, Inbox!view, Inbox!history, InboxInv, InboxTyped
  <1>2. inbox \in Seq(Notification) /\ Inbox!Newest = FirstRows(inbox, isRead)
    BY NewestIs DEF InboxInv, InboxTyped
  <1>3. FirstRows(inbox, isRead) \in Seq(Inbox!Row) /\ Len(FirstRows(inbox, isRead)) <= InboxLimit
        /\ RowsIn(FirstRows(inbox, isRead), Range(inbox), isRead \cup late)
    BY <1>2, FirstRowsTyped, FirstRowsIn, RowsStayIn
  <1>4. /\ q \in InboxRequests /\ q.kind = requests[r].kind /\ q.pc = requests[r].pc
        /\ q.mine = requests[r].mine /\ q.id = requests[r].id /\ q.count = requests[r].count
        /\ q.left = requests[r].left \ {"rows"} /\ q.rows = FirstRows(inbox, isRead)
    BY <1>2, <1>3, InboxSlot DEF InboxRequests
  <1> HIDE DEF q
  <1> QED
    BY <1>1, <1>3, <1>4, FetchReads DEF InboxInv, InboxFlags

LEMMA ServeCountKeepsInbox ==
  ASSUME InboxInv, NEW r \in Request, Inbox!ServeCount(r)
  PROVE  InboxInv'
  <1> DEFINE q == [requests[r] EXCEPT !.left = @ \ {"count"}, !.count = Inbox!Cardinality(Inbox!Unread)]
  <1>1. /\ "count" \in requests[r].left /\ requests' = [requests EXCEPT ![r] = q]
        /\ UNCHANGED <<inbox, isRead, open, shown, loading, error, markingAll, marking, store,
                       changed, crossed, missed, late>>
    BY InboxSlot DEF Inbox!ServeCount, Inbox!server, Inbox!view, Inbox!history, InboxInv, InboxTyped
  <1>2. Inbox!Cardinality(Inbox!Unread) = Cardinality(Range(inbox) \ isRead)
    BY InboxOps DEF Inbox!Unread
  <1>3. Cardinality(Range(inbox) \ isRead) \in 0 .. Cardinality(Notification)
    BY UnreadCount DEF InboxInv, InboxTyped
  <1>4. /\ q \in InboxRequests /\ q.kind = requests[r].kind /\ q.pc = requests[r].pc
        /\ q.mine = requests[r].mine /\ q.id = requests[r].id /\ q.rows = requests[r].rows
        /\ q.left = requests[r].left \ {"count"} /\ q.count = Cardinality(Range(inbox) \ isRead)
    BY <1>2, <1>3, InboxSlot DEF InboxRequests
  <1>5. Len(q.rows) <= InboxLimit /\ RowsIn(q.rows, Range(inbox), isRead \cup late)
    BY <1>4, InboxSlot DEF InboxRequest
  <1> HIDE DEF q
  <1> QED
    BY <1>1, <1>4, <1>5, FetchReads DEF InboxInv, InboxFlags

LEMMA MissCountKeepsInbox ==
  ASSUME InboxInv, NEW r \in Request, Inbox!MissCount(r)
  PROVE  InboxInv'
  <1> DEFINE q == [requests[r] EXCEPT !.left = @ \ {"count"}]
  <1>1. /\ "count" \in requests[r].left /\ requests' = [requests EXCEPT ![r] = q]
        /\ UNCHANGED <<inbox, isRead, open, shown, loading, error, markingAll, marking, store,
                       changed, crossed, late>>
        /\ missed' = TRUE
    BY InboxSlot DEF Inbox!MissCount, Inbox!server, Inbox!view, InboxInv, InboxTyped
  <1>2. /\ q \in InboxRequests /\ q.kind = requests[r].kind /\ q.pc = requests[r].pc
        /\ q.mine = requests[r].mine /\ q.id = requests[r].id /\ q.rows = requests[r].rows
    BY InboxSlot DEF InboxRequests
  <1>3. Len(q.rows) <= InboxLimit /\ RowsIn(q.rows, Range(inbox), isRead \cup late)
    BY <1>2, InboxSlot DEF InboxRequest
  <1> HIDE DEF q
  <1> QED
    BY <1>1, <1>2, <1>3, FetchReads DEF InboxInv, InboxFlags

\* An answer frees its slot.
LEMMA FreesInbox ==
  ASSUME InboxInv, NEW r \in Request, Inbox!Free(r)
  PROVE  /\ requests' \in [Request -> InboxRequests]
         /\ \A s \in Request : /\ InboxRequest(requests'[s], inbox, isRead, late)
                               /\ RowsIn(requests'[s].rows, Range(inbox), isRead \cup late)
         /\ requests'[r].kind = "none" /\ requests'[r].pc = "idle"
         /\ \A s \in Request \ {r} : requests'[s] = requests[s]
  <1>1. /\ Inbox!Idle.kind = "none" /\ Inbox!Idle.pc = "idle"
        /\ InboxRequest(Inbox!Idle, inbox, isRead, late)
        /\ RowsIn(Inbox!Idle.rows, Range(inbox), isRead \cup late)
    BY ClientsAssumption DEF InboxRequest, RowsIn, Inbox!Idle
  <1> QED
    BY <1>1, InboxRecords, RequestBecomes DEF Inbox!Free

LEMMA LandLoadKeepsInbox ==
  ASSUME InboxInv, NEW r \in Request, Inbox!LandLoad(r)
  PROVE  InboxInv'
  <1> DEFINE q == requests[r]
  <1>1. /\ q.kind = "load" /\ q.left = {} /\ Inbox!Free(r)
        /\ store' = [rows |-> q.rows, unread |-> q.count]
        /\ shown' = IF q.mine THEN q.rows ELSE shown
        /\ loading' = (loading /\ ~q.mine)
        /\ UNCHANGED <<inbox, isRead, open, error, markingAll, marking, changed, crossed, missed, late>>
    BY DEF Inbox!LandLoad, Inbox!server, Inbox!history
  <1>2. /\ q \in InboxRequests /\ InboxRequest(q, inbox, isRead, late)
        /\ RowsIn(q.rows, Range(inbox), isRead \cup late)
    BY InboxSlot
  <1>3. /\ store'.rows = q.rows /\ store'.unread = q.count /\ DOMAIN store' = {"rows", "unread"}
        /\ q.rows \in Seq(Inbox!Row) /\ Len(q.rows) <= InboxLimit
        /\ q.count \in 0 .. Cardinality(Notification) /\ q.mine \in BOOLEAN
    BY <1>1, <1>2 DEF InboxRequests, InboxRequest
  <1>4. /\ shown' \in Seq(Inbox!Row) /\ Len(shown') <= InboxLimit
        /\ RowsIn(shown', Range(inbox), isRead \cup late)
    BY <1>1, <1>2, <1>3 DEF InboxInv, InboxTyped
  <1>5. InboxFlags'
    BY <1>1, <1>3 DEF InboxFlags, InboxInv
  <1>6. /\ requests' \in [Request -> InboxRequests]
        /\ \A s \in Request : /\ InboxRequest(requests'[s], inbox, isRead, late)
                              /\ RowsIn(requests'[s].rows, Range(inbox), isRead \cup late)
        /\ requests'[r].kind = "none" /\ requests'[r].pc = "idle"
        /\ \A s \in Request \ {r} : requests'[s] = requests[s]
    BY <1>1, FreesInbox
  <1>7. ASSUME InboxUndisturbed' PROVE InboxFollows'
    <2>1. InboxFollows /\ FetchIsAlone(r) /\ q.mine
      BY <1>1, <1>2, <1>7 DEF InboxUndisturbed, InboxInv, InboxFollows, InboxRequest
    <2>2. \A s \in Request : requests'[s].pc = "idle" /\ requests'[s].kind = "none"
      BY <1>6, <2>1 DEF FetchIsAlone, InboxRequest
    <2>3. /\ q.rows = FirstRows(inbox, isRead) /\ q.count = Cardinality(Range(inbox) \ isRead)
      BY <1>1, <2>1 DEF FetchIsAlone
    <2>4. KnowsRead(isRead)'
      BY <1>1, <2>1, <2>3 DEF KnowsRead
    <2>5. isRead' \in SUBSET Range(inbox')
      BY <1>1 DEF InboxInv, InboxTyped
    <2>6. \E known \in SUBSET Range(inbox') : KnowsRead(known)'
      BY <2>4, <2>5, <1>1 DEF KnowsRead
    <2>7. loading' = FALSE
      BY <1>1, <2>1
    <2> QED
      BY <2>2, <2>6, <2>7 DEF InboxFollows
  <1> QED
    BY <1>1, <1>2, <1>3, <1>4, <1>5, <1>6, <1>7, InboxStep

\* A request that marks is sent.
LEMMA MarkSent ==
  ASSUME InboxInv, NEW r \in Request, NEW kind \in {"one", "all"}, NEW n,
         Inbox!Sends(r, requests, kind, n, {}),
         kind = "all" => n = None,
         kind = "one" => n \in Notification /\ \E i \in DOMAIN shown : shown[i].id = n,
         ~loading, crossed' = (crossed \/ Inbox!InFlight({"load"})),
         UNCHANGED <<inbox, isRead, open, shown, loading, error, store, changed, missed, late>>,
         markingAll' \in BOOLEAN, marking' \in Notification \cup {None}
  PROVE  InboxInv'
  <1> DEFINE q == InboxMark(kind, n)
  <1>1. requests' = [requests EXCEPT ![r] = q] /\ requests[r].pc = "idle"
    <2>1. /\ requests[r].pc = "idle"
          /\ requests' = [requests EXCEPT ![r] = [Inbox!Idle EXCEPT !.kind = kind, !.pc = "sent", !.mine = TRUE,
                                                                    !.id = n, !.left = {}]]
      BY DEF Inbox!Sends
    <2>2. [Inbox!Idle EXCEPT !.kind = kind, !.pc = "sent", !.mine = TRUE, !.id = n, !.left = {}] = q
      BY InboxSends DEF InboxMark
    <2> QED
      BY <2>1, <2>2
  <1>2. q \in InboxRequests
    BY InboxRecords
  <1>3. /\ q.kind = kind /\ q.pc = "sent" /\ q.mine = TRUE /\ q.id = n /\ q.rows = <<>> /\ q.left = {}
    BY DEF InboxMark
  <1>4. InboxRequest(q, inbox, isRead, late) /\ RowsIn(q.rows, Range(inbox), isRead \cup late)
    <2>1. kind = "one" => n \in Range(inbox)
      BY DEF InboxInv, RowsIn
    <2> QED
      BY <1>3, <2>1, ClientsAssumption DEF InboxRequest, RowsIn
  <1> HIDE DEF q
  <1>5. /\ requests' \in [Request -> InboxRequests]
        /\ \A s \in Request : /\ InboxRequest(requests'[s], inbox, isRead, late)
                              /\ RowsIn(requests'[s].rows, Range(inbox), isRead \cup late)
        /\ requests'[r] = q
        /\ \A s \in Request \ {r} : requests'[s] = requests[s]
    BY <1>1, <1>2, <1>4, RequestBecomes
  <1>6. InboxFlags'
    BY DEF InboxFlags, InboxInv
  <1>7. ASSUME InboxUndisturbed' PROVE InboxFollows'
    <2>1. InboxFollows /\ \A s \in Request : requests[s].kind # "load"
      BY <1>7 DEF InboxUndisturbed, InboxInv, Inbox!InFlight
    <2>2. PICK known \in SUBSET Range(inbox) : KnowsRead(known)
      BY <2>1 DEF InboxFollows
    <2>3. KnowsRead(known)'
      <3>1. \A s \in Request : requests[s].pc = "served" => s # r /\ requests'[s] = requests[s]
        BY <1>1, <1>5
      <3> QED
        BY <2>2, <3>1 DEF KnowsRead
    <2>4. \E k \in SUBSET Range(inbox') : KnowsRead(k)'
      BY <2>3
    <2>5. \A s \in Request : requests'[s].kind # "load"
      BY <1>3, <1>5, <2>1
    <2>6. \A s \in Request : requests'[s].pc # "idle" => requests'[s].mine
      BY <1>3, <1>5, <2>1 DEF InboxFollows
    <2>7. \A s \in Request : requests'[s].kind = "one" => \E i \in DOMAIN shown : shown[i].id = requests'[s].id
      BY <1>3, <1>5, <2>1 DEF InboxFollows
    <2>8. \A s \in Request : requests'[s].kind = "all" /\ requests'[s].pc = "served" => isRead = Range(inbox)
      BY <1>3, <1>5, <2>1 DEF InboxFollows
    <2> QED
      BY <2>4, <2>5, <2>6, <2>7, <2>8 DEF InboxFollows
  <1> QED
    BY <1>5, <1>6, <1>7, InboxStep DEF InboxInv, InboxTyped

LEMMA HandleNotificationClickKeepsInbox ==
  ASSUME InboxInv, NEW r \in Request, NEW n \in Notification, Inbox!HandleNotificationClick(r, n)
  PROVE  InboxInv'
  BY MarkSent DEF Inbox!HandleNotificationClick, Inbox!RowsShown, Inbox!server, InboxInv, InboxFlags

LEMMA MarkAllAsReadKeepsInbox ==
  ASSUME InboxInv, NEW r \in Request, Inbox!MarkAllAsRead(r)
  PROVE  InboxInv'
  BY MarkSent DEF Inbox!MarkAllAsRead, Inbox!MarkAllOffered, Inbox!RowsShown, Inbox!server, InboxInv, InboxFlags

LEMMA FailKeepsInbox ==
  ASSUME InboxInv, NEW r \in Request, Inbox!Fail(r)
  PROVE  InboxInv'
  <1> DEFINE q == requests[r]
  <1>1. /\ Inbox!Free(r) /\ missed' = TRUE
        /\ error' = (error \/ (q.mine /\ q.kind # "one"))
        /\ loading' = (loading /\ ~(q.mine /\ q.kind = "load"))
        /\ marking' = IF q.mine /\ q.kind = "one" THEN None ELSE marking
        /\ markingAll' = (markingAll /\ ~(q.mine /\ q.kind = "all"))
        /\ UNCHANGED <<inbox, isRead, open, shown, store, changed, crossed, late>>
    BY DEF Inbox!Fail, Inbox!server
  <1>2. InboxFlags' /\ ~InboxUndisturbed'
    BY <1>1 DEF InboxFlags, InboxInv, InboxUndisturbed
  <1> QED
    BY <1>1, <1>2, FreesInbox, InboxStep DEF InboxInv, InboxTyped

\* The backend marks one or all.
LEMMA ServeMarkKeepsInbox ==
  ASSUME InboxInv, NEW r \in Request, Inbox!ServeMark(r)
  PROVE  InboxInv'
  <1> DEFINE q == [requests[r] EXCEPT !.pc = "served"]
  <1>1. /\ requests[r].kind \in {"one", "all"} /\ requests[r].pc = "sent"
        /\ isRead' = IF requests[r].kind = "one" THEN isRead \cup {requests[r].id} ELSE Range(inbox)
        /\ requests' = [requests EXCEPT ![r] = q]
        /\ UNCHANGED <<inbox, open, shown, loading, error, markingAll, marking, store,
                       changed, crossed, missed, late>>
    BY InboxSlot, InboxOps DEF Inbox!ServeMark, Inbox!view, Inbox!history, InboxInv, InboxTyped
  <1>2. /\ requests[r] \in InboxRequests /\ InboxRequest(requests[r], inbox, isRead, late)
        /\ RowsIn(requests[r].rows, Range(inbox), isRead \cup late)
    BY InboxSlot
  <1>3. /\ q \in InboxRequests /\ q.kind = requests[r].kind /\ q.pc = "served"
        /\ q.mine = requests[r].mine /\ q.id = requests[r].id /\ q.rows = requests[r].rows
        /\ q.left = requests[r].left
    BY <1>2 DEF InboxRequests
  <1> HIDE DEF q
  <1>4. isRead \subseteq isRead' /\ isRead' \subseteq Range(inbox)
        /\ (requests[r].kind = "all" => isRead' = Range(inbox))
        /\ (requests[r].kind = "one" => requests[r].id \in isRead')
        /\ isRead \cup late \subseteq isRead' \cup late
    BY <1>1, <1>2 DEF InboxInv, InboxTyped, InboxRequest
  <1>5. /\ requests' \in [Request -> InboxRequests] /\ requests'[r] = q
        /\ \A s \in Request \ {r} : requests'[s] = requests[s]
    BY <1>1, <1>3, InboxRequestChanges DEF InboxInv, InboxTyped
  <1>6. InboxTyped' /\ InboxFlags'
    BY <1>1, <1>4, <1>5 DEF InboxInv, InboxTyped, InboxFlags
  <1>7. \A s \in Request : /\ InboxRequest(requests'[s], inbox, isRead', late)
                           /\ RowsIn(requests'[s].rows, Range(inbox), isRead' \cup late)
    <2> TAKE s \in Request
    <2>1. CASE s = r
      <3>1. InboxRequest(q, inbox, isRead', late)
        BY <1>1, <1>2, <1>3, <1>4 DEF InboxRequest
      <3> QED
        BY <1>2, <1>3, <1>4, <1>5, <2>1, <3>1, RowsStayIn
    <2>2. CASE s # r
      <3>1. requests'[s] = requests[s] /\ InboxRequest(requests[s], inbox, isRead, late)
            /\ RowsIn(requests[s].rows, Range(inbox), isRead \cup late)
        BY <1>5, <2>2, InboxSlot
      <3>2. requests[s].kind = "all" /\ requests[s].pc = "served" => Range(inbox) \subseteq isRead' \cup late
        BY <1>4, <3>1 DEF InboxRequest
      <3> QED
        BY <1>4, <3>1, <3>2, RequestStays, RowsStayIn
    <2> QED
      BY <2>1, <2>2
  <1>8. RowsIn(shown, Range(inbox), isRead' \cup late) /\ RowsIn(store.rows, Range(inbox), isRead' \cup late)
    BY <1>4, RowsStayIn DEF InboxInv
  <1>9. ASSUME InboxUndisturbed' PROVE InboxFollows'
    <2>1. InboxFollows
      BY <1>1, <1>9 DEF InboxUndisturbed, InboxInv
    <2>2. \A s \in Request : requests[s].kind # "load"
      BY <1>1, <2>1 DEF InboxFollows, FetchIsAlone
    <2>3. PICK known \in SUBSET Range(inbox) : KnowsRead(known)
      BY <2>1, <2>2 DEF InboxFollows
    <2>4. KnowsRead(known)'
      <3>1. known \subseteq isRead' /\ shown' = FirstRows(inbox, known)
            /\ store' = [rows |-> FirstRows(inbox, known), unread |-> Cardinality(Range(inbox) \ known)]
        BY <1>1, <1>4, <2>3 DEF KnowsRead
      <3>2. \/ \E s \in Request : requests'[s].kind = "all" /\ requests'[s].pc = "served"
            \/ \A n \in isRead' \ known : \E s \in Request :
                  requests'[s].kind = "one" /\ requests'[s].pc = "served" /\ requests'[s].id = n
        <4>1. CASE requests[r].kind = "all"
          BY <1>3, <1>5, <4>1
        <4>2. CASE \E s \in Request : requests[s].kind = "all" /\ requests[s].pc = "served"
          BY <1>1, <1>5, <4>2
        <4>3. CASE /\ requests[r].kind = "one"
                   /\ \A n \in isRead \ known : \E s \in Request :
                         requests[s].kind = "one" /\ requests[s].pc = "served" /\ requests[s].id = n
          <5>1. ASSUME NEW n \in isRead' \ known
                PROVE  \E s \in Request :
                          requests'[s].kind = "one" /\ requests'[s].pc = "served" /\ requests'[s].id = n
            <6>1. CASE n = requests[r].id
              BY <1>3, <1>5, <4>3, <6>1
            <6>2. CASE n # requests[r].id
              BY <1>1, <1>5, <4>3, <6>2
            <6> QED
              BY <6>1, <6>2
          <5> QED
            BY <5>1
        <4> QED
          BY <1>1, <2>3, <4>1, <4>2, <4>3 DEF KnowsRead
      <3> QED
        BY <1>1, <3>1, <3>2 DEF KnowsRead
    <2>5. \E k \in SUBSET Range(inbox') : KnowsRead(k)'
      BY <1>1, <2>4
    <2>6. \A s \in Request : requests'[s].kind # "load"
      BY <1>3, <1>5, <2>2
    <2>7. \A s \in Request : requests'[s].pc # "idle" => requests'[s].mine
      BY <1>1, <1>3, <1>5, <2>1 DEF InboxFollows
    <2>8. \A s \in Request : requests'[s].kind = "one" => \E i \in DOMAIN shown : shown[i].id = requests'[s].id
      BY <1>3, <1>5, <2>1 DEF InboxFollows
    <2>9. \A s \in Request : requests'[s].kind = "all" /\ requests'[s].pc = "served" => isRead' = Range(inbox)
      BY <1>3, <1>4, <1>5, <2>1 DEF InboxFollows
    <2>10. ~loading
      BY <2>1, <2>2 DEF InboxFollows
    <2> QED
      BY <1>1, <2>5, <2>6, <2>7, <2>8, <2>9, <2>10 DEF InboxFollows
  <1> QED
    BY <1>1, <1>6, <1>7, <1>8, <1>9 DEF InboxInv

\* What the slice counts after a mark.
LEMMA CountedTyped ==
  ASSUME InboxInv, NEW n
  PROVE  /\ Inbox!Counted(n).rows = Inbox!Marked(store.rows, n)
         /\ Inbox!Counted(n).unread \in 0 .. Cardinality(Notification)
         /\ DOMAIN Inbox!Counted(n) = {"rows", "unread"}
  <1>1. store.unread \in 0 .. Cardinality(Notification) /\ Cardinality(Notification) \in Nat
    BY ClientsAssumption, FS_CardinalityType DEF InboxInv, InboxTyped
  <1> QED
    BY <1>1 DEF Inbox!Counted

LEMMA CountedKnows ==
  ASSUME InboxInv, NEW known, KnowsRead(known), NEW n, \E i \in DOMAIN shown : shown[i].id = n
  PROVE  Inbox!Counted(n) = [rows |-> FirstRows(inbox, known \cup {n}),
                             unread |-> Cardinality(Range(inbox) \ (known \cup {n}))]
  <1> DEFINE F == FirstRows(inbox, known)
             S == Range(inbox) \ known
  <1>1. inbox \in Seq(Notification)
    BY DEF InboxInv, InboxTyped
  <1>2. /\ DOMAIN F = 1 .. NewestCount(inbox)
        /\ \A i \in 1 .. NewestCount(inbox) :
              F[i] = [id |-> inbox[i], isRead |-> inbox[i] \in known] /\ inbox[i] \in Range(inbox)
    BY <1>1, FirstRowsTyped
  <1>3. IsFiniteSet(S) /\ Cardinality(S) \in Nat
    BY <1>1, UnreadCount, FS_CardinalityType
  <1>4. shown = F /\ store.rows = F /\ store.unread = Cardinality(S)
    BY DEF KnowsRead
  <1>5. Inbox!Marked(F, n) = FirstRows(inbox, known \cup {n})
    BY <1>1, MarkedFirstRows
  <1> HIDE DEF F, S
  <1>6. Inbox!Counted(n).unread = Cardinality(S \ {n})
    <2>1. PICK i \in DOMAIN F : F[i].id = n
      BY <1>4
    <2>2. F[i] = [id |-> n, isRead |-> n \in known] /\ n \in Range(inbox)
      BY <1>2, <2>1
    <2>3. CASE n \in known
      <3>0. \A j \in DOMAIN F : F[j].id = inbox[j] /\ F[j].isRead = (inbox[j] \in known)
        BY <1>2
      <3>1. \A j \in DOMAIN F : F[j] # [id |-> n, isRead |-> FALSE]
        <4> SUFFICES ASSUME NEW j \in DOMAIN F, F[j] = [id |-> n, isRead |-> FALSE] PROVE FALSE
          OBVIOUS
        <4>1. F[j].id = inbox[j] /\ F[j].isRead = (inbox[j] \in known)
          BY <3>0
        <4>2. F[j].id = n /\ F[j].isRead = FALSE
          OBVIOUS
        <4> QED
          BY <2>3, <4>1, <4>2
      <3>2. S \ {n} = S
        BY <2>3 DEF S
      <3> QED
        BY <1>4, <3>1, <3>2 DEF Inbox!Counted
    <2>4. CASE n \notin known
      <3>1. n \in S
        BY <2>2, <2>4 DEF S
      <3>2. Cardinality(S \ {n}) = Cardinality(S) - 1 /\ Cardinality(S \ {n}) \in Nat
        BY <1>3, <3>1, FS_RemoveElement, FS_CardinalityType
      <3>3. F[i] = [id |-> n, isRead |-> FALSE] /\ Cardinality(S) > 0
        <4>1. (n \in known) = FALSE
          BY <2>4
        <4>2. F[i] = [id |-> n, isRead |-> FALSE]
          BY <2>2, <4>1
        <4>3. Cardinality(S) > 0
          BY <1>3, <3>2
        <4> QED
          BY <4>2, <4>3
      <3> QED
        BY <1>4, <2>1, <3>2, <3>3 DEF Inbox!Counted
    <2> QED
      BY <2>3, <2>4
  <1>7. S \ {n} = Range(inbox) \ (known \cup {n})
    BY DEF S
  <1>8. Inbox!Counted(n).rows = FirstRows(inbox, known \cup {n})
    BY <1>4, <1>5 DEF Inbox!Counted
  <1>9. Inbox!Counted(n) = [rows |-> Inbox!Counted(n).rows, unread |-> Inbox!Counted(n).unread]
    BY DEF Inbox!Counted
  <1> QED
    BY <1>6, <1>7, <1>8, <1>9

LEMMA MarkedRowsIn ==
  ASSUME NEW list \in Seq(Inbox!Row), NEW all, NEW read, NEW n, RowsIn(list, all, read)
  PROVE  /\ n \in read => RowsIn(Inbox!Marked(list, n), all, read)
         /\ all \subseteq read => RowsIn(Inbox!AllMarked(list), all, read)
  <1> DEFINE m == Inbox!Marked(list, n)
             a == Inbox!AllMarked(list)
  <1>1. /\ DOMAIN m = DOMAIN list /\ DOMAIN a = DOMAIN list
        /\ \A i \in DOMAIN list : /\ m[i] = [id |-> list[i].id, isRead |-> list[i].isRead \/ list[i].id = n]
                                  /\ a[i] = [id |-> list[i].id, isRead |-> TRUE]
    BY MarkedTyped
  <1> HIDE DEF m, a
  <1>2. \A i \in DOMAIN list : /\ m[i].id = list[i].id /\ m[i].isRead = (list[i].isRead \/ list[i].id = n)
                               /\ a[i].id = list[i].id
    BY <1>1
  <1>3. n \in read => RowsIn(m, all, read)
    BY <1>1, <1>2 DEF RowsIn
  <1>4. all \subseteq read => RowsIn(a, all, read)
    BY <1>1, <1>2 DEF RowsIn
  <1> QED
    BY <1>3, <1>4 DEF m, a

LEMMA LandMarkKeepsInbox ==
  ASSUME InboxInv, NEW r \in Request, Inbox!LandMark(r)
  PROVE  InboxInv'
  <1> DEFINE q == requests[r]
             after == isRead \cup late
  <1>1. /\ q.kind \in {"one", "all"} /\ q.pc = "served" /\ Inbox!Free(r)
        /\ store' = IF q.kind = "one" THEN Inbox!Counted(q.id)
                    ELSE [rows |-> Inbox!AllMarked(store.rows), unread |-> 0]
        /\ shown' = IF ~q.mine THEN shown
                    ELSE IF q.kind = "one" THEN Inbox!Marked(shown, q.id) ELSE Inbox!AllMarked(shown)
        /\ marking' = IF q.mine /\ q.kind = "one" THEN None ELSE marking
        /\ markingAll' = (markingAll /\ ~(q.mine /\ q.kind = "all"))
        /\ UNCHANGED <<inbox, isRead, open, loading, error, changed, crossed, missed, late>>
    BY DEF Inbox!LandMark, Inbox!server, Inbox!history
  <1>2. q \in InboxRequests /\ InboxRequest(q, inbox, isRead, late)
    BY InboxSlot
  <1>3. /\ requests' \in [Request -> InboxRequests]
        /\ \A s \in Request : /\ InboxRequest(requests'[s], inbox, isRead, late)
                              /\ RowsIn(requests'[s].rows, Range(inbox), after)
        /\ requests'[r].kind = "none" /\ requests'[r].pc = "idle"
        /\ \A s \in Request \ {r} : requests'[s] = requests[s]
    BY <1>1, FreesInbox
  <1>4. /\ q.kind = "one" => q.id \in after
        /\ q.kind = "all" => Range(inbox) \subseteq after
    BY <1>1, <1>2 DEF InboxRequest
  <1>5. \A list \in Seq(Inbox!Row) : RowsIn(list, Range(inbox), after) =>
           /\ Inbox!Marked(list, q.id) \in Seq(Inbox!Row) /\ Inbox!AllMarked(list) \in Seq(Inbox!Row)
           /\ Len(Inbox!Marked(list, q.id)) = Len(list) /\ Len(Inbox!AllMarked(list)) = Len(list)
           /\ q.kind = "one" => RowsIn(Inbox!Marked(list, q.id), Range(inbox), after)
           /\ q.kind = "all" => RowsIn(Inbox!AllMarked(list), Range(inbox), after)
    BY <1>4, MarkedTyped, MarkedRowsIn
  <1>6. /\ shown' \in Seq(Inbox!Row) /\ Len(shown') <= InboxLimit /\ RowsIn(shown', Range(inbox), after)
    BY <1>1, <1>5 DEF InboxInv, InboxTyped
  <1>7. /\ store'.rows \in Seq(Inbox!Row) /\ store'.unread \in 0 .. Cardinality(Notification)
        /\ DOMAIN store' = {"rows", "unread"} /\ RowsIn(store'.rows, Range(inbox), after)
    <2>1. CASE q.kind = "one"
      BY <1>1, <1>5, <2>1, CountedTyped DEF InboxInv, InboxTyped
    <2>2. CASE q.kind = "all"
      <3>1. 0 \in 0 .. Cardinality(Notification)
        BY ClientsAssumption, FS_CardinalityType
      <3> QED
        BY <1>1, <1>5, <2>2, <3>1 DEF InboxInv, InboxTyped
    <2> QED
      BY <1>1, <2>1, <2>2
  <1>8. InboxFlags'
    BY <1>1 DEF InboxInv, InboxFlags
  <1>9. ASSUME InboxUndisturbed' PROVE InboxFollows'
    <2>1. InboxFollows /\ q.mine
      BY <1>1, <1>9 DEF InboxUndisturbed, InboxInv, InboxFollows
    <2>2. \A s \in Request : requests[s].kind # "load"
      BY <1>1, <2>1 DEF InboxFollows, FetchIsAlone
    <2>3. PICK known \in SUBSET Range(inbox) : KnowsRead(known)
      BY <2>1, <2>2 DEF InboxFollows
    <2>4. inbox \in Seq(Notification) /\ isRead \subseteq Range(inbox)
      BY DEF InboxInv, InboxTyped
    <2>5. shown = FirstRows(inbox, known) /\ store.rows = FirstRows(inbox, known)
      BY <2>3 DEF KnowsRead
    <2>6. \E k \in SUBSET Range(inbox) : KnowsRead(k)'
      <3>1. CASE q.kind = "one"
        <4>1. q.id \in isRead /\ \E i \in DOMAIN shown : shown[i].id = q.id
          BY <1>1, <1>2, <2>1, <3>1 DEF InboxRequest, InboxFollows
        <4>2. store' = [rows |-> FirstRows(inbox, known \cup {q.id}),
                        unread |-> Cardinality(Range(inbox) \ (known \cup {q.id}))]
          BY <1>1, <2>3, <3>1, <4>1, CountedKnows
        <4>3. shown' = FirstRows(inbox, known \cup {q.id})
          BY <1>1, <2>1, <2>4, <2>5, <3>1, MarkedFirstRows
        <4>4. \/ \E s \in Request : requests'[s].kind = "all" /\ requests'[s].pc = "served"
              \/ \A n \in isRead \ (known \cup {q.id}) : \E s \in Request :
                    requests'[s].kind = "one" /\ requests'[s].pc = "served" /\ requests'[s].id = n
          <5>1. CASE \E s \in Request : requests[s].kind = "all" /\ requests[s].pc = "served"
            BY <1>3, <3>1, <5>1
          <5>2. CASE \A n \in isRead \ known : \E s \in Request :
                        requests[s].kind = "one" /\ requests[s].pc = "served" /\ requests[s].id = n
            BY <1>3, <5>2
          <5> QED
            BY <2>3, <5>1, <5>2 DEF KnowsRead
        <4>5. PICK k : k = known \cup {q.id}
          OBVIOUS
        <4>6. KnowsRead(k)'
          BY <1>1, <2>3, <4>1, <4>2, <4>3, <4>4, <4>5 DEF KnowsRead
        <4>7. k \in SUBSET Range(inbox)
          BY <2>4, <4>1, <4>5
        <4> QED
          BY <4>6, <4>7
      <3>2. CASE q.kind = "all"
        <4>1. isRead = Range(inbox)
          BY <1>1, <2>1, <3>2 DEF InboxFollows
        <4>2. Cardinality(Range(inbox) \ Range(inbox)) = 0
          <5>1. Range(inbox) \ Range(inbox) = {}
            OBVIOUS
          <5> QED
            BY <5>1, FS_EmptySet
        <4>3. shown' = FirstRows(inbox, Range(inbox)) /\ Inbox!AllMarked(store.rows) = FirstRows(inbox, Range(inbox))
          BY <1>1, <2>1, <2>4, <2>5, <3>2, MarkedFirstRows
        <4>4. PICK k : k = Range(inbox)
          OBVIOUS
        <4>5. KnowsRead(k)'
          BY <1>1, <3>2, <4>1, <4>2, <4>3, <4>4 DEF KnowsRead
        <4> QED
          BY <4>4, <4>5
      <3> QED
        BY <1>1, <3>1, <3>2
    <2>7. \A s \in Request : requests'[s].kind # "load"
      BY <1>3, <2>2
    <2>8. \A s \in Request : requests'[s].pc # "idle" => requests'[s].mine
      BY <1>3, <2>1 DEF InboxFollows
    <2>9. \A s \in Request : requests'[s].kind = "one" => \E i \in DOMAIN shown' : shown'[i].id = requests'[s].id
      <3>1. DOMAIN shown' = DOMAIN shown /\ \A i \in DOMAIN shown : shown'[i].id = shown[i].id
        <4>1. shown \in Seq(Inbox!Row)
          BY DEF InboxInv, InboxTyped
        <4>2. PICK x : x = q.id
          OBVIOUS
        <4>3. /\ DOMAIN Inbox!Marked(shown, x) = DOMAIN shown /\ DOMAIN Inbox!AllMarked(shown) = DOMAIN shown
              /\ \A i \in DOMAIN shown :
                    /\ Inbox!Marked(shown, x)[i] = [id |-> shown[i].id, isRead |-> shown[i].isRead \/ shown[i].id = x]
                    /\ Inbox!AllMarked(shown)[i] = [id |-> shown[i].id, isRead |-> TRUE]
          BY ONLY <4>1, MarkedTyped
        <4>4. \A i \in DOMAIN shown :
                 /\ Inbox!Marked(shown, x)[i].id = shown[i].id
                 /\ Inbox!AllMarked(shown)[i].id = shown[i].id
          BY <4>3
        <4> QED
          BY <1>1, <4>2, <4>3, <4>4
      <3> QED
        BY <1>3, <2>1, <3>1 DEF InboxFollows
    <2>10. \A s \in Request : requests'[s].kind = "all" /\ requests'[s].pc = "served" => isRead = Range(inbox)
      BY <1>3, <2>1 DEF InboxFollows
    <2>11. ~loading
      BY <2>1, <2>2 DEF InboxFollows
    <2> QED
      BY <1>1, <2>6, <2>7, <2>8, <2>9, <2>10, <2>11 DEF InboxFollows
  <1> QED
    BY <1>1, <1>3, <1>6, <1>7, <1>8, <1>9, InboxStep

\* A notification arrives, or one is read elsewhere.
LEMMA ElsewhereKeepsInbox ==
  ASSUME InboxInv, Inbox!Elsewhere
  PROVE  InboxInv'
  <1>1. PICK n \in Notification : Inbox!Arrive(n) \/ Inbox!ReadElsewhere(n)
    BY DEF Inbox!Elsewhere
  <1>2. /\ changed' = TRUE
        /\ UNCHANGED <<open, shown, loading, error, markingAll, marking, store, requests, crossed, missed>>
    BY DEF Inbox!Elsewhere, Inbox!view
  <1>3. inbox \in Seq(Notification) /\ isRead \subseteq Range(inbox) /\ late \subseteq Notification
    BY DEF InboxInv, InboxTyped
  <1>4. /\ inbox' \in Seq(Notification) /\ Range(inbox) \subseteq Range(inbox')
        /\ isRead \subseteq isRead' /\ isRead' \subseteq Range(inbox')
        /\ late \subseteq late' /\ late' \subseteq Notification
        /\ \A r \in Request : requests[r].kind = "all" /\ requests[r].pc = "served" =>
              Range(inbox') \subseteq Range(inbox) \cup isRead' \cup late'
    <2>1. CASE Inbox!ReadElsewhere(n)
      BY <1>3, <2>1, InboxOps DEF Inbox!ReadElsewhere, Inbox!Unread
    <2>2. CASE Inbox!Arrive(n)
      <3>1. inbox' = <<n>> \o inbox /\ isRead' = isRead
            /\ late' = IF \E r \in Request : requests[r].kind = "all" /\ requests[r].pc = "served"
                       THEN late \cup {n} ELSE late
        BY <2>2 DEF Inbox!Arrive
      <3>2. <<n>> \o inbox \in Seq(Notification) /\ Range(<<n>> \o inbox) = Range(inbox) \cup {n}
        <4>1. <<n>> \in Seq(Notification) /\ Len(<<n>>) = 1 /\ <<n>>[1] = n
          OBVIOUS
        <4>2. <<n>> \o inbox \in Seq(Notification) /\ DOMAIN (<<n>> \o inbox) = 1 .. 1 + Len(inbox)
          BY <1>3, <4>1
        <4>3. \A i \in 1 .. 1 + Len(inbox) : (<<n>> \o inbox)[i] = IF i = 1 THEN n ELSE inbox[i - 1]
          BY <1>3, <4>1
        <4>4. Len(inbox) \in Nat
          BY <1>3
        <4>5. ASSUME NEW x \in Range(inbox) PROVE x \in Range(<<n>> \o inbox)
          <5>1. PICK i \in 1 .. Len(inbox) : x = inbox[i]
            BY <1>3, <4>5 DEF Range
          <5>2. i + 1 \in 1 .. 1 + Len(inbox) /\ (<<n>> \o inbox)[i + 1] = x
            BY <4>3, <4>4, <5>1
          <5> QED
            BY <4>2, <5>2 DEF Range
        <4>6. n \in Range(<<n>> \o inbox)
          <5>1. 1 \in 1 .. 1 + Len(inbox) /\ (<<n>> \o inbox)[1] = n
            BY <4>3, <4>4
          <5> QED
            BY <4>2, <5>1 DEF Range
        <4>7. ASSUME NEW x \in Range(<<n>> \o inbox) PROVE x \in Range(inbox) \cup {n}
          <5>1. PICK i \in 1 .. 1 + Len(inbox) : x = (<<n>> \o inbox)[i]
            BY <4>2, <4>7 DEF Range
          <5>2. i = 1 \/ (i - 1 \in 1 .. Len(inbox) /\ x = inbox[i - 1])
            BY <4>3, <4>4, <5>1
          <5> QED
            BY <1>3, <4>3, <5>1, <5>2 DEF Range
        <4> QED
          BY <4>2, <4>5, <4>6, <4>7
      <3> QED
        BY <1>3, <3>1, <3>2
    <2> QED
      BY <1>1, <2>1, <2>2
  <1>5. InboxTyped'
    BY <1>2, <1>4 DEF InboxInv, InboxTyped
  <1>6. InboxFlags' /\ ~InboxUndisturbed'
    BY <1>2 DEF InboxInv, InboxFlags, InboxUndisturbed
  <1>7. isRead \cup late \subseteq isRead' \cup late'
    BY <1>4
  <1>8. ASSUME NEW r \in Request
        PROVE  /\ InboxRequest(requests[r], inbox', isRead', late')
               /\ RowsIn(requests[r].rows, Range(inbox'), isRead' \cup late')
    <2>1. /\ InboxRequest(requests[r], inbox, isRead, late)
          /\ RowsIn(requests[r].rows, Range(inbox), isRead \cup late)
      BY InboxSlot
    <2>2. requests[r].kind = "all" /\ requests[r].pc = "served" => Range(inbox') \subseteq isRead' \cup late'
      BY <1>4, <1>7, <2>1 DEF InboxRequest
    <2> QED
      BY <1>4, <1>7, <2>1, <2>2, RequestStays, RowsStayIn
  <1>9. RowsIn(shown, Range(inbox'), isRead' \cup late') /\ RowsIn(store.rows, Range(inbox'), isRead' \cup late')
    BY <1>4, <1>7, RowsStayIn DEF InboxInv
  <1> QED
    BY <1>2, <1>5, <1>6, <1>8, <1>9 DEF InboxInv

LEMMA NextKeepsInbox == InboxInv /\ Inbox!Next => InboxInv'
  BY OpenKeepsInbox, RetryKeepsInbox, LeaveKeepsInbox, ServeRowsKeepsInbox, ServeCountKeepsInbox,
     MissCountKeepsInbox, LandLoadKeepsInbox, HandleNotificationClickKeepsInbox, MarkAllAsReadKeepsInbox,
     ServeMarkKeepsInbox, LandMarkKeepsInbox, FailKeepsInbox, ElsewhereKeepsInbox
  DEF Inbox!Next

LEMMA StutterKeepsInbox == InboxInv /\ UNCHANGED Inbox!vars => InboxInv'
  <1> SUFFICES ASSUME InboxInv, UNCHANGED Inbox!vars PROVE InboxInv'
    OBVIOUS
  <1>1. UNCHANGED <<inbox, isRead, open, shown, loading, error, markingAll, marking, store, requests,
                    changed, crossed, missed, late>>
    BY DEF Inbox!vars, Inbox!server, Inbox!view, Inbox!history
  <1>2. InboxFlags'
    BY <1>1 DEF InboxInv, InboxFlags
  <1>3. ASSUME NEW known PROVE KnowsRead(known)' = KnowsRead(known)
    BY <1>1 DEF KnowsRead
  <1>4. ASSUME InboxFollows PROVE InboxFollows'
    <2>1. \A r \in Request : FetchIsAlone(r) => FetchIsAlone(r)'
      BY <1>1 DEF FetchIsAlone
    <2>2. loading' \/ \E known \in SUBSET Range(inbox') : KnowsRead(known)'
      BY <1>1, <1>3, <1>4 DEF InboxFollows
    <2> QED
      BY <1>1, <1>4, <2>1, <2>2 DEF InboxFollows
  <1> QED
    BY <1>1, <1>2, <1>4, InboxStep DEF InboxInv, InboxTyped, InboxUndisturbed

LEMMA InboxSettles == InboxInv => Inbox!NotificationsSettle
  <1> SUFFICES ASSUME InboxInv PROVE Inbox!NotificationsSettle
    OBVIOUS
  <1>1. Inbox!ReadMeansRead
    BY DEF InboxInv, RowsIn, Inbox!ReadMeansRead
  <1>2. ASSUME Inbox!AtRest, ~changed, ~crossed, ~missed
        PROVE  shown = Inbox!Newest /\ store = [rows |-> Inbox!Newest, unread |-> Inbox!Cardinality(Inbox!Unread)]
    <2>1. InboxFollows /\ ~loading /\ \A r \in Request : requests[r].pc = "idle"
      BY <1>2 DEF InboxInv, InboxUndisturbed, Inbox!AtRest, Inbox!RowsShown
    <2>2. PICK known \in SUBSET Range(inbox) : KnowsRead(known)
      BY <2>1 DEF InboxFollows
    <2>3. known = isRead
      BY <2>1, <2>2 DEF KnowsRead
    <2>4. Inbox!Newest = FirstRows(inbox, isRead) /\ Inbox!Cardinality(Inbox!Unread) = Cardinality(Range(inbox) \ isRead)
      BY NewestIs, InboxOps DEF InboxInv, InboxTyped, Inbox!Unread
    <2> QED
      BY <2>2, <2>3, <2>4 DEF KnowsRead
  <1> QED
    BY <1>1, <1>2 DEF Inbox!NotificationsSettle, Inbox!ShowsTheInbox

\* At every moment and whatever was lost the notifications a user sees as read
\* are read; at rest the page and the slice of the store show the inbox.
THEOREM NotificationsAlwaysSettle == Spec => []NotificationsSettle
  <1> DEFINE I == part = "inbox" => InboxInv
  <1>1. Init => I
    BY InitInbox DEF Init
  <1>2. I /\ [Next]_vars => I'
    <2> SUFFICES ASSUME I, [Next]_vars, part' = "inbox" PROVE InboxInv'
      OBVIOUS
    <2>1. part = "inbox" /\ (Inbox!Next \/ UNCHANGED Inbox!vars)
      BY DEF Next, vars, common, inboxOwn, Inbox!vars, Inbox!server, Inbox!view, Inbox!history
    <2> QED
      BY <2>1, NextKeepsInbox, StutterKeepsInbox
  <1>3. I => NotificationsSettle
    BY InboxSettles DEF NotificationsSettle
  <1> QED
    BY <1>1, <1>2, <1>3, PTL DEF Spec

------------------------------------------------------------------------------
(* The list of projects and the dashboards                                   *)

ProjectRequests == [pc : {"idle", "sent", "served"}, page : Projects!Pages,
                    mine : BOOLEAN, got : Projects!Versions]

ProjectsTyped ==
    /\ data \in Projects!Versions /\ projects \in Projects!Versions
    /\ page \in Projects!Pages
    /\ requests \in [Request -> ProjectRequests]

\* What is stored of the newest projects, and of no others.
NewestOf(got) ==
    /\ Projects!FirstPage({p \in Project : got[p] # None})
    /\ \A p \in Project : got[p] # None => got[p] = data[p]

\* A fetch the open page has sent, and nothing else, is the page's own.
OwnFetch(q) ==
    /\ q.pc = "idle" => ~q.mine
    /\ q.pc # "idle" => q.page \in Project \cup {"list"}
    /\ q.mine => q.page = page
    /\ q.mine /\ q.pc = "served" /\ ~changed =>
         /\ q.page = "list" => NewestOf(q.got)
         /\ q.page \in Project => q.got[q.page] = data[q.page]

Awaited == \E r \in Request : requests[r].mine

\* The page shows its own answer once it has landed.
LandedIsShown ==
    /\ page = "list" /\ ~changed => NewestOf(projects)
    /\ page \in Project => dashboard.of = page /\ (changed \/ dashboard.data = data[page])

ProjectsInv ==
    /\ ProjectsTyped
    /\ \A r \in Request : OwnFetch(requests[r])
    /\ ~failed => ~error /\ (loading => \E r \in Request : requests[r].pc # "idle")
    /\ ~failed /\ ~astray /\ ~Awaited => LandedIsShown
    /\ ~strayed => dashboard = Projects!NoDashboard \/ (page \in Project /\ dashboard.of = page)

------------------------------------------------------------------------------
(* A new project and its members                                             *)

CreationRequests ==
    [pc : {"idle", "sent", "stored", "answered", "refused"}, waiting : BOOLEAN, ofForm : BOOLEAN,
     emails : Seq(Email), project : Project \cup {None}]
InvitationJobs == [pc : {"idle", "next", "insert"}, todo : Seq(Email)]

\* A form that waits has one request.
FormWaits ==
    /\ \A r \in Request : requests[r].ofForm =>
          requests[r].pc # "idle" /\ requests[r].waiting /\ creating /\ place = "form"
    /\ \A r, s \in Request : requests[r].ofForm /\ requests[s].ofForm => r = s

StoredFor(q) == q.ofForm /\ q.pc \in {"stored", "answered"}
Pending == IF \E r \in Request : StoredFor(requests[r]) THEN 1 ELSE 0

\* Whom a job has still to invite.
ToInvite(p) == IF invitations[p].pc = "idle" THEN {} ELSE Range(invitations[p].todo)

JobsGoOn(p) ==
    /\ invited[p] \subseteq accounts
    /\ invitations[p].pc # "idle" => invitations[p].todo # <<>>
    /\ p \notin cut => invited[p] \subseteq members[p] \cup ToInvite(p)

FormInv ==
    /\ listed \in Seq(Email) /\ requests \in [Request -> CreationRequests]
    /\ IsFiniteSet(made) /\ gaveUp \in Nat
    /\ FormWaits
    /\ made # {} => creating \/ error \/ dismissed
    /\ Cardinality(made) <= gaveUp + Pending

JobsInv ==
    /\ members \in [Project -> SUBSET Email] /\ invited \in [Project -> SUBSET Email]
    /\ invitations \in [Project -> InvitationJobs]
    /\ \A p \in Project : JobsGoOn(p)

CreationInv == FormInv /\ JobsInv

LEMMA ProjectRecords ==
  /\ Projects!Idle \in ProjectRequests
  /\ Projects!Idle.pc = "idle" /\ Projects!Idle.mine = FALSE
  /\ \A p \in Projects!Pages :
        LET q == [Projects!Idle EXCEPT !.pc = "sent", !.page = p, !.mine = TRUE]
        IN q \in ProjectRequests /\ q.pc = "sent" /\ q.page = p /\ q.mine = TRUE
  /\ \A q \in ProjectRequests :
        LET o == [q EXCEPT !.mine = FALSE]
        IN o \in ProjectRequests /\ o.pc = q.pc /\ o.page = q.page /\ o.mine = FALSE
  /\ \A q \in ProjectRequests, d \in Projects!Versions :
        LET s == [q EXCEPT !.pc = "served", !.got = d]
        IN s \in ProjectRequests /\ s.pc = "served" /\ s.page = q.page /\ s.mine = q.mine /\ s.got = d
  <1>1. Projects!NoProjects \in Projects!Versions /\ None \in Projects!Pages
    BY DEF Projects!NoProjects, Projects!Versions, Projects!Pages
  <1>2. /\ Projects!Idle \in ProjectRequests
        /\ Projects!Idle.pc = "idle" /\ Projects!Idle.mine = FALSE
    BY <1>1 DEF ProjectRequests, Projects!Idle
  <1>3. ASSUME NEW p \in Projects!Pages
        PROVE  LET q == [Projects!Idle EXCEPT !.pc = "sent", !.page = p, !.mine = TRUE]
               IN q \in ProjectRequests /\ q.pc = "sent" /\ q.page = p /\ q.mine = TRUE
    BY <1>2 DEF ProjectRequests
  <1>4. ASSUME NEW q \in ProjectRequests
        PROVE  LET o == [q EXCEPT !.mine = FALSE]
               IN o \in ProjectRequests /\ o.pc = q.pc /\ o.page = q.page /\ o.mine = FALSE
    BY DEF ProjectRequests
  <1>5. ASSUME NEW q \in ProjectRequests, NEW d \in Projects!Versions
        PROVE  LET s == [q EXCEPT !.pc = "served", !.got = d]
               IN s \in ProjectRequests /\ s.pc = "served" /\ s.page = q.page /\ s.mine = q.mine /\ s.got = d
    BY DEF ProjectRequests
  <1> QED
    BY <1>2, <1>3, <1>4, <1>5

LEMMA NewestStays ==
  ASSUME data' = data
  PROVE  \A got : NewestOf(got)' <=> NewestOf(got)
  BY DEF NewestOf, Projects!FirstPage, Projects!Listed

LEMMA InitProjects == Projects!Init => ProjectsInv
  <1> SUFFICES ASSUME Projects!Init PROVE ProjectsInv
    OBVIOUS
  <1>1. requests = [r \in Request |-> Projects!Idle]
    BY DEF Projects!Init
  <1>2. ProjectsTyped
    <2>1. projects \in Projects!Versions
      BY DEF Projects!Init, Projects!Versions, Projects!NoProjects
    <2>2. requests \in [Request -> ProjectRequests]
      BY <1>1, ProjectRecords
    <2> QED
      BY <2>1, <2>2 DEF Projects!Init, ProjectsTyped, Projects!Pages
  <1>3. \A r \in Request : OwnFetch(requests[r])
    BY <1>1, ProjectRecords DEF OwnFetch
  <1>4. page = None /\ ~loading /\ ~error /\ dashboard = Projects!NoDashboard
    BY DEF Projects!Init
  <1> QED
    BY <1>2, <1>3, <1>4, ClientsAssumption DEF ProjectsInv, LandedIsShown

\* What was sent before the page is opened or left is not its own.
LEMMA OrphanedFetches ==
  ASSUME ProjectsInv
  PROVE  /\ Projects!Orphaned \in [Request -> ProjectRequests]
         /\ \A s \in Request : /\ Projects!Orphaned[s].pc = requests[s].pc
                               /\ Projects!Orphaned[s].page = requests[s].page
                               /\ ~Projects!Orphaned[s].mine
  BY ProjectRecords DEF ProjectsInv, ProjectsTyped, Projects!Orphaned

LEMMA FetchIsSent ==
  ASSUME ProjectsInv, NEW r \in Request, NEW p \in Project \cup {"list"},
         NEW base \in [Request -> ProjectRequests], Projects!Fetch(r, p, base)
  PROVE  /\ requests' \in [Request -> ProjectRequests]
         /\ requests'[r].pc = "sent" /\ requests'[r].page = p /\ requests'[r].mine
         /\ \A s \in Request \ {r} : requests'[s] = base[s]
  <1>1. requests' = [base EXCEPT ![r] = [Projects!Idle EXCEPT !.pc = "sent", !.page = p, !.mine = TRUE]]
    BY DEF Projects!Fetch
  <1>2. p \in Projects!Pages
    BY DEF Projects!Pages
  <1> QED
    BY <1>1, <1>2, ProjectRecords

LEMMA OpenKeepsProjects ==
  ASSUME ProjectsInv, NEW r \in Request, NEW p \in Projects!Pages, Projects!Open(r, p)
  PROVE  ProjectsInv'
  <1>1. /\ p # None /\ page' = p /\ dashboard' = Projects!Cleared /\ loading' = TRUE
        /\ Projects!Fetch(r, p, Projects!Orphaned)
        /\ changed' = FALSE /\ astray' = FALSE
        /\ UNCHANGED <<data, projects, error, failed, strayed>>
    BY DEF Projects!Open
  <1>2. p \in Project \cup {"list"}
    BY <1>1 DEF Projects!Pages
  <1>3. /\ requests' \in [Request -> ProjectRequests]
        /\ requests'[r].pc = "sent" /\ requests'[r].page = p /\ requests'[r].mine
        /\ \A s \in Request \ {r} : requests'[s] = Projects!Orphaned[s]
    BY <1>1, <1>2, OrphanedFetches, FetchIsSent
  <1>4. \A s \in Request \ {r} : /\ requests'[s].pc = requests[s].pc
                                 /\ requests'[s].page = requests[s].page /\ ~requests'[s].mine
    BY <1>3, OrphanedFetches
  <1>5. ProjectsTyped'
    BY <1>1, <1>3 DEF ProjectsInv, ProjectsTyped
  <1>6. \A s \in Request : OwnFetch(requests[s])'
    BY <1>1, <1>2, <1>3, <1>4 DEF ProjectsInv, OwnFetch
  <1>7. Awaited' /\ \E s \in Request : requests'[s].pc # "idle"
    BY <1>3 DEF Awaited
  <1>8. ~strayed => dashboard' = Projects!NoDashboard
    BY <1>1 DEF ProjectsInv, Projects!Cleared
  <1> QED
    BY <1>1, <1>5, <1>6, <1>7, <1>8 DEF ProjectsInv, Projects!NoDashboard

LEMMA LeaveKeepsProjects ==
  ASSUME ProjectsInv, Projects!Leave
  PROVE  ProjectsInv'
  <1>1. /\ page' = None /\ dashboard' = Projects!Cleared /\ loading' = (loading /\ page \notin Project)
        /\ requests' = Projects!Orphaned
        /\ UNCHANGED <<data, projects, error, changed, failed, astray, strayed>>
    BY DEF Projects!Leave, Projects!history
  <1>2. ProjectsTyped'
    BY <1>1, OrphanedFetches DEF ProjectsInv, ProjectsTyped, Projects!Pages
  <1>3. \A s \in Request : OwnFetch(requests[s])'
    BY <1>1, OrphanedFetches DEF ProjectsInv, OwnFetch
  <1>4. loading' /\ ~failed => \E s \in Request : requests'[s].pc # "idle"
    BY <1>1, OrphanedFetches DEF ProjectsInv
  <1>5. ~strayed => dashboard' = Projects!NoDashboard
    BY <1>1 DEF ProjectsInv, Projects!Cleared
  <1> QED
    BY <1>1, <1>2, <1>3, <1>4, <1>5, ClientsAssumption DEF ProjectsInv, LandedIsShown, Projects!NoDashboard

LEMMA TryAgainKeepsProjects ==
  ASSUME ProjectsInv, NEW r \in Request, Projects!TryAgain(r)
  PROVE  ProjectsInv'
  <1>1. /\ page # None /\ error /\ loading' = TRUE /\ Projects!Fetch(r, page, requests)
        /\ UNCHANGED <<data, page, projects, dashboard, error, changed, failed, astray, strayed>>
    BY DEF Projects!TryAgain, Projects!history
  <1>2. page \in Project \cup {"list"} /\ failed
    BY <1>1 DEF ProjectsInv, ProjectsTyped, Projects!Pages
  <1>3. /\ requests' \in [Request -> ProjectRequests]
        /\ requests'[r].pc = "sent" /\ requests'[r].page = page /\ requests'[r].mine
        /\ \A s \in Request \ {r} : requests'[s] = requests[s]
    BY <1>1, <1>2, FetchIsSent DEF ProjectsInv, ProjectsTyped
  <1>4. ProjectsTyped'
    BY <1>1, <1>3 DEF ProjectsInv, ProjectsTyped
  <1>5. \A s \in Request : OwnFetch(requests[s])'
    BY <1>1, <1>2, <1>3, NewestStays DEF ProjectsInv, OwnFetch
  <1> QED
    BY <1>1, <1>2, <1>4, <1>5 DEF ProjectsInv, Projects!NoDashboard

\* An answer that is of the newest projects, or of the dashboard asked for.
LEMMA AnswerKeepsProjects ==
  ASSUME ProjectsInv, NEW r \in Request, NEW got \in Projects!Versions,
         requests[r].pc = "sent", Projects!Answer(r, got),
         requests[r].page = "list" => NewestOf(got),
         requests[r].page \in Project => got[requests[r].page] = data[requests[r].page]
  PROVE  ProjectsInv'
  <1> DEFINE q == [requests[r] EXCEPT !.pc = "served", !.got = got]
  <1>1. /\ requests' = [requests EXCEPT ![r] = q]
        /\ UNCHANGED <<data, page, projects, dashboard, loading, error, changed, failed, astray, strayed>>
    BY DEF Projects!Answer, Projects!view, Projects!history, ProjectsInv, ProjectsTyped
  <1>2. requests[r] \in ProjectRequests
    BY DEF ProjectsInv, ProjectsTyped
  <1>3. /\ q \in ProjectRequests /\ q.pc = "served" /\ q.page = requests[r].page
        /\ q.mine = requests[r].mine /\ q.got = got
    BY <1>2 DEF ProjectRequests
  <1> HIDE DEF q
  <1>4. /\ requests' \in [Request -> ProjectRequests] /\ requests'[r] = q
        /\ \A s \in Request \ {r} : requests'[s] = requests[s]
    BY <1>1, <1>3 DEF ProjectsInv, ProjectsTyped
  <1>5. ProjectsTyped'
    BY <1>1, <1>4 DEF ProjectsInv, ProjectsTyped
  <1>6. \A g : NewestOf(g)' <=> NewestOf(g)
    BY <1>1, NewestStays
  <1>7. \A s \in Request : OwnFetch(requests[s])'
    <2>1. OwnFetch(requests[r])'
      BY <1>1, <1>3, <1>4, <1>6 DEF ProjectsInv, OwnFetch
    <2>2. \A s \in Request \ {r} : OwnFetch(requests[s])'
      BY <1>1, <1>4, <1>6 DEF ProjectsInv, OwnFetch
    <2> QED
      BY <2>1, <2>2
  <1>8. Awaited' <=> Awaited
    BY <1>3, <1>4 DEF Awaited
  <1>9. LandedIsShown => LandedIsShown'
    BY <1>1, <1>6 DEF LandedIsShown
  <1>10. \E s \in Request : requests'[s].pc # "idle"
    BY <1>3, <1>4
  <1> QED
    BY <1>1, <1>5, <1>7, <1>8, <1>9, <1>10 DEF ProjectsInv, Projects!NoDashboard

LEMMA ServeListKeepsProjects ==
  ASSUME ProjectsInv, NEW r \in Request, Projects!ServeList(r)
  PROVE  ProjectsInv'
  <1>1. PICK first \in SUBSET Project :
           /\ Projects!FirstPage(first)
           /\ Projects!Answer(r, [p \in Project |-> IF p \in first THEN data[p] ELSE None])
    BY DEF Projects!ServeList
  <1> DEFINE got == [p \in Project |-> IF p \in first THEN data[p] ELSE None]
  <1>2. requests[r].pc = "sent" /\ requests[r].page = "list" /\ data \in Projects!Versions
    BY DEF Projects!ServeList, ProjectsInv, ProjectsTyped
  <1>3. got \in Projects!Versions
    BY <1>2 DEF Projects!Versions
  <1>4. \A p \in first : data[p] # None
    BY <1>1 DEF Projects!FirstPage, Projects!Listed
  <1>5. {p \in Project : got[p] # None} = first
    BY <1>4
  <1>6. NewestOf(got)
    BY <1>1, <1>5 DEF NewestOf
  <1> HIDE DEF got
  <1> QED
    BY <1>1, <1>2, <1>3, <1>6, AnswerKeepsProjects, ClientsAssumption DEF got

LEMMA ServeDashboardKeepsProjects ==
  ASSUME ProjectsInv, NEW r \in Request, Projects!ServeDashboard(r)
  PROVE  ProjectsInv'
  <1> DEFINE p == requests[r].page
             got == [Projects!NoProjects EXCEPT ![p] = data[p]]
  <1>1. /\ requests[r].pc = "sent" /\ p \in Project /\ Projects!Answer(r, got)
        /\ data \in Projects!Versions
    BY DEF Projects!ServeDashboard, ProjectsInv, ProjectsTyped
  <1>2. got \in Projects!Versions /\ got[p] = data[p]
    BY <1>1 DEF Projects!Versions, Projects!NoProjects
  <1>3. p # "list"
    BY <1>1, ClientsAssumption
  <1> HIDE DEF got
  <1> QED
    BY <1>1, <1>2, <1>3, AnswerKeepsProjects

LEMMA LandKeepsProjects ==
  ASSUME ProjectsInv, NEW r \in Request, Projects!Land(r)
  PROVE  ProjectsInv'
  <1> DEFINE q == requests[r]
  <1>1. /\ q.pc = "served"
        /\ IF q.page = "list"
           THEN projects' = q.got /\ UNCHANGED dashboard
           ELSE dashboard' = [of |-> q.page, data |-> q.got[q.page]] /\ UNCHANGED projects
        /\ loading' = FALSE
        /\ requests' = [requests EXCEPT ![r] = Projects!Idle]
        /\ astray' = IF (q.page = "list") = (page = "list") THEN ~q.mine ELSE astray
        /\ strayed' = (strayed \/ ~q.mine)
        /\ UNCHANGED <<data, page, error, changed, failed>>
    BY DEF Projects!Land
  <1>2. q \in ProjectRequests /\ OwnFetch(q) /\ q.got \in Projects!Versions /\ q.mine \in BOOLEAN
    BY DEF ProjectsInv, ProjectsTyped, ProjectRequests
  <1>3. /\ requests' \in [Request -> ProjectRequests] /\ requests'[r] = Projects!Idle
        /\ \A s \in Request \ {r} : requests'[s] = requests[s]
    BY <1>1, ProjectRecords DEF ProjectsInv, ProjectsTyped
  <1>4. ProjectsTyped'
    BY <1>1, <1>2, <1>3 DEF ProjectsInv, ProjectsTyped
  <1>8. \A g : NewestOf(g)' <=> NewestOf(g)
    BY <1>1, NewestStays
  <1>5. \A s \in Request : OwnFetch(requests[s])'
    BY <1>1, <1>3, <1>8, ProjectRecords DEF ProjectsInv, OwnFetch
  <1>6. ASSUME ~failed, ~astray', ~Awaited' PROVE LandedIsShown'
    <2>1. CASE q.mine
      BY <1>1, <1>2, <1>8, <2>1, ClientsAssumption DEF OwnFetch, LandedIsShown
    <2>2. CASE ~q.mine
      <3>1. ~astray /\ (q.page = "list") # (page = "list")
        BY <1>1, <1>2, <1>6, <2>2
      <3>2. ~Awaited
        BY <1>3, <1>6, <2>2 DEF Awaited
      <3>3. LandedIsShown
        BY <1>6, <3>1, <3>2 DEF ProjectsInv
      <3> QED
        BY <1>1, <1>8, <3>1, <3>3, ClientsAssumption DEF LandedIsShown
    <2> QED
      BY <1>2, <2>1, <2>2
  <1>7. ASSUME ~strayed' PROVE dashboard' = Projects!NoDashboard \/ (page' \in Project /\ dashboard'.of = page')
    <2>1. q.mine /\ ~strayed
      BY <1>1, <1>2, <1>7
    <2> QED
      BY <1>1, <1>2, <2>1 DEF ProjectsInv, OwnFetch
  <1> QED
    BY <1>1, <1>4, <1>5, <1>6, <1>7 DEF ProjectsInv, Projects!NoDashboard

LEMMA FailKeepsProjects ==
  ASSUME ProjectsInv, NEW r \in Request, Projects!Fail(r)
  PROVE  ProjectsInv'
  <1>1. /\ failed' = TRUE /\ requests' = [requests EXCEPT ![r] = Projects!Idle]
        /\ UNCHANGED <<data, page, projects, dashboard, changed, astray, strayed>>
    BY DEF Projects!Fail
  <1>2. /\ requests' \in [Request -> ProjectRequests] /\ requests'[r] = Projects!Idle
        /\ \A s \in Request \ {r} : requests'[s] = requests[s]
    BY <1>1, ProjectRecords DEF ProjectsInv, ProjectsTyped
  <1>3. ProjectsTyped'
    BY <1>1, <1>2 DEF ProjectsInv, ProjectsTyped
  <1>4. \A g : NewestOf(g)' <=> NewestOf(g)
    BY <1>1, NewestStays
  <1>5. \A s \in Request : OwnFetch(requests[s])'
    BY <1>1, <1>2, <1>4, ProjectRecords DEF ProjectsInv, OwnFetch
  <1> QED
    BY <1>1, <1>3, <1>5 DEF ProjectsInv, Projects!NoDashboard

LEMMA OthersKeepProjects ==
  ASSUME ProjectsInv, Projects!Others
  PROVE  ProjectsInv'
  <1>1. /\ changed' = TRUE
        /\ UNCHANGED <<page, projects, dashboard, loading, error, requests, failed, astray, strayed>>
    BY DEF Projects!Others, Projects!view
  <1>2. data' \in Projects!Versions
    BY DEF Projects!Others, Projects!Versions, ProjectsInv, ProjectsTyped
  <1>3. ProjectsTyped'
    BY <1>1, <1>2 DEF ProjectsInv, ProjectsTyped
  <1>4. \A s \in Request : OwnFetch(requests[s])'
    BY <1>1 DEF ProjectsInv, OwnFetch
  <1>5. LandedIsShown => LandedIsShown'
    BY <1>1 DEF LandedIsShown
  <1> QED
    BY <1>1, <1>3, <1>4, <1>5 DEF ProjectsInv, Awaited, Projects!NoDashboard

LEMMA NextKeepsProjects == ProjectsInv /\ Projects!Next => ProjectsInv'
  BY OpenKeepsProjects, LeaveKeepsProjects, TryAgainKeepsProjects, ServeListKeepsProjects,
     ServeDashboardKeepsProjects, LandKeepsProjects, FailKeepsProjects, OthersKeepProjects
  DEF Projects!Next

LEMMA StutterKeepsProjects == ProjectsInv /\ UNCHANGED Projects!vars => ProjectsInv'
  <1> SUFFICES ASSUME ProjectsInv, UNCHANGED Projects!vars PROVE ProjectsInv'
    OBVIOUS
  <1>1. UNCHANGED <<data, page, projects, dashboard, loading, error, requests, changed, failed, astray, strayed>>
    BY DEF Projects!vars, Projects!view, Projects!history
  <1>2. \A r \in Request : OwnFetch(requests[r])'
    BY <1>1, NewestStays DEF ProjectsInv, OwnFetch
  <1>3. LandedIsShown => LandedIsShown'
    BY <1>1, NewestStays DEF LandedIsShown
  <1> QED
    BY <1>1, <1>2, <1>3 DEF ProjectsInv, ProjectsTyped, Awaited, Projects!NoDashboard

LEMMA ProjectsShowTheirOwn == ProjectsInv => Projects!ProjectsSettle
  <1> SUFFICES ASSUME ProjectsInv PROVE Projects!ProjectsSettle
    OBVIOUS
  <1>1. ASSUME Projects!AtRest PROVE ~Awaited
    BY <1>1 DEF Projects!AtRest, Awaited, ProjectsInv, OwnFetch
  <1>2. Projects!ShowsItsOwn
    <2> SUFFICES ASSUME Projects!AtRest, ~failed, ~astray
                 PROVE  /\ ~error /\ ~loading
                        /\ page = "list" /\ ~changed =>
                             /\ Projects!FirstPage(Projects!Rows)
                             /\ \A p \in Projects!Rows : projects[p] = data[p]
                        /\ page \in Project => dashboard.of = page /\ (changed \/ dashboard.data = data[page])
      BY DEF Projects!ShowsItsOwn, Projects!RowsShown
    <2>1. LandedIsShown
      BY <1>1 DEF ProjectsInv
    <2>2. ~error /\ ~loading
      BY DEF ProjectsInv, Projects!AtRest
    <2> QED
      BY <2>1, <2>2 DEF LandedIsShown, NewestOf, Projects!Rows
  <1>3. Projects!ShowsNoOther
    BY DEF ProjectsInv, Projects!ShowsNoOther, Projects!NumbersShown
  <1> QED
    BY <1>2, <1>3 DEF Projects!ProjectsSettle

LEMMA CreationOps ==
  /\ \A S : Creation!Cardinality(S) = Cardinality(S)
  /\ \A s : Creation!Range(s) = Range(s)
  BY DEF Creation!Cardinality, Cardinality, Creation!Range, Range

LEMMA RestOfList ==
  ASSUME NEW S, NEW s \in Seq(S), NEW i \in DOMAIN s
  PROVE  Creation!WithoutAt(s, i) \in Seq(S)
  <1>1. i \in 1 .. Len(s) /\ Len(s) \in Nat
    OBVIOUS
  <1>2. SubSeq(s, 1, i - 1) \in Seq(S) /\ SubSeq(s, i + 1, Len(s)) \in Seq(S)
    <2>1. \A j \in 1 .. i - 1 : j \in 1 .. Len(s)
      BY <1>1
    <2>2. \A j \in i + 1 .. Len(s) : j \in 1 .. Len(s)
      BY <1>1
    <2> QED
      BY <1>1, <2>1, <2>2, SubSeqProperties
  <1> QED
    BY <1>2 DEF Creation!WithoutAt

\* Whom the head and the tail of a list name.
LEMMA HeadAndTail ==
  ASSUME NEW S, NEW s \in Seq(S), s # <<>>
  PROVE  /\ Head(s) \in S /\ Tail(s) \in Seq(S) /\ Len(s) \in Nat
         /\ Len(s) # 1 => Tail(s) # <<>>
         /\ Len(s) = 1 => Range(s) = {Head(s)}
         /\ Range(s) \subseteq {Head(s)} \cup Range(Tail(s))
         /\ Head(s) \in Range(s)
  <1>1. Head(s) \in S /\ Tail(s) \in Seq(S) /\ Len(s) \in Nat /\ Len(s) >= 1 /\ Head(s) = s[1]
        /\ Len(Tail(s)) = Len(s) - 1 /\ \A i \in 1 .. Len(s) - 1 : Tail(s)[i] = s[i + 1]
    OBVIOUS
  <1>2. ASSUME Len(s) # 1, Tail(s) = <<>> PROVE FALSE
    <2>0. Len(<<>>) = 0
      OBVIOUS
    <2>1. Len(Tail(s)) = 0
      BY ONLY <1>2, <2>0
    <2>2. Len(Tail(s)) = Len(s) - 1
      BY <1>1
    <2> QED
      BY ONLY <1>1, <1>2, <2>1, <2>2
  <1>3. ASSUME NEW x \in Range(s) PROVE x = Head(s) \/ (Len(s) # 1 /\ x \in Range(Tail(s)))
    <2>1. PICK i \in 1 .. Len(s) : x = s[i]
      BY <1>3 DEF Range
    <2>2. CASE i # 1
      <3>1. i - 1 \in 1 .. Len(s) - 1 /\ Tail(s)[i - 1] = x
        BY <1>1, <2>1, <2>2
      <3>2. DOMAIN Tail(s) = 1 .. Len(s) - 1
        BY <1>1
      <3>3. Len(s) # 1 /\ i - 1 \in DOMAIN Tail(s)
        BY <1>1, <2>1, <2>2, <3>1, <3>2
      <3>4. x \in Range(Tail(s))
        BY <3>1, <3>3 DEF Range
      <3> QED
        BY <3>3, <3>4
    <2>3. CASE i = 1
      BY <1>1, <2>1, <2>3
    <2> QED
      BY <2>2, <2>3
  <1>4. Head(s) \in Range(s)
    BY <1>1 DEF Range
  <1> QED
    BY <1>1, <1>2, <1>3, <1>4

LEMMA CreationRecords ==
  /\ Creation!Idle \in CreationRequests /\ Creation!Idle.pc = "idle" /\ Creation!Idle.ofForm = FALSE
  /\ Creation!NoJob \in InvitationJobs /\ Creation!NoJob.pc = "idle"
  BY DEF CreationRequests, InvitationJobs, Creation!Idle, Creation!NoJob

LEMMA InitCreation == Creation!Init => CreationInv
  <1> SUFFICES ASSUME Creation!Init PROVE CreationInv
    OBVIOUS
  <1>1. requests = [r \in Request |-> Creation!Idle] /\ invitations = [p \in Project |-> Creation!NoJob]
        /\ listed = <<>> /\ made = {} /\ gaveUp = 0
        /\ members = [p \in Project |-> {}] /\ invited = [p \in Project |-> {}]
    BY DEF Creation!Init
  <1>2. requests \in [Request -> CreationRequests] /\ invitations \in [Project -> InvitationJobs]
    BY <1>1, CreationRecords
  <1>3. FormWaits
    BY <1>1, CreationRecords DEF FormWaits
  <1>4. IsFiniteSet({}) /\ Cardinality({}) = 0 /\ Pending \in {0, 1}
    BY FS_EmptySet DEF Pending
  <1>5. FormInv
    BY <1>1, <1>2, <1>3, <1>4 DEF FormInv
  <1>6. JobsInv
    BY <1>1, <1>2, CreationRecords DEF JobsInv, JobsGoOn, ToInvite
  <1> QED
    BY <1>5, <1>6 DEF CreationInv

LEMMA JobsStay ==
  ASSUME JobsInv, UNCHANGED <<accounts, members, invitations, invited, cut>>
  PROVE  JobsInv'
  BY DEF JobsInv, JobsGoOn, ToInvite

LEMMA FormStays ==
  ASSUME FormInv, UNCHANGED <<place, listed, creating, error, requests, made, gaveUp, dismissed>>
  PROVE  FormInv'
  BY DEF FormInv, FormWaits, Pending, StoredFor

\* Nothing that the form made waits to be answered, or something does.
LEMMA PendingIs ==
  /\ (\E r \in Request : StoredFor(requests[r])) => Pending = 1
  /\ (\A r \in Request : ~StoredFor(requests[r])) => Pending = 0
  /\ Pending \in {0, 1}
  BY DEF Pending

\* The form is left, and waits for nothing.
LEMMA LeftForm ==
  ASSUME NEW base \in [Request -> CreationRequests], NEW other, Creation!LeaveFor(other, base)
  PROVE  FormInv'
  <1>1. /\ listed' = <<>> /\ made' = {} /\ gaveUp' = 0
        /\ requests' = [r \in Request |-> [base[r] EXCEPT !.ofForm = FALSE]]
    BY DEF Creation!LeaveFor
  <1>2. \A q \in CreationRequests :
           [q EXCEPT !.ofForm = FALSE] \in CreationRequests /\ [q EXCEPT !.ofForm = FALSE].ofForm = FALSE
    BY DEF CreationRequests
  <1>3. requests' \in [Request -> CreationRequests] /\ \A r \in Request : requests'[r].ofForm = FALSE
    BY <1>1, <1>2
  <1>4. FormWaits'
    BY <1>3 DEF FormWaits
  <1>5. IsFiniteSet({}) /\ Cardinality({}) = 0 /\ Pending' \in {0, 1}
    BY FS_EmptySet DEF Pending
  <1> QED
    BY <1>1, <1>3, <1>4, <1>5 DEF FormInv

\* One request changes, and goes on being of the form or not.
LEMMA CreationRequestChanges ==
  ASSUME FormInv, NEW r \in Request, NEW q \in CreationRequests, requests' = [requests EXCEPT ![r] = q]
  PROVE  /\ requests' \in [Request -> CreationRequests] /\ requests'[r] = q
         /\ \A s \in Request \ {r} : requests'[s] = requests[s]
  BY DEF FormInv

\* Of a request of the form no other is.
LEMMA OnlyRequest ==
  ASSUME FormInv, NEW r \in Request
  PROVE  /\ requests[r] \in CreationRequests
         /\ requests[r].ofForm =>
              /\ creating /\ place = "form" /\ requests[r].waiting
              /\ \A s \in Request \ {r} : ~requests[s].ofForm
              /\ Pending = IF requests[r].pc \in {"stored", "answered"} THEN 1 ELSE 0
  BY PendingIs DEF FormInv, FormWaits, StoredFor

LEMMA HandleCreateKeepsForm ==
  ASSUME FormInv, NEW r \in Request, Creation!HandleCreate(r)
  PROVE  FormInv'
  <1> DEFINE q == [Creation!Idle EXCEPT !.pc = "sent", !.waiting = TRUE, !.ofForm = TRUE, !.emails = listed]
  <1>1. /\ place = "form" /\ ~creating /\ requests[r].pc = "idle" /\ creating' = TRUE
        /\ requests' = [requests EXCEPT ![r] = q]
        /\ UNCHANGED <<place, listed, made, gaveUp, dismissed>>
    BY DEF Creation!HandleCreate, Creation!visit
  <1>2. q \in CreationRequests /\ q.pc = "sent" /\ q.waiting /\ q.ofForm
    BY DEF FormInv, CreationRequests, Creation!Idle
  <1> HIDE DEF q
  <1>3. /\ requests' \in [Request -> CreationRequests] /\ requests'[r] = q
        /\ \A s \in Request \ {r} : requests'[s] = requests[s]
    BY <1>1, <1>2, CreationRequestChanges
  <1>4. \A s \in Request : ~requests[s].ofForm
    BY <1>1 DEF FormInv, FormWaits
  <1>5. FormWaits'
    BY <1>1, <1>2, <1>3, <1>4 DEF FormWaits
  <1>6. Pending = 0 /\ Pending' \in {0, 1} /\ Cardinality(made) \in Nat
    BY <1>4, PendingIs, FS_CardinalityType DEF StoredFor, Pending, FormInv
  <1> QED
    BY <1>1, <1>3, <1>5, <1>6 DEF FormInv

\* An answer, or none, ends what the form waits for.
LEMMA FailKeepsForm ==
  ASSUME FormInv, NEW r \in Request, Creation!Fail(r)
  PROVE  FormInv'
  <1>1. /\ requests[r].pc = "refused" /\ Creation!Failed(r)
        /\ requests' = [requests EXCEPT ![r] = Creation!Idle]
        /\ UNCHANGED <<place, listed, made, gaveUp, dismissed>>
    BY DEF Creation!Fail, Creation!visit
  <1>2. /\ requests' \in [Request -> CreationRequests] /\ requests'[r] = Creation!Idle
        /\ \A s \in Request \ {r} : requests'[s] = requests[s]
    BY <1>1, CreationRecords, CreationRequestChanges
  <1>3. Cardinality(made) \in Nat /\ gaveUp \in Nat
    BY FS_CardinalityType DEF FormInv
  <1>4. CASE requests[r].ofForm
    <2>1. \A s \in Request : ~requests'[s].ofForm
      BY <1>2, <1>4, OnlyRequest, CreationRecords
    <2>2. FormWaits' /\ Pending = 0 /\ Pending' = 0
      BY <1>1, <1>4, <2>1, OnlyRequest DEF FormWaits, Pending, StoredFor
    <2>3. error' = TRUE
      BY <1>1, <1>4 DEF Creation!Failed
    <2> QED
      BY <1>1, <1>2, <1>3, <2>2, <2>3 DEF FormInv
  <1>5. CASE ~requests[r].ofForm
    <2>1. UNCHANGED <<error, creating>>
      BY <1>1, <1>5 DEF Creation!Failed
    <2>2. \A s \in Request : /\ requests'[s].ofForm = requests[s].ofForm
                             /\ requests[s].ofForm => requests'[s] = requests[s]
      BY <1>2, <1>5, CreationRecords DEF FormInv, CreationRequests
    <2>3. FormWaits' /\ Pending' = Pending
      BY <1>1, <2>1, <2>2 DEF FormInv, FormWaits, Pending, StoredFor
    <2> QED
      BY <1>1, <1>2, <2>1, <2>3 DEF FormInv
  <1> QED
    BY <1>4, <1>5

LEMMA TimeOutKeepsForm ==
  ASSUME FormInv, NEW r \in Request, Creation!TimeOut(r)
  PROVE  FormInv'
  <1> DEFINE q == requests[r]
             n == IF q.pc = "answered" THEN Creation!Idle ELSE [q EXCEPT !.waiting = FALSE, !.ofForm = FALSE]
  <1>1. /\ q.pc \in {"sent", "stored", "answered"} /\ Creation!Failed(r)
        /\ gaveUp' = IF q.ofForm THEN gaveUp + 1 ELSE gaveUp
        /\ requests' = [requests EXCEPT ![r] = n]
        /\ UNCHANGED <<place, listed, made, dismissed>>
    BY DEF Creation!TimeOut
  <1>2. q \in CreationRequests
    BY OnlyRequest
  <1>3. n \in CreationRequests /\ n.ofForm = FALSE
    <2>1. [q EXCEPT !.waiting = FALSE, !.ofForm = FALSE] \in CreationRequests
          /\ [q EXCEPT !.waiting = FALSE, !.ofForm = FALSE].ofForm = FALSE
      BY <1>2 DEF CreationRequests
    <2> QED
      BY <2>1, CreationRecords
  <1> HIDE DEF n
  <1>4. /\ requests' \in [Request -> CreationRequests] /\ requests'[r] = n
        /\ \A s \in Request \ {r} : requests'[s] = requests[s]
    BY <1>1, <1>3, CreationRequestChanges
  <1>5. Cardinality(made) \in Nat /\ gaveUp \in Nat
    BY FS_CardinalityType DEF FormInv
  <1>6. CASE q.ofForm
    <2>1. \A s \in Request : ~requests'[s].ofForm
      BY <1>3, <1>4, <1>6, OnlyRequest
    <2>2. FormWaits' /\ Pending \in {0, 1} /\ Pending' = 0
      BY <2>1, PendingIs DEF FormWaits, Pending, StoredFor
    <2>3. error' = TRUE /\ gaveUp' = gaveUp + 1
      BY <1>1, <1>6 DEF Creation!Failed
    <2> QED
      BY <1>1, <1>4, <1>5, <2>2, <2>3 DEF FormInv
  <1>7. CASE ~q.ofForm
    <2>1. UNCHANGED <<error, creating, gaveUp>>
      BY <1>1, <1>7 DEF Creation!Failed
    <2>2. \A s \in Request : /\ requests'[s].ofForm = requests[s].ofForm
                             /\ requests[s].ofForm => requests'[s] = requests[s]
      BY <1>2, <1>3, <1>4, <1>7 DEF CreationRequests
    <2>3. FormWaits' /\ Pending' = Pending
      BY <1>1, <2>1, <2>2 DEF FormInv, FormWaits, Pending, StoredFor
    <2> QED
      BY <1>1, <1>4, <2>1, <2>3 DEF FormInv
  <1> QED
    BY <1>6, <1>7

\* The backend ends a request that stored nothing, or one it has stored.
LEMMA EndsKeepsForm ==
  ASSUME FormInv, NEW r \in Request, NEW pc \in {"answered", "refused"}, Creation!Ends(r, pc),
         UNCHANGED <<place, listed, creating, error, made, dismissed>>,
         \/ requests[r].pc = "sent" /\ pc = "refused" /\ gaveUp' = gaveUp
         \/ requests[r].pc = "stored" /\ pc = "answered" /\ gaveUp' = gaveUp
         \/ requests[r].pc = "stored" /\ gaveUp' = IF requests[r].ofForm THEN gaveUp + 1 ELSE gaveUp
  PROVE  FormInv'
  <1> DEFINE q == requests[r]
             n == IF q.waiting THEN [q EXCEPT !.pc = pc] ELSE Creation!Idle
  <1>1. requests' = [requests EXCEPT ![r] = n]
    BY DEF Creation!Ends, FormInv
  <1>2. q \in CreationRequests
    BY OnlyRequest
  <1>3. /\ n \in CreationRequests
        /\ q.waiting => n.pc = pc /\ n.ofForm = q.ofForm /\ n.waiting
        /\ ~q.waiting => n = Creation!Idle
    <2>1. [q EXCEPT !.pc = pc] \in CreationRequests /\ [q EXCEPT !.pc = pc].pc = pc
          /\ [q EXCEPT !.pc = pc].ofForm = q.ofForm /\ [q EXCEPT !.pc = pc].waiting = q.waiting
      BY <1>2 DEF CreationRequests
    <2> QED
      BY <2>1, CreationRecords
  <1> HIDE DEF n
  <1>4. /\ requests' \in [Request -> CreationRequests] /\ requests'[r] = n
        /\ \A s \in Request \ {r} : requests'[s] = requests[s]
    BY <1>1, <1>3, CreationRequestChanges
  <1>5. Cardinality(made) \in Nat /\ gaveUp \in Nat
    BY FS_CardinalityType DEF FormInv
  <1>6. CASE q.ofForm
    <2>1. q.waiting /\ n.pc = pc /\ n.ofForm /\ n.waiting /\ creating /\ place = "form"
          /\ \A s \in Request \ {r} : ~requests[s].ofForm
      BY <1>2, <1>3, <1>6, OnlyRequest DEF CreationRequests
    <2>2. FormWaits'
      BY <1>4, <2>1 DEF FormWaits
    <2>3. Pending = (IF q.pc \in {"stored", "answered"} THEN 1 ELSE 0)
      BY <1>6, OnlyRequest
    <2>4. Pending' = (IF pc = "answered" THEN 1 ELSE 0)
      BY <1>4, <2>1 DEF Pending, StoredFor
    <2> QED
      BY <1>4, <1>5, <1>6, <2>1, <2>2, <2>3, <2>4 DEF FormInv
  <1>7. CASE ~q.ofForm
    <2>1. \A s \in Request : /\ requests'[s].ofForm <=> requests[s].ofForm
                             /\ requests[s].ofForm => requests'[s] = requests[s]
      BY <1>2, <1>3, <1>4, <1>7, CreationRecords DEF CreationRequests
    <2>2. FormWaits' /\ Pending' = Pending
      BY <2>1 DEF FormInv, FormWaits, Pending, StoredFor
    <2> QED
      BY <1>4, <1>5, <1>7, <2>2 DEF FormInv
  <1> QED
    BY <1>6, <1>7

LEMMA CommitKeepsCreation ==
  ASSUME CreationInv, NEW r \in Request, NEW p \in Project, Creation!Commit(r, p)
  PROVE  CreationInv'
  <1> DEFINE q == requests[r]
             n == [q EXCEPT !.pc = "stored", !.project = p]
  <1>1. /\ q.pc = "sent" /\ members[p] = {}
        /\ members' = [members EXCEPT ![p] = {Owner}]
        /\ invitations' = IF q.emails = <<>> THEN invitations
                          ELSE [invitations EXCEPT ![p] = [pc |-> "next", todo |-> q.emails]]
        /\ invited' = [invited EXCEPT ![p] = accounts \cap Range(q.emails)]
        /\ made' = IF q.ofForm THEN made \cup {p} ELSE made
        /\ UNCHANGED <<accounts, place, listed, creating, error, cut, gaveUp, dismissed>>
    BY CreationOps DEF Creation!Commit, Creation!form
  <1>2. q \in CreationRequests /\ FormInv /\ JobsInv
    BY OnlyRequest DEF CreationInv
  <1>3. requests' = [requests EXCEPT ![r] = n]
    BY <1>2 DEF Creation!Commit, FormInv
  <1>4. n \in CreationRequests /\ n.pc = "stored" /\ n.ofForm = q.ofForm /\ n.waiting = q.waiting
    BY <1>2 DEF CreationRequests
  <1> HIDE DEF n
  <1>5. /\ requests' \in [Request -> CreationRequests] /\ requests'[r] = n
        /\ \A s \in Request \ {r} : requests'[s] = requests[s]
    BY <1>2, <1>3, <1>4, CreationRequestChanges
  <1>6. FormWaits'
    BY <1>1, <1>2, <1>4, <1>5 DEF FormInv, FormWaits
  <1>7. /\ IsFiniteSet(made) /\ Cardinality(made) \in Nat /\ gaveUp \in Nat
        /\ IsFiniteSet(made \cup {p}) /\ Cardinality(made \cup {p}) \in Nat
        /\ Cardinality(made \cup {p}) <= Cardinality(made) + 1
    <2>1. IsFiniteSet(made) /\ gaveUp \in Nat
      BY <1>2 DEF FormInv
    <2>2. Cardinality(made) \in Nat
      BY <2>1, FS_CardinalityType
    <2>3. /\ IsFiniteSet(made \cup {p})
          /\ Cardinality(made \cup {p}) = IF p \in made THEN Cardinality(made) ELSE Cardinality(made) + 1
      BY <2>1, FS_AddElement
    <2> QED
      BY <2>1, <2>2, <2>3
  <1>8. FormInv'
    <2>1. CASE q.ofForm
      <3>1. creating /\ Pending = 0
        BY <1>1, <1>2, <2>1, OnlyRequest
      <3>2. Pending' = 1
        BY <1>4, <1>5, <2>1 DEF Pending, StoredFor
      <3>3. Cardinality(made') <= gaveUp' + Pending' /\ IsFiniteSet(made')
        BY <1>1, <1>2, <1>7, <2>1, <3>1, <3>2 DEF FormInv
      <3> QED
        BY <1>1, <1>2, <1>5, <1>6, <3>1, <3>3 DEF FormInv
    <2>2. CASE ~q.ofForm
      <3>1. Pending' = Pending
        <4>1. \A s \in Request : StoredFor(requests'[s]) <=> StoredFor(requests[s])
          BY <1>4, <1>5, <2>2 DEF StoredFor
        <4> QED
          BY <4>1 DEF Pending, StoredFor
      <3> QED
        BY <1>1, <1>2, <1>5, <1>6, <2>2, <3>1 DEF FormInv
    <2> QED
      BY <2>1, <2>2
  <1>9. JobsInv'
    <2>1. q.emails \in Seq(Email) /\ Range(q.emails) \subseteq Email
      BY <1>2 DEF CreationRequests, Range
    <2>2. members' \in [Project -> SUBSET Email]
      BY <1>1, <1>2, ClientsAssumption DEF JobsInv
    <2>3. invited' \in [Project -> SUBSET Email]
      BY <1>1, <1>2, <2>1 DEF JobsInv
    <2>4. [pc |-> "next", todo |-> q.emails] \in InvitationJobs
      BY <2>1 DEF InvitationJobs
    <2>5. invitations' \in [Project -> InvitationJobs]
      BY <1>1, <1>2, <2>4 DEF JobsInv
    <2>6. ASSUME NEW x \in Project PROVE JobsGoOn(x)'
      <3>1. CASE x # p
        BY <1>1, <1>2, <2>2, <2>3, <2>5, <3>1 DEF JobsInv, JobsGoOn, ToInvite
      <3>2. CASE x = p /\ q.emails = <<>>
        <4>1. invited'[p] = {} /\ invitations' = invitations
          BY <1>1, <1>2, <3>2 DEF JobsInv, Range
        <4> QED
          BY <1>2, <3>2, <4>1 DEF JobsInv, JobsGoOn
      <3>3. CASE x = p /\ q.emails # <<>>
        <4>1. /\ invited'[p] = accounts \cap Range(q.emails)
              /\ invitations'[p] = [pc |-> "next", todo |-> q.emails]
          BY <1>1, <1>2, <3>3 DEF JobsInv
        <4>2. invitations'[p].pc = "next" /\ invitations'[p].todo = q.emails
          BY <4>1
        <4> QED
          BY <1>1, <3>3, <4>1, <4>2 DEF JobsGoOn, ToInvite
      <3> QED
        BY <3>1, <3>2, <3>3
    <2> QED
      BY <2>2, <2>3, <2>5, <2>6 DEF JobsInv
  <1> QED
    BY <1>8, <1>9 DEF CreationInv

\* What is left of a job whose first email is done.
LEMMA AfterJob ==
  ASSUME JobsInv, NEW p \in Project, invitations[p].pc # "idle"
  PROVE  LET job == invitations[p]
             rest == Creation!After(job)
         IN /\ rest \in InvitationJobs
            /\ rest.pc # "idle" => rest.todo # <<>>
            /\ Range(job.todo) \subseteq {Head(job.todo)} \cup IF rest.pc = "idle" THEN {} ELSE Range(rest.todo)
            /\ Head(job.todo) \in Email
            /\ job.todo \in Seq(Email) /\ job.todo # <<>>
  <1> DEFINE job == invitations[p]
             rest == Creation!After(job)
  <1>1. job \in InvitationJobs /\ job.todo \in Seq(Email) /\ job.todo # <<>>
    BY DEF JobsInv, JobsGoOn, InvitationJobs
  <1>2. PICK l : l = job.todo
    OBVIOUS
  <1>3. /\ Head(l) \in Email /\ Tail(l) \in Seq(Email) /\ Len(l) \in Nat
        /\ Len(l) # 1 => Tail(l) # <<>>
        /\ Len(l) = 1 => Range(l) = {Head(l)}
        /\ Range(l) \subseteq {Head(l)} \cup Range(Tail(l))
    BY <1>1, <1>2, HeadAndTail
  <1>4. CASE Len(l) = 1
    <2>1. rest = Creation!NoJob
      BY <1>2, <1>4 DEF Creation!After
    <2> QED
      BY <1>1, <1>2, <1>3, <1>4, <2>1, CreationRecords
  <1>5. CASE Len(l) # 1
    <2>1. rest = [pc |-> "next", todo |-> Tail(l)]
      BY <1>2, <1>5 DEF Creation!After
    <2>2. rest \in InvitationJobs /\ rest.pc = "next" /\ rest.todo = Tail(l)
      BY <1>3, <2>1 DEF InvitationJobs
    <2> QED
      BY <1>1, <1>2, <1>3, <1>5, <2>2
  <1> QED
    BY <1>4, <1>5

\* One job goes on, and may add a member.
LEMMA JobGoesOn ==
  ASSUME JobsInv, NEW p \in Project, NEW job \in InvitationJobs,
         NEW new \in SUBSET Email, NEW over \in BOOLEAN,
         UNCHANGED <<accounts, invited>>,
         invitations' = [invitations EXCEPT ![p] = job],
         members' = [members EXCEPT ![p] = members[p] \cup new],
         cut' = IF over THEN cut \cup {p} ELSE cut,
         job.pc # "idle" => job.todo # <<>>,
         ~over => ToInvite(p) \cap invited[p] \subseteq
                     members[p] \cup new \cup IF job.pc = "idle" THEN {} ELSE Range(job.todo)
  PROVE  JobsInv'
  <1>1. /\ members' \in [Project -> SUBSET Email] /\ members'[p] = members[p] \cup new
        /\ \A x \in Project \ {p} : members'[x] = members[x]
        /\ invitations' \in [Project -> InvitationJobs] /\ invitations'[p] = job
        /\ \A x \in Project \ {p} : invitations'[x] = invitations[x]
    BY DEF JobsInv
  <1>2. ASSUME NEW x \in Project PROVE JobsGoOn(x)'
    <2>1. CASE x # p
      BY <1>1, <2>1 DEF JobsInv, JobsGoOn, ToInvite
    <2>2. CASE x = p
      BY <1>1, <2>2 DEF JobsInv, JobsGoOn, ToInvite
    <2> QED
      BY <2>1, <2>2
  <1> QED
    BY <1>1, <1>2 DEF JobsInv

LEMMA FindMemberKeepsJobs ==
  ASSUME JobsInv, NEW p \in Project, Creation!FindMember(p)
  PROVE  JobsInv'
  <1> DEFINE job == invitations[p]
             e == Head(job.todo)
             next == IF e \in accounts \ members[p] THEN [job EXCEPT !.pc = "insert"] ELSE Creation!After(job)
  <1>1. /\ job.pc = "next" /\ invitations' = [invitations EXCEPT ![p] = next]
        /\ UNCHANGED <<accounts, members, invited, cut>>
    BY DEF Creation!FindMember, Creation!stored
  <1>2. /\ Creation!After(job) \in InvitationJobs
        /\ Creation!After(job).pc # "idle" => Creation!After(job).todo # <<>>
        /\ Range(job.todo) \subseteq {e} \cup IF Creation!After(job).pc = "idle" THEN {} ELSE Range(Creation!After(job).todo)
        /\ job.todo # <<>>
    BY <1>1, AfterJob
  <1>3. job \in InvitationJobs /\ invited[p] \subseteq accounts
    BY DEF JobsInv, JobsGoOn
  <1>4. /\ [job EXCEPT !.pc = "insert"] \in InvitationJobs
        /\ [job EXCEPT !.pc = "insert"].pc = "insert" /\ [job EXCEPT !.pc = "insert"].todo = job.todo
    BY <1>3 DEF InvitationJobs
  <1>5. /\ next \in InvitationJobs
        /\ next.pc # "idle" => next.todo # <<>>
        /\ ToInvite(p) \cap invited[p] \subseteq
              members[p] \cup {} \cup IF next.pc = "idle" THEN {} ELSE Range(next.todo)
    <2>1. ToInvite(p) = Range(job.todo)
      BY <1>1 DEF ToInvite
    <2>2. CASE e \in accounts \ members[p]
      BY <1>2, <1>4, <2>1, <2>2
    <2>3. CASE e \notin accounts \ members[p]
      <3>1. next = Creation!After(job)
        BY <2>3
      <3> HIDE DEF next
      <3> QED
        BY <1>2, <1>3, <2>1, <2>3, <3>1
    <2> QED
      BY <2>2, <2>3
  <1>6. members' = [members EXCEPT ![p] = members[p] \cup {}] /\ cut' = IF FALSE THEN cut \cup {p} ELSE cut
    BY <1>1 DEF JobsInv
  <1> HIDE DEF next
  <1>7. PICK n \in InvitationJobs : n = next
    BY <1>5
  <1>8. PICK new \in SUBSET Email, over \in BOOLEAN : new = {} /\ over = FALSE
    OBVIOUS
  <1>9. /\ UNCHANGED <<accounts, invited>>
        /\ invitations' = [invitations EXCEPT ![p] = n]
        /\ members' = [members EXCEPT ![p] = members[p] \cup new]
        /\ cut' = IF over THEN cut \cup {p} ELSE cut
        /\ n.pc # "idle" => n.todo # <<>>
        /\ ~over => ToInvite(p) \cap invited[p] \subseteq
              members[p] \cup new \cup IF n.pc = "idle" THEN {} ELSE Range(n.todo)
    BY <1>1, <1>5, <1>6, <1>7, <1>8
  <1> QED
    BY <1>9, JobGoesOn

LEMMA InsertMemberKeepsJobs ==
  ASSUME JobsInv, NEW p \in Project, Creation!InsertMember(p)
  PROVE  JobsInv'
  <1> DEFINE job == invitations[p]
             e == Head(job.todo)
             next == IF e \in members[p] THEN Creation!NoJob ELSE Creation!After(job)
             over == e \in members[p]
  <1>1. /\ job.pc = "insert" /\ invitations' = [invitations EXCEPT ![p] = next]
        /\ members' = [members EXCEPT ![p] = members[p] \cup {e}]
        /\ cut' = IF over THEN cut \cup {p} ELSE cut
        /\ UNCHANGED <<accounts, invited>>
    BY DEF Creation!InsertMember, JobsInv
  <1>2. /\ Creation!After(job) \in InvitationJobs
        /\ Creation!After(job).pc # "idle" => Creation!After(job).todo # <<>>
        /\ Range(job.todo) \subseteq {e} \cup IF Creation!After(job).pc = "idle" THEN {} ELSE Range(Creation!After(job).todo)
        /\ e \in Email
    BY <1>1, AfterJob
  <1>3. /\ next \in InvitationJobs
        /\ next.pc # "idle" => next.todo # <<>>
        /\ ~over => ToInvite(p) \cap invited[p] \subseteq
              members[p] \cup {e} \cup IF next.pc = "idle" THEN {} ELSE Range(next.todo)
    <2>1. ToInvite(p) = Range(job.todo)
      BY <1>1 DEF ToInvite
    <2>2. CASE over
      BY <2>2, CreationRecords
    <2>3. CASE ~over
      <3>1. next = Creation!After(job)
        BY <2>3
      <3> HIDE DEF next
      <3> QED
        BY <1>2, <2>1, <2>3, <3>1
    <2> QED
      BY <2>2, <2>3
  <1>4. over \in BOOLEAN /\ {e} \in SUBSET Email
    BY <1>2
  <1> HIDE DEF next
  <1>5. PICK n \in InvitationJobs : n = next
    BY <1>3
  <1>6. PICK new \in SUBSET Email, o \in BOOLEAN : new = {e} /\ o = over
    BY <1>4
  <1> HIDE DEF over
  <1>7. /\ UNCHANGED <<accounts, invited>>
        /\ invitations' = [invitations EXCEPT ![p] = n]
        /\ members' = [members EXCEPT ![p] = members[p] \cup new]
        /\ cut' = IF o THEN cut \cup {p} ELSE cut
        /\ n.pc # "idle" => n.todo # <<>>
        /\ ~o => ToInvite(p) \cap invited[p] \subseteq
              members[p] \cup new \cup IF n.pc = "idle" THEN {} ELSE Range(n.todo)
    BY <1>1, <1>3, <1>5, <1>6
  <1> QED
    BY <1>7, JobGoesOn

LEMMA CutKeepsJobs ==
  ASSUME JobsInv, NEW p \in Project, Creation!Cut(p)
  PROVE  JobsInv'
  <1>1. /\ invitations' = [invitations EXCEPT ![p] = Creation!NoJob]
        /\ members' = [members EXCEPT ![p] = members[p] \cup {}]
        /\ cut' = IF TRUE THEN cut \cup {p} ELSE cut
        /\ UNCHANGED <<accounts, invited>>
    BY DEF Creation!Cut, Creation!stored, JobsInv
  <1> QED
    BY <1>1, CreationRecords, JobGoesOn

LEMMA ElsewhereKeepsJobs ==
  ASSUME JobsInv, NEW e \in Email,
         Creation!SignUp(e) \/ \E p \in Project : Creation!InviteElsewhere(p, e)
  PROVE  JobsInv'
  <1>1. CASE Creation!SignUp(e)
    BY <1>1 DEF Creation!SignUp, Creation!jobs, JobsInv, JobsGoOn, ToInvite
  <1>2. CASE \E p \in Project : Creation!InviteElsewhere(p, e)
    <2>1. PICK p \in Project : Creation!InviteElsewhere(p, e)
      BY <1>2
    <2>2. /\ members' = [members EXCEPT ![p] = members[p] \cup {e}]
          /\ UNCHANGED <<accounts, invitations, invited, cut>>
      BY <2>1 DEF Creation!InviteElsewhere, Creation!jobs, JobsInv
    <2>3. /\ members' \in [Project -> SUBSET Email]
          /\ \A x \in Project : members[x] \subseteq members'[x]
      BY <2>2 DEF JobsInv
    <2> QED
      BY <2>2, <2>3 DEF JobsInv, JobsGoOn, ToInvite
  <1> QED
    BY <1>1, <1>2

LEMMA CrashKeepsCreation ==
  ASSUME CreationInv, Creation!Crash
  PROVE  CreationInv'
  <1> DEFINE begun == {r \in Request : requests[r].pc \in {"sent", "stored", "answered"}}
             gone == {r \in begun : requests[r].pc # "sent" /\ requests[r].ofForm}
             ongoing == {p \in Project : invitations[p].pc # "idle"}
  <1>1. /\ invitations' = [p \in Project |-> Creation!NoJob] /\ cut' = cut \cup ongoing
        /\ requests' = [r \in Request |->
              IF r \notin begun THEN requests[r]
              ELSE IF requests[r].waiting THEN [requests[r] EXCEPT !.pc = "refused"] ELSE Creation!Idle]
        /\ gaveUp' = gaveUp + Cardinality(gone)
        /\ UNCHANGED <<accounts, members, place, listed, creating, error, invited, made, dismissed>>
    BY CreationOps DEF Creation!Crash, Creation!stored, Creation!form
  <1>2. FormInv /\ JobsInv
    BY DEF CreationInv
  <1>3. ASSUME NEW r \in Request
        PROVE  /\ requests'[r] \in CreationRequests
               /\ requests'[r].pc \notin {"sent", "stored", "answered"}
               /\ requests'[r].ofForm => /\ requests[r].ofForm /\ requests'[r].pc # "idle"
                                         /\ requests'[r].waiting
    <2>1. requests[r] \in CreationRequests /\ (requests[r].ofForm => requests[r].pc # "idle" /\ requests[r].waiting)
      BY <1>2 DEF FormInv, FormWaits
    <2>2. CASE r \notin begun
      BY <1>1, <2>1, <2>2
    <2>3. CASE r \in begun /\ requests[r].waiting
      <3>1. requests'[r] = [requests[r] EXCEPT !.pc = "refused"]
        BY <1>1, <2>3
      <3> QED
        BY <2>1, <2>3, <3>1 DEF CreationRequests
    <2>4. CASE r \in begun /\ ~requests[r].waiting
      BY <1>1, <2>4, CreationRecords
    <2> QED
      BY <2>2, <2>3, <2>4
  <1>4. requests' \in [Request -> CreationRequests]
    BY <1>1, <1>3
  <1>5. FormWaits'
    BY <1>1, <1>2, <1>3 DEF FormInv, FormWaits
  <1>6. Pending' = 0
    BY <1>3 DEF Pending, StoredFor
  <1>7. Cardinality(gone) \in Nat /\ Cardinality(gone) >= Pending
    <2>1. CASE \E r \in Request : StoredFor(requests[r])
      <3>1. PICK r \in Request : StoredFor(requests[r])
        BY <2>1
      <3>2. gone = {r}
        BY <1>2, <3>1, OnlyRequest DEF StoredFor
      <3> QED
        <4>1. Cardinality({r}) = 1
          BY FS_Singleton
        <4>2. Pending = 1
          BY <3>1, PendingIs
        <4> HIDE DEF gone
        <4> QED
          BY <3>2, <4>1, <4>2
    <2>2. CASE \A r \in Request : ~StoredFor(requests[r])
      <3>1. gone = {}
        BY <2>2 DEF StoredFor
      <3> QED
        BY <2>2, <3>1, FS_EmptySet, PendingIs
    <2> QED
      BY <2>1, <2>2
  <1> HIDE DEF gone
  <1>8. FormInv'
    <2>1. Cardinality(made) \in Nat /\ gaveUp \in Nat /\ Pending \in {0, 1}
      BY <1>2, PendingIs, FS_CardinalityType DEF FormInv
    <2> QED
      BY <1>1, <1>2, <1>4, <1>5, <1>6, <1>7, <2>1 DEF FormInv
  <1>9. JobsInv'
    <2>1. invitations' \in [Project -> InvitationJobs] /\ \A p \in Project : invitations'[p].pc = "idle"
      BY <1>1, CreationRecords
    <2>2. ASSUME NEW p \in Project PROVE JobsGoOn(p)'
      BY <1>1, <1>2, <2>1 DEF JobsInv, JobsGoOn, ToInvite
    <2> QED
      BY <1>1, <1>2, <2>1, <2>2 DEF JobsInv
  <1> QED
    BY <1>8, <1>9 DEF CreationInv

\* The buttons of the form.
LEMMA FormKeepsCreation ==
  ASSUME CreationInv,
         \/ Creation!Open \/ Creation!Leave \/ Creation!Dismiss
         \/ \E e \in Email : Creation!AddMember(e) \/ Creation!RemoveMember(e)
         \/ \E r \in Request : Creation!HandleCreate(r) \/ Creation!Land(r) \/ Creation!Fail(r) \/ Creation!TimeOut(r)
  PROVE  CreationInv'
  <1>1. FormInv /\ JobsInv /\ listed \in Seq(Email) /\ requests \in [Request -> CreationRequests]
    BY DEF CreationInv, FormInv
  <1>2. UNCHANGED <<accounts, members, invitations, invited, cut>>
    BY DEF Creation!Open, Creation!Leave, Creation!Dismiss, Creation!AddMember, Creation!RemoveMember,
           Creation!HandleCreate, Creation!Land, Creation!Fail, Creation!TimeOut, Creation!stored, Creation!jobs
  <1>3. CASE Creation!Open
    <2>1. UNCHANGED <<listed, creating, error, requests, made, gaveUp, dismissed>> /\ place' = "form"
      BY <1>3 DEF Creation!Open, Creation!visit
    <2> QED
      BY <1>1, <1>2, <2>1, JobsStay DEF CreationInv, FormInv, FormWaits, Pending, StoredFor
  <1>4. CASE Creation!Leave
    BY <1>1, <1>2, <1>4, LeftForm, JobsStay DEF Creation!Leave, CreationInv
  <1>5. CASE Creation!Dismiss
    <2>1. UNCHANGED <<place, listed, creating, requests, made, gaveUp>> /\ dismissed' = TRUE
      BY <1>5 DEF Creation!Dismiss
    <2> QED
      BY <1>1, <1>2, <2>1, JobsStay DEF CreationInv, FormInv, FormWaits, Pending, StoredFor
  <1>6. CASE \E e \in Email : Creation!AddMember(e) \/ Creation!RemoveMember(e)
    <2>1. /\ listed' \in Seq(Email)
          /\ UNCHANGED <<place, creating, error, requests, made, gaveUp, dismissed>>
      BY <1>1, <1>6, RestOfList DEF Creation!AddMember, Creation!RemoveMember, Creation!visit
    <2> QED
      BY <1>1, <1>2, <2>1, JobsStay DEF CreationInv, FormInv, FormWaits, Pending, StoredFor
  <1>7. CASE \E r \in Request : Creation!Land(r)
    <2>1. PICK r \in Request : Creation!Land(r)
      BY <1>7
    <2>2. [requests EXCEPT ![r] = Creation!Idle] \in [Request -> CreationRequests]
      BY <1>1, CreationRecords
    <2> QED
      BY <1>1, <1>2, <2>1, <2>2, LeftForm, JobsStay DEF Creation!Land, CreationInv
  <1>8. CASE \E r \in Request : Creation!HandleCreate(r) \/ Creation!Fail(r) \/ Creation!TimeOut(r)
    BY <1>1, <1>2, <1>8, HandleCreateKeepsForm, FailKeepsForm, TimeOutKeepsForm, JobsStay DEF CreationInv
  <1> QED
    BY <1>3, <1>4, <1>5, <1>6, <1>7, <1>8

LEMMA NextKeepsCreation == CreationInv /\ Creation!Next => CreationInv'
  <1> SUFFICES ASSUME CreationInv, Creation!Next PROVE CreationInv'
    OBVIOUS
  <1>1. FormInv /\ JobsInv
    BY DEF CreationInv
  <1>2. ASSUME NEW r \in Request, Creation!Rollback(r) \/ Creation!Answer(r) \/ Creation!RollbackTooLate(r)
        PROVE  CreationInv'
    <2>1. UNCHANGED <<accounts, members, invitations, invited, cut, place, listed, creating, error, made, dismissed>>
      BY <1>2 DEF Creation!Rollback, Creation!Answer, Creation!RollbackTooLate, Creation!stored, Creation!form,
                  Creation!jobs, Creation!visit
    <2>2. FormInv'
      BY <1>1, <1>2, <2>1, EndsKeepsForm DEF Creation!Rollback, Creation!Answer, Creation!RollbackTooLate, Creation!visit
    <2> QED
      BY <1>1, <2>1, <2>2, JobsStay DEF CreationInv
  <1>3. ASSUME \/ \E p \in Project : \/ Creation!FindMember(p) \/ Creation!InsertMember(p) \/ Creation!Cut(p)
                                     \/ \E e \in Email : Creation!InviteElsewhere(p, e)
               \/ \E e \in Email : Creation!SignUp(e)
        PROVE  CreationInv'
    <2>1. JobsInv'
      BY <1>1, <1>3, FindMemberKeepsJobs, InsertMemberKeepsJobs, CutKeepsJobs, ElsewhereKeepsJobs
    <2>2. UNCHANGED <<place, listed, creating, error, requests, made, gaveUp, dismissed>>
      BY <1>3 DEF Creation!FindMember, Creation!InsertMember, Creation!Cut, Creation!InviteElsewhere,
                  Creation!SignUp, Creation!form, Creation!visit
    <2> QED
      BY <1>1, <2>1, <2>2, FormStays DEF CreationInv
  <1> QED
    BY <1>2, <1>3, FormKeepsCreation, CommitKeepsCreation, CrashKeepsCreation DEF Creation!Next

LEMMA StutterKeepsCreation == CreationInv /\ UNCHANGED Creation!vars => CreationInv'
  BY JobsStay, FormStays
  DEF CreationInv, Creation!vars, Creation!stored, Creation!form, Creation!jobs, Creation!visit

LEMMA CreationSettles == CreationInv => Creation!CreationSettles
  <1> SUFFICES ASSUME CreationInv PROVE Creation!CreationSettles
    OBVIOUS
  <1>1. Creation!OneProjectPerForm
    BY PendingIs, FS_CardinalityType, CreationOps DEF CreationInv, FormInv, Creation!OneProjectPerForm
  <1>2. Creation!SilentFormMadeNothing
    BY DEF CreationInv, FormInv, Creation!SilentFormMadeNothing
  <1>3. Creation!InvitedJoin
    BY DEF CreationInv, JobsInv, JobsGoOn, ToInvite, Creation!InvitedJoin
  <1> QED
    BY <1>1, <1>2, <1>3 DEF Creation!CreationSettles

\* The list of projects shows the newest as they are stored, as many as one
\* answer has, and a dashboard shows its own project's.  A form makes one
\* project, and another for each failure it was told of, or gave up on, that was
\* none; one without an error made nothing; and whoever was listed and had an
\* account is a member when the job of the project has come to its end.
THEOREM ProjectsAlwaysSettle == Spec => []ProjectsSettle
  <1> DEFINE I == (part = "projects" => ProjectsInv) /\ (part = "creation" => CreationInv)
  <1>1. Init => I
    BY InitProjects, InitCreation DEF Init
  <1>2. I /\ [Next]_vars => I'
    <2> SUFFICES ASSUME I, [Next]_vars PROVE I'
      OBVIOUS
    <2>1. ASSUME part' = "projects" PROVE ProjectsInv'
      <3>1. part = "projects" /\ (Projects!Next \/ UNCHANGED Projects!vars)
        BY <2>1 DEF Next, vars, common, projectsOwn, Projects!vars, Projects!view, Projects!history
      <3> QED
        BY <3>1, NextKeepsProjects, StutterKeepsProjects
    <2>2. ASSUME part' = "creation" PROVE CreationInv'
      <3>1. part = "creation" /\ (Creation!Next \/ UNCHANGED Creation!vars)
        BY <2>2 DEF Next, vars, common, creationOwn, Creation!vars, Creation!stored, Creation!form, Creation!jobs,
                    Creation!visit
      <3> QED
        BY <3>1, NextKeepsCreation, StutterKeepsCreation
    <2> QED
      BY <2>1, <2>2
  <1>3. I => ProjectsSettle
    BY ProjectsShowTheirOwn, CreationSettles DEF ProjectsSettle
  <1> QED
    BY <1>1, <1>2, <1>3, PTL DEF Spec
------------------------------------------------------------------------------
(* The profile page and the page that edits the profile                      *)

\* An open page's own requests are of its kind; what was read of a profile is one.
ProfileRequest(q) ==
    /\ q.pc = "idle" => q.kind = "none" /\ ~q.mine
    /\ q.kind \in {"load", "getMe"} /\ q.pc = "served" => q.name \in Name
    /\ q.kind = "edit" => q.name \in Name
    /\ q.mine => page = IF q.kind \in {"load", "save"} THEN "profile" ELSE "edit"

OwnRequest(r, kind) == requests[r].mine /\ requests[r].kind = kind
OwnOnes(kind) == {r \in Request : OwnRequest(r, kind)}

AtMostOne(S) == \A r, s \in S : r = s

\* What the database keeps is what the toggles show.
ShownIsStored ==
    /\ stored.push = shown.push /\ stored.daily = (shown.digest = "Daily")
    /\ sentSince => stored.email = shown.mails

\* While the profile page loads nothing else is under way; what it has been
\* answered is what is stored.
PageLoads ==
    /\ loading <=> OwnOnes("load") # {}
    /\ AtMostOne(OwnOnes("load"))
    /\ loading => ~timer.armed /\ OwnOnes("save") = {} /\ ~sentSince
    /\ ~lost => \A r \in OwnOnes("load") : requests[r].pc = "served" => requests[r].prefs = stored

\* One save of the page is in flight at most, and the auto-save that waits
\* knows of it.
PageSaves ==
    /\ OwnOnes("save") # {} => saving
    /\ AtMostOne(OwnOnes("save"))
    /\ timer.armed => timer.toggles = shown /\ profile # None /\ (timer.saving \/ ~saving)

\* What is not waiting to be saved is on its way or saved.
PageSettles ==
    ~loading /\ ~lost =>
        /\ profile # None
        /\ ~timer.armed =>
              /\ \A r \in OwnOnes("save") : requests[r].pc = "sent" => requests[r].prefs = Profile!Saved(shown)
              /\ (\A r \in OwnOnes("save") : requests[r].pc # "sent") => ShownIsStored

ProfileInv ==
    /\ Profile!TypeOK
    /\ \A r \in Request : ProfileRequest(requests[r])
    /\ ~overtaken => current \in {name, None}
    /\ page = "edit" => profile = current /\ (profile # None => form # None)
    /\ page # "profile" => ~timer.armed
    /\ page = "profile" => PageLoads /\ PageSaves /\ PageSettles

ProfileRequests ==
    [kind : {"none", "load", "getMe", "save", "edit"}, pc : {"idle", "sent", "served"},
     mine : BOOLEAN, name : Name \cup {None}, prefs : Profile!Preferences]

LEMMA IdleProfile ==
  /\ Profile!Idle \in ProfileRequests
  /\ Profile!Idle.kind = "none" /\ Profile!Idle.pc = "idle" /\ Profile!Idle.mine = FALSE
  BY DEF ProfileRequests, Profile!Idle, Profile!Preferences

LEMMA ProfileFetched ==
  ASSUME NEW k \in {"load", "getMe"}
  PROVE  LET q == [Profile!Idle EXCEPT !.kind = k, !.pc = "sent", !.mine = TRUE]
         IN q \in ProfileRequests /\ q.kind = k /\ q.pc = "sent" /\ q.mine = TRUE
  BY IdleProfile DEF ProfileRequests

LEMMA PreferencesSent ==
  ASSUME NEW p \in Profile!Preferences
  PROVE  LET q == [Profile!Idle EXCEPT !.kind = "save", !.pc = "sent", !.mine = TRUE, !.prefs = p]
         IN q \in ProfileRequests /\ q.kind = "save" /\ q.pc = "sent" /\ q.mine = TRUE /\ q.prefs = p
  BY IdleProfile DEF ProfileRequests

LEMMA EditSent ==
  ASSUME NEW n \in Name
  PROVE  LET q == [Profile!Idle EXCEPT !.kind = "edit", !.pc = "sent", !.mine = TRUE, !.name = n]
         IN q \in ProfileRequests /\ q.kind = "edit" /\ q.pc = "sent" /\ q.mine = TRUE /\ q.name = n
  BY IdleProfile DEF ProfileRequests

LEMMA ProfileOrphaned ==
  ASSUME NEW q \in ProfileRequests
  PROVE  LET o == [q EXCEPT !.mine = FALSE]
         IN /\ o \in ProfileRequests /\ o.kind = q.kind /\ o.pc = q.pc /\ o.mine = FALSE
            /\ o.name = q.name /\ o.prefs = q.prefs
  BY DEF ProfileRequests

LEMMA ProfileTaken ==
  ASSUME NEW q \in ProfileRequests
  PROVE  LET s == [q EXCEPT !.pc = "served"]
         IN /\ s \in ProfileRequests /\ s.kind = q.kind /\ s.pc = "served" /\ s.mine = q.mine
            /\ s.name = q.name /\ s.prefs = q.prefs
  BY DEF ProfileRequests

\* What the invariant says of each slot.
LEMMA ProfileTyping == ProfileInv => requests \in [Request -> ProfileRequests]
  BY DEF ProfileInv, Profile!TypeOK, ProfileRequests

\* What the toggles are saved as and loaded from; the waiting auto-save.
LEMMA ProfileValues ==
  /\ Profile!Defaults \in Profile!Toggles
  /\ \A t \in Profile!Toggles :
        /\ Profile!Saved(t) \in Profile!Preferences
        /\ Profile!Saved(t).push = t.push /\ Profile!Saved(t).daily = (t.digest = "Daily")
        /\ Profile!Saved(t).email = t.mails
  /\ shown \in Profile!Toggles => \A p \in Profile!Preferences :
        /\ Profile!FromStored(p) \in Profile!Toggles /\ Profile!FromStored(p).push = p.push
        /\ p.daily = (Profile!FromStored(p).digest = "Daily")
  /\ Profile!Off.armed = FALSE /\ Profile!Off \in [armed : BOOLEAN, toggles : Profile!Toggles, saving : BOOLEAN]
  /\ saving \in BOOLEAN => \A t \in Profile!Toggles :
        /\ Profile!Armed(t).toggles = t /\ Profile!Armed(t).armed = TRUE /\ Profile!Armed(t).saving = saving
        /\ Profile!Armed(t) \in [armed : BOOLEAN, toggles : Profile!Toggles, saving : BOOLEAN]
  BY DEF Profile!Defaults, Profile!Toggles, Profile!Saved, Profile!Preferences, Profile!FromStored, Profile!Off, Profile!Armed

LEMMA InitProfile ==
  ASSUME Profile!Init
  PROVE  ProfileInv
  <1>1. Profile!TypeOK
    BY IdleProfile, ProfileValues DEF Profile!Init, Profile!TypeOK, ProfileRequests
  <1> QED
    BY <1>1, IdleProfile, ProfileValues DEF Profile!Init, ProfileInv, ProfileRequest


\* Requests of pages that were left.
ProfileLeft(b) ==
    /\ b \in [Request -> ProfileRequests]
    /\ \A t \in Request :
        /\ b[t].mine = FALSE
        /\ b[t].pc = "idle" => b[t].kind = "none"
        /\ b[t].kind \in {"load", "getMe"} /\ b[t].pc = "served" => b[t].name \in Name
        /\ b[t].kind = "edit" => b[t].name \in Name

LEMMA ProfileOrphans ==
  ASSUME ProfileInv
  PROVE  /\ ProfileLeft(Profile!Orphaned)
         /\ \A r \in Request : ProfileLeft([Profile!Orphaned EXCEPT ![r] = Profile!Idle])
  <1> DEFINE O == Profile!Orphaned
  <1>1. requests \in [Request -> ProfileRequests] /\ \A t \in Request : ProfileRequest(requests[t])
    BY ProfileTyping DEF ProfileInv
  <1>2. O = [t \in Request |-> [requests[t] EXCEPT !.mine = FALSE]]
    BY DEF Profile!Orphaned
  <1>3. ASSUME NEW t \in Request
        PROVE  /\ O[t] \in ProfileRequests /\ O[t].mine = FALSE /\ O[t].kind = requests[t].kind
               /\ O[t].pc = requests[t].pc /\ O[t].name = requests[t].name
    <2>1. O[t] = [requests[t] EXCEPT !.mine = FALSE]
      BY <1>2
    <2>2. requests[t] \in ProfileRequests
      BY <1>1
    <2> HIDE DEF O
    <2> QED
      BY ONLY <2>1, <2>2, ProfileOrphaned
  <1>4. O = [t \in Request |-> O[t]]
    BY <1>2
  <1> HIDE DEF O
  <1>5. ProfileLeft(O)
    BY <1>1, <1>3, <1>4 DEF ProfileLeft, ProfileRequest
  <1>6. ASSUME NEW r \in Request PROVE ProfileLeft([O EXCEPT ![r] = Profile!Idle])
    BY <1>5, IdleProfile DEF ProfileLeft
  <1> QED
    BY <1>5, <1>6 DEF O

\* Mounting the profile page, from whatever was there.
LEMMA ProfileMounts ==
  ASSUME ProfileInv, NEW r \in Request, NEW b, ProfileLeft(b), Profile!Mount(r, b),
         UNCHANGED <<stored, name>>, current' \in Name \cup {None}, form' \in Name \cup {None},
         overtaken' \in BOOLEAN, ~overtaken' => current' \in {name, None}
  PROVE  ProfileInv'
  <1>1. PICK q \in ProfileRequests :
           /\ q.kind = "load" /\ q.pc = "sent" /\ q.mine = TRUE
           /\ requests' = [b EXCEPT ![r] = q]
    BY ProfileFetched DEF Profile!Mount, Profile!Send
  <1>2. /\ page' = "profile" /\ shown' = Profile!Defaults /\ profile' = None
        /\ loading' = TRUE /\ saving' = FALSE /\ timer' = Profile!Off
        /\ lost' = FALSE /\ sentSince' = FALSE
    BY DEF Profile!Mount
  <1>3. /\ requests' \in [Request -> ProfileRequests] /\ requests'[r] = q
        /\ \A t \in Request \ {r} : requests'[t] = b[t]
    BY <1>1 DEF ProfileLeft
  <1>4. Profile!TypeOK'
    BY <1>2, <1>3, ProfileValues DEF ProfileInv, Profile!TypeOK, ProfileRequests
  <1>5. \A t \in Request : ProfileRequest(requests[t])'
    BY <1>1, <1>2, <1>3 DEF ProfileLeft, ProfileRequest
  <1>6. OwnOnes("load")' = {r} /\ OwnOnes("save")' = {}
    BY <1>1, <1>3 DEF ProfileLeft, OwnOnes, OwnRequest
  <1>7. (PageLoads /\ PageSaves /\ PageSettles)'
    BY <1>1, <1>2, <1>3, <1>6, ProfileValues DEF PageLoads, PageSaves, PageSettles, AtMostOne
  <1> QED
    BY <1>2, <1>4, <1>5, <1>7 DEF ProfileInv

LEMMA OpenProfileKeeps ==
  ASSUME ProfileInv, NEW r \in Request, Profile!OpenProfile(r)
  PROVE  ProfileInv'
  <1>1. PICK b : b = Profile!Orphaned
    OBVIOUS
  <1>2. ProfileLeft(b) /\ Profile!Mount(r, b)
    BY <1>1, ProfileOrphans DEF Profile!OpenProfile
  <1> QED
    BY <1>2, ProfileMounts DEF Profile!OpenProfile, Profile!server, ProfileInv, Profile!TypeOK

LEMMA OpenEditKeeps ==
  ASSUME ProfileInv, NEW r \in Request, Profile!OpenEdit(r)
  PROVE  ProfileInv'
  <1>1. PICK b : b = Profile!Orphaned
    OBVIOUS
  <1>2. ProfileLeft(b)
    BY <1>1, ProfileOrphans
  <1> DEFINE g == [Profile!Idle EXCEPT !.kind = "getMe", !.pc = "sent", !.mine = TRUE]
  <1>7. g \in ProfileRequests /\ g.kind = "getMe" /\ g.pc = "sent"
    BY ProfileFetched
  <1>8. requests' = b \/ requests' = [b EXCEPT ![r] = g]
    BY <1>1 DEF Profile!OpenEdit, Profile!Send
  <1> HIDE DEF g
  <1>3. /\ requests' \in [Request -> ProfileRequests]
        /\ \A t \in Request : requests'[t] = b[t] \/ (requests'[t].kind = "getMe" /\ requests'[t].pc = "sent")
    BY <1>2, <1>7, <1>8 DEF ProfileLeft
  <1>4. /\ page' = "edit" /\ profile' = current /\ form' = current /\ current' = current /\ stored' = stored
        /\ name' = name /\ loading' \in BOOLEAN /\ saving' = FALSE /\ timer' = Profile!Off
        /\ shown' = shown /\ lost' = lost /\ sentSince' = sentSince /\ overtaken' = overtaken
    BY DEF Profile!OpenEdit, Profile!server, Profile!history
  <1>5. Profile!TypeOK'
    BY <1>3, <1>4, ProfileValues DEF ProfileInv, Profile!TypeOK, ProfileRequests
  <1>6. \A t \in Request : ProfileRequest(requests[t])'
    BY <1>2, <1>3, <1>4 DEF ProfileLeft, ProfileRequest
  <1> QED
    BY <1>4, <1>5, <1>6, ProfileValues DEF ProfileInv

LEMMA LeaveProfileKeeps ==
  ASSUME ProfileInv, Profile!Leave
  PROVE  ProfileInv'
  <1>1. PICK b : b = Profile!Orphaned
    OBVIOUS
  <1>2. ProfileLeft(b) /\ requests' = b
    BY <1>1, ProfileOrphans DEF Profile!Leave
  <1>3. Profile!TypeOK'
    BY <1>2, ProfileValues
    DEF ProfileInv, Profile!TypeOK, ProfileRequests, ProfileLeft, Profile!Leave, Profile!server, Profile!history
  <1>4. \A t \in Request : ProfileRequest(requests[t])'
    BY <1>2 DEF ProfileLeft, ProfileRequest
  <1> QED
    BY <1>3, <1>4, ProfileValues DEF ProfileInv, Profile!Leave, Profile!server, Profile!history

\* A slot becomes free.
LEMMA ProfileFrees ==
  ASSUME ProfileInv, NEW r \in Request, Profile!Free(r), page' = page
  PROVE  /\ requests' \in [Request -> ProfileRequests]
         /\ \A t \in Request \ {r} : requests'[t] = requests[t]
         /\ requests'[r].pc = "idle"
         /\ \A t \in Request : ProfileRequest(requests[t])'
         /\ \A k \in {"load", "save"} : OwnOnes(k)' = OwnOnes(k) \ {r}
  <1>1. /\ requests' \in [Request -> ProfileRequests] /\ requests'[r] = Profile!Idle
        /\ \A t \in Request \ {r} : requests'[t] = requests[t]
    BY IdleProfile, ProfileTyping DEF Profile!Free
  <1>2. \A t \in Request : ProfileRequest(requests[t])'
    BY <1>1, IdleProfile DEF ProfileInv, ProfileRequest
  <1>3. \A k \in {"load", "save"} : OwnOnes(k)' = OwnOnes(k) \ {r}
    BY <1>1, IdleProfile DEF OwnOnes, OwnRequest
  <1> QED
    BY <1>1, <1>2, <1>3, IdleProfile

LEMMA ToggleKeeps ==
  ASSUME ProfileInv, NEW t \in Profile!Toggles, Profile!Toggle(t)
  PROVE  ProfileInv'
  <1>1. /\ page = "profile" /\ ~loading /\ shown' = t
        /\ timer' = IF profile # None THEN Profile!Armed(t) ELSE timer
        /\ UNCHANGED <<stored, name, page, profile, loading, saving, current, form, requests, lost,
                       sentSince, overtaken>>
    BY DEF Profile!Toggle, Profile!TogglesShown, Profile!server, Profile!history
  <1>2. Profile!TypeOK'
    BY <1>1, ProfileValues DEF ProfileInv, Profile!TypeOK
  <1>3. \A k \in {"load", "save"} : OwnOnes(k)' = OwnOnes(k)
    BY <1>1 DEF OwnOnes, OwnRequest
  <1>4. (PageLoads /\ PageSaves /\ PageSettles)'
    BY <1>1, <1>3, ProfileValues
    DEF ProfileInv, Profile!TypeOK, PageLoads, PageSaves, PageSettles, AtMostOne
  <1> QED
    BY <1>1, <1>2, <1>4 DEF ProfileInv, ProfileRequest

LEMMA AutoSaveSkipsKeeps ==
  ASSUME ProfileInv, Profile!AutoSaveSkips
  PROVE  ProfileInv'
  <1>1. /\ timer' = Profile!Off /\ lost' = TRUE
        /\ UNCHANGED <<stored, name, page, shown, profile, loading, saving, current, form, requests,
                       sentSince, overtaken>>
    BY DEF Profile!AutoSaveSkips, Profile!server
  <1>2. Profile!TypeOK'
    BY <1>1, ProfileValues DEF ProfileInv, Profile!TypeOK
  <1>3. \A k \in {"load", "save"} : OwnOnes(k)' = OwnOnes(k)
    BY <1>1 DEF OwnOnes, OwnRequest
  <1>4. page = "profile" => (PageLoads /\ PageSaves /\ PageSettles)'
    BY <1>1, <1>3, ProfileValues DEF ProfileInv, PageLoads, PageSaves, PageSettles, AtMostOne
  <1> QED
    BY <1>1, <1>2, <1>4, ProfileValues DEF ProfileInv, ProfileRequest

LEMMA TypeKeeps ==
  ASSUME ProfileInv, NEW n \in Name, Profile!Type(n)
  PROVE  ProfileInv'
  <1>1. /\ page = "edit" /\ form' = n
        /\ UNCHANGED <<stored, name, page, shown, profile, loading, saving, timer, current, requests, lost,
                       sentSince, overtaken>>
    BY DEF Profile!Type, Profile!server, Profile!history
  <1>2. Profile!TypeOK'
    BY <1>1 DEF ProfileInv, Profile!TypeOK
  <1> QED
    BY <1>1, <1>2, ClientsAssumption DEF ProfileInv, ProfileRequest

LEMMA HandleSaveKeeps ==
  ASSUME ProfileInv, NEW r \in Request, Profile!HandleSave(r)
  PROVE  ProfileInv'
  <1>1. /\ page = "edit" /\ ~loading /\ profile # None /\ form # profile /\ saving' = TRUE
        /\ UNCHANGED <<stored, name, page, shown, profile, loading, timer, current, form, lost,
                       sentSince, overtaken>>
    BY DEF Profile!HandleSave, Profile!CanSave, Profile!server, Profile!history
  <1>2. form \in Name
    BY <1>1 DEF ProfileInv, Profile!TypeOK
  <1>3. PICK q \in ProfileRequests :
           /\ q.kind = "edit" /\ q.pc = "sent" /\ q.mine = TRUE /\ q.name = form
           /\ requests' = [requests EXCEPT ![r] = q]
    BY <1>2, EditSent DEF Profile!HandleSave, Profile!Send
  <1>4. /\ requests' \in [Request -> ProfileRequests] /\ requests'[r] = q
        /\ \A t \in Request \ {r} : requests'[t] = requests[t]
    BY <1>3, ProfileTyping
  <1>5. Profile!TypeOK'
    BY <1>1, <1>4 DEF ProfileInv, Profile!TypeOK, ProfileRequests
  <1>6. \A t \in Request : ProfileRequest(requests[t])'
    BY <1>1, <1>2, <1>3, <1>4 DEF ProfileInv, ProfileRequest
  <1> QED
    BY <1>1, <1>5, <1>6 DEF ProfileInv

LEMMA HandleSavePreferencesKeeps ==
  ASSUME ProfileInv, NEW r \in Request, Profile!HandleSavePreferences(r)
  PROVE  ProfileInv'
  <1>1. /\ timer.armed /\ ~timer.saving /\ timer' = Profile!Off /\ saving' = TRUE
        /\ lost' = FALSE /\ sentSince' = TRUE
        /\ UNCHANGED <<stored, name, page, shown, profile, loading, current, form, overtaken>>
    BY DEF Profile!HandleSavePreferences, Profile!server
  <1>2. timer.toggles \in Profile!Toggles
    BY DEF ProfileInv, Profile!TypeOK
  <1>3. Profile!Saved(timer.toggles) \in Profile!Preferences
    BY <1>2, ProfileValues
  <1>4. PICK q \in ProfileRequests :
           /\ q.kind = "save" /\ q.pc = "sent" /\ q.mine = TRUE /\ q.prefs = Profile!Saved(timer.toggles)
           /\ requests' = [requests EXCEPT ![r] = q]
    BY <1>3, PreferencesSent DEF Profile!HandleSavePreferences, Profile!Send
  <1>5. /\ requests' \in [Request -> ProfileRequests] /\ requests'[r] = q /\ requests[r].pc = "idle"
        /\ \A t \in Request \ {r} : requests'[t] = requests[t]
    BY <1>4, ProfileTyping DEF Profile!HandleSavePreferences, Profile!Send
  <1>6. Profile!TypeOK'
    BY <1>1, <1>5, ProfileValues DEF ProfileInv, Profile!TypeOK, ProfileRequests
  <1>7. page = "profile"
    BY <1>1 DEF ProfileInv
  <1>8. \A t \in Request : ProfileRequest(requests[t])'
    BY <1>1, <1>4, <1>5, <1>7 DEF ProfileInv, ProfileRequest
  <1>9. OwnOnes("load")' = OwnOnes("load") /\ OwnOnes("save")' = OwnOnes("save") \cup {r}
    BY <1>4, <1>5 DEF OwnOnes, OwnRequest, ProfileInv, ProfileRequest
  <1>10. (PageLoads /\ PageSaves /\ PageSettles)'
    BY <1>1, <1>4, <1>5, <1>7, <1>9, ProfileValues
    DEF ProfileInv, PageLoads, PageSaves, PageSettles, AtMostOne
  <1> QED
    BY <1>1, <1>6, <1>7, <1>8, <1>10 DEF ProfileInv

\* The store is told of a profile: what the page that edits then holds.
LEMMA CurrentIsSet ==
  ASSUME ProfileInv, NEW n \in Name, Profile!SetCurrent(n), name' = name, page' = page
  PROVE  /\ current' = n /\ (~overtaken' => current' \in {name', None})
         /\ profile' \in Name \cup {None} /\ form' \in Name \cup {None}
         /\ loading' \in BOOLEAN /\ overtaken' \in BOOLEAN
         /\ page' = "edit" => profile' = current' /\ (profile' # None => form' # None)
         /\ page' # "edit" => profile' = profile /\ loading' = loading
  BY ClientsAssumption DEF Profile!SetCurrent, ProfileInv, Profile!TypeOK

LEMMA LandLoadKeeps ==
  ASSUME ProfileInv, NEW r \in Request, NEW got \in BOOLEAN, Profile!LandLoad(r, got)
  PROVE  ProfileInv'
  <1>1. PICK q \in ProfileRequests : q = requests[r]
    BY ProfileTyping
  <1>2. /\ q.kind = "load" /\ q.pc = "served" /\ q.name \in Name /\ q.prefs \in Profile!Preferences
        /\ Profile!Free(r)
        /\ UNCHANGED <<stored, name, page, saving, sentSince>>
    BY <1>1 DEF Profile!LandLoad, Profile!server, ProfileInv, ProfileRequest, ProfileRequests
  <1>3. /\ requests' \in [Request -> ProfileRequests]
        /\ \A t \in Request \ {r} : requests'[t] = requests[t]
        /\ \A t \in Request : ProfileRequest(requests[t])'
        /\ \A k \in {"load", "save"} : OwnOnes(k)' = OwnOnes(k) \ {r}
    BY <1>2, ProfileFrees
  <1>4. CASE q.mine
    <2> DEFINE w == IF got THEN Profile!FromStored(q.prefs) ELSE shown
    <2>1. /\ profile' = q.name /\ loading' = FALSE /\ shown' = w
          /\ timer' = IF w # shown THEN Profile!Armed(w) ELSE timer
          /\ lost' = (lost \/ ~got)
          /\ current' = q.name /\ overtaken' = (q.name # name)
          /\ form' = form
      BY <1>1, <1>4 DEF Profile!LandLoad
    <2>2. shown \in Profile!Toggles /\ saving \in BOOLEAN
      BY DEF ProfileInv, Profile!TypeOK
    <2>3. /\ w \in Profile!Toggles
          /\ got => w.push = q.prefs.push /\ q.prefs.daily = (w.digest = "Daily")
      BY <1>2, <2>2, ProfileValues
    <2> HIDE DEF w
    <2>4. Profile!TypeOK'
      BY <1>2, <1>3, <2>1, <2>2, <2>3, ProfileValues DEF ProfileInv, Profile!TypeOK, ProfileRequests
    <2>5. page = "profile" /\ r \in OwnOnes("load")
      BY <1>1, <1>2, <1>4 DEF ProfileInv, ProfileRequest, OwnOnes, OwnRequest
    <2>6. /\ OwnOnes("load") = {r} /\ loading /\ ~timer.armed /\ OwnOnes("save") = {} /\ ~sentSince
          /\ ~lost => q.prefs = stored
      BY <1>1, <1>2, <2>5 DEF ProfileInv, PageLoads, AtMostOne
    <2>7. PageLoads' /\ PageSaves'
      BY <1>2, <1>3, <2>1, <2>2, <2>3, <2>5, <2>6, ProfileValues, ClientsAssumption
      DEF ProfileInv, PageLoads, PageSaves, AtMostOne
    <2>8. PageSettles'
      BY <1>2, <1>3, <2>1, <2>2, <2>3, <2>6, ProfileValues, ClientsAssumption DEF PageSettles, ShownIsStored
    <2> QED
      BY <1>2, <1>3, <2>1, <2>4, <2>5, <2>7, <2>8 DEF ProfileInv
  <1>5. CASE ~q.mine
    <2>1. Profile!SetCurrent(q.name) /\ UNCHANGED <<shown, timer, lost>>
      BY <1>1, <1>5 DEF Profile!LandLoad
    <2>2. /\ current' = q.name /\ (~overtaken' => current' \in {name', None})
          /\ profile' \in Name \cup {None} /\ form' \in Name \cup {None}
          /\ loading' \in BOOLEAN /\ overtaken' \in BOOLEAN
          /\ page' = "edit" => profile' = current' /\ (profile' # None => form' # None)
          /\ page' # "edit" => profile' = profile /\ loading' = loading
      BY <1>2, <2>1, CurrentIsSet
    <2>3. Profile!TypeOK'
      BY <1>2, <1>3, <2>1, <2>2 DEF ProfileInv, Profile!TypeOK, ProfileRequests
    <2>4. \A k \in {"load", "save"} : OwnOnes(k)' = OwnOnes(k) /\ r \notin OwnOnes(k)
      BY <1>1, <1>3, <1>5 DEF OwnOnes, OwnRequest
    <2>5. page = "profile" => (PageLoads /\ PageSaves /\ PageSettles)'
      BY <1>2, <1>3, <2>1, <2>2, <2>4 DEF ProfileInv, PageLoads, PageSaves, PageSettles, AtMostOne, ShownIsStored, OwnOnes
    <2> QED
      BY <1>2, <1>3, <2>1, <2>2, <2>3, <2>5 DEF ProfileInv
  <1> QED
    BY <1>4, <1>5

LEMMA LandGetMeKeeps ==
  ASSUME ProfileInv, NEW r \in Request, Profile!LandGetMe(r)
  PROVE  ProfileInv'
  <1>1. PICK q \in ProfileRequests : q = requests[r]
    BY ProfileTyping
  <1>2. /\ q.kind = "getMe" /\ q.pc = "served" /\ q.name \in Name
        /\ Profile!Free(r) /\ Profile!SetCurrent(q.name)
        /\ UNCHANGED <<stored, name, page, shown, saving, timer, lost, sentSince>>
    BY <1>1 DEF Profile!LandGetMe, Profile!server, ProfileInv, ProfileRequest
  <1>3. /\ requests' \in [Request -> ProfileRequests]
        /\ \A t \in Request \ {r} : requests'[t] = requests[t]
        /\ \A t \in Request : ProfileRequest(requests[t])'
        /\ \A k \in {"load", "save"} : OwnOnes(k)' = OwnOnes(k) \ {r}
    BY <1>2, ProfileFrees
  <1>4. /\ current' = q.name /\ (~overtaken' => current' \in {name', None})
        /\ profile' \in Name \cup {None} /\ form' \in Name \cup {None}
        /\ loading' \in BOOLEAN /\ overtaken' \in BOOLEAN
        /\ page' = "edit" => profile' = current' /\ (profile' # None => form' # None)
        /\ page' # "edit" => profile' = profile /\ loading' = loading
    BY <1>2, CurrentIsSet
  <1>5. Profile!TypeOK'
    BY <1>2, <1>3, <1>4 DEF ProfileInv, Profile!TypeOK, ProfileRequests
  <1>6. \A k \in {"load", "save"} : OwnOnes(k)' = OwnOnes(k) /\ r \notin OwnOnes(k)
    BY <1>1, <1>2, <1>3 DEF OwnOnes, OwnRequest
  <1>7. page = "profile" => (PageLoads /\ PageSaves /\ PageSettles)'
    BY <1>2, <1>3, <1>4, <1>6 DEF ProfileInv, PageLoads, PageSaves, PageSettles, AtMostOne, ShownIsStored, OwnOnes
  <1> QED
    BY <1>2, <1>3, <1>4, <1>5, <1>7 DEF ProfileInv

LEMMA LandSaveKeeps ==
  ASSUME ProfileInv, NEW r \in Request, Profile!LandSave(r)
  PROVE  ProfileInv'
  <1>1. PICK q \in ProfileRequests : q = requests[r]
    BY ProfileTyping
  <1>2. /\ q.kind = "save" /\ q.pc = "served" /\ Profile!Free(r) /\ saving' = (saving /\ ~q.mine)
        /\ UNCHANGED <<stored, name, page, shown, profile, loading, timer, current, form, lost,
                       sentSince, overtaken>>
    BY <1>1 DEF Profile!LandSave, Profile!server, Profile!history
  <1>3. /\ requests' \in [Request -> ProfileRequests]
        /\ \A t \in Request \ {r} : requests'[t] = requests[t]
        /\ \A t \in Request : ProfileRequest(requests[t])'
        /\ \A k \in {"load", "save"} : OwnOnes(k)' = OwnOnes(k) \ {r}
    BY <1>2, ProfileFrees
  <1>4. Profile!TypeOK'
    BY <1>2, <1>3 DEF ProfileInv, Profile!TypeOK, ProfileRequests
  <1>5. OwnOnes("load")' = OwnOnes("load") /\ (r \in OwnOnes("save") <=> q.mine)
    BY <1>1, <1>2, <1>3 DEF OwnOnes, OwnRequest
  <1>6. page = "profile" => PageLoads' /\ PageSaves'
    BY <1>2, <1>3, <1>5 DEF ProfileInv, PageLoads, PageSaves, AtMostOne, OwnOnes
  <1>7. page = "profile" => PageSettles'
    BY <1>1, <1>2, <1>3, <1>5 DEF ProfileInv, PageSettles, ShownIsStored, OwnOnes
  <1> QED
    BY <1>2, <1>3, <1>4, <1>6, <1>7 DEF ProfileInv

LEMMA FailProfileKeeps ==
  ASSUME ProfileInv, NEW r \in Request, Profile!Fail(r)
  PROVE  ProfileInv'
  <1>1. PICK q \in ProfileRequests : q = requests[r]
    BY ProfileTyping
  <1>2. /\ q.pc # "idle" /\ Profile!Free(r)
        /\ loading' = (loading /\ ~(q.mine /\ q.kind \in {"load", "getMe"}))
        /\ saving' = (saving /\ ~(q.mine /\ q.kind \in {"save", "edit"}))
        /\ lost' = (lost \/ (q.mine /\ q.kind \in {"load", "save"} /\ q.pc = "sent")
                         \/ (q.mine /\ q.kind = "load"))
        /\ UNCHANGED <<stored, name, page, shown, profile, timer, current, form, sentSince, overtaken>>
    BY <1>1 DEF Profile!Fail, Profile!server
  <1>3. /\ requests' \in [Request -> ProfileRequests]
        /\ \A t \in Request \ {r} : requests'[t] = requests[t]
        /\ \A t \in Request : ProfileRequest(requests[t])'
        /\ \A k \in {"load", "save"} : OwnOnes(k)' = OwnOnes(k) \ {r}
    BY <1>2, ProfileFrees
  <1>4. Profile!TypeOK'
    BY <1>2, <1>3 DEF ProfileInv, Profile!TypeOK, ProfileRequests
  <1>5. /\ r \in OwnOnes("load") <=> q.mine /\ q.kind = "load"
        /\ r \in OwnOnes("save") <=> q.mine /\ q.kind = "save"
    BY <1>1 DEF OwnOnes, OwnRequest
  <1>6. page = "profile" /\ q.mine => q.kind \in {"load", "save"}
    BY <1>1 DEF ProfileInv, ProfileRequest
  <1>7. page = "profile" => PageLoads' /\ PageSaves'
    BY <1>2, <1>3, <1>5, <1>6 DEF ProfileInv, PageLoads, PageSaves, AtMostOne, OwnOnes
  <1>8. page = "profile" => PageSettles'
    <2> SUFFICES ASSUME page = "profile", ~loading', ~lost' PROVE PageSettles'
      BY DEF PageSettles
    <2>1. ~lost /\ ~(q.mine /\ q.kind = "load") /\ (q.mine => q.kind = "save" /\ q.pc = "served")
      BY <1>2, <1>6 DEF ProfileRequests
    <2>2. ~loading
      BY <1>2, <2>1
    <2>3. OwnOnes("save")' = OwnOnes("save") \ {r} /\ (r \in OwnOnes("save") => requests[r].pc # "sent")
      BY <1>1, <1>3, <1>5, <2>1
    <2> QED
      BY <1>2, <1>3, <2>1, <2>2, <2>3 DEF ProfileInv, PageSettles, ShownIsStored, OwnOnes
  <1> QED
    BY <1>2, <1>3, <1>4, <1>7, <1>8 DEF ProfileInv

LEMMA ServeProfileKeeps ==
  ASSUME ProfileInv, NEW r \in Request, Profile!Serve(r)
  PROVE  ProfileInv'
  <1>1. PICK q \in ProfileRequests : q = requests[r]
    BY ProfileTyping
  <1>2. /\ q.pc = "sent"
        /\ stored' = (IF q.kind = "save" THEN q.prefs ELSE stored)
        /\ name' = (IF q.kind = "edit" THEN q.name ELSE name)
        /\ lost' = (lost \/ (q.kind = "save" /\ ~q.mine /\ Profile!Loads = {}))
        /\ overtaken' = (overtaken \/ (q.kind = "edit" /\ name # q.name))
        /\ UNCHANGED <<page, shown, profile, loading, saving, timer, current, form, sentSince>>
    BY <1>1 DEF Profile!Serve, Profile!view
  <1>3. name \in Name /\ stored \in Profile!Preferences /\ q.prefs \in Profile!Preferences
    BY DEF ProfileInv, Profile!TypeOK, ProfileRequests
  <1>4. q.kind = "edit" => q.name \in Name
    BY <1>1 DEF ProfileInv, ProfileRequest
  <1>5. PICK s \in ProfileRequests :
           /\ s.kind = q.kind /\ s.pc = "served" /\ s.mine = q.mine
           /\ q.kind \in {"load", "getMe"} => s.name = name /\ s.prefs = stored
           /\ q.kind \notin {"load", "getMe"} => s.name = q.name /\ s.prefs = q.prefs
           /\ requests' = [requests EXCEPT ![r] = s]
    <2>1. CASE q.kind \in {"load", "getMe"}
      <3>1. PICK s \in ProfileRequests :
               /\ s = [q EXCEPT !.pc = "served", !.name = name, !.prefs = stored]
               /\ s.kind = q.kind /\ s.pc = "served" /\ s.mine = q.mine /\ s.name = name /\ s.prefs = stored
        <4> DEFINE a == [q EXCEPT !.pc = "served", !.name = name, !.prefs = stored]
        <4>1. /\ a \in ProfileRequests /\ a.kind = q.kind /\ a.pc = "served" /\ a.mine = q.mine
              /\ a.name = name /\ a.prefs = stored
          BY <1>3 DEF ProfileRequests
        <4> HIDE DEF a
        <4>2. PICK s \in ProfileRequests : s = a
          BY <4>1
        <4> QED
          BY <4>1, <4>2 DEF a
      <3>2. requests' = [requests EXCEPT ![r] = s]
        BY <1>1, <2>1, <3>1 DEF Profile!Serve
      <3> QED
        BY <2>1, <3>1, <3>2
    <2>2. CASE q.kind \notin {"load", "getMe"}
      <3>1. PICK s \in ProfileRequests :
               /\ s = [q EXCEPT !.pc = "served"]
               /\ s.kind = q.kind /\ s.pc = "served" /\ s.mine = q.mine /\ s.name = q.name /\ s.prefs = q.prefs
        BY ProfileTaken
      <3>2. requests' = [requests EXCEPT ![r] = s]
        BY <1>1, <2>2, <3>1 DEF Profile!Serve
      <3> QED
        BY <2>2, <3>1, <3>2
    <2> QED
      BY <2>1, <2>2
  <1>6. /\ requests' \in [Request -> ProfileRequests] /\ requests'[r] = s
        /\ \A t \in Request \ {r} : requests'[t] = requests[t]
    BY <1>5, ProfileTyping
  <1>7. Profile!TypeOK'
    BY <1>2, <1>3, <1>4, <1>6 DEF ProfileInv, Profile!TypeOK, ProfileRequests
  <1>8. \A t \in Request : ProfileRequest(requests[t])'
    BY <1>1, <1>2, <1>3, <1>5, <1>6 DEF ProfileInv, ProfileRequest
  <1>9. \A k \in {"load", "save"} : OwnOnes(k)' = OwnOnes(k)
    BY <1>1, <1>5, <1>6 DEF OwnOnes, OwnRequest
  <1>10. /\ r \in OwnOnes("load") <=> q.mine /\ q.kind = "load"
         /\ r \in OwnOnes("save") <=> q.mine /\ q.kind = "save"
    BY <1>1 DEF OwnOnes, OwnRequest
  <1>11. page = "profile" => PageLoads' /\ PageSaves'
    <2> SUFFICES ASSUME page = "profile" PROVE PageLoads' /\ PageSaves'
      OBVIOUS
    <2>1. PageSaves'
      BY <1>2, <1>9 DEF ProfileInv, PageSaves, AtMostOne
    <2>2. ASSUME ~lost', NEW x \in OwnOnes("load"), requests'[x].pc = "served"
          PROVE  requests'[x].prefs = stored'
      <3>1. loading /\ OwnOnes("save") = {} /\ \A y \in OwnOnes("load") : y = x
        BY <2>2 DEF ProfileInv, PageLoads, AtMostOne
      <3>2. CASE x = r
        <4>1. q.kind = "load"
          BY <1>10, <2>2, <3>2
        <4> QED
          BY <1>2, <1>5, <1>6, <3>2, <4>1
      <3>3. CASE x # r
        <4>1. requests[x].pc = "served" /\ requests[x].prefs = stored /\ requests'[x] = requests[x]
          BY <1>2, <1>6, <2>2, <3>3 DEF ProfileInv, PageLoads, OwnOnes
        <4>2. Profile!Loads = {}
          BY <3>1, <4>1 DEF Profile!Loads, OwnOnes, OwnRequest
        <4>3. q.kind # "save"
          BY <1>2, <1>10, <2>2, <3>1, <4>2
        <4> QED
          BY <1>2, <4>1, <4>3
      <3> QED
        BY <3>2, <3>3
    <2> QED
      BY <1>2, <1>9, <2>1, <2>2 DEF ProfileInv, PageLoads, AtMostOne
  <1>12. page = "profile" => PageSettles'
    <2> SUFFICES ASSUME page = "profile", ~loading, ~lost' PROVE PageSettles'
      BY <1>2 DEF PageSettles
    <2>1. ~lost /\ OwnOnes("load") = {} /\ Profile!Loads = {}
      BY <1>2 DEF ProfileInv, PageLoads, Profile!Loads, OwnOnes, OwnRequest
    <2>2. q.kind = "save" => q.mine
      BY <1>2, <2>1
    <2>3. profile # None
      BY <2>1 DEF ProfileInv, PageSettles
    <2>4. CASE timer.armed
      BY <1>2, <2>3, <2>4 DEF PageSettles
    <2>5. CASE ~timer.armed
      <3>1. /\ \A t \in OwnOnes("save") : requests[t].pc = "sent" => requests[t].prefs = Profile!Saved(shown)
            /\ (\A t \in OwnOnes("save") : requests[t].pc # "sent") => ShownIsStored
        BY <2>1, <2>5 DEF ProfileInv, PageSettles
      <3>2. CASE q.kind = "save"
        <4>1. r \in OwnOnes("save") /\ q.prefs = Profile!Saved(shown) /\ \A t \in OwnOnes("save") : t = r
          BY <1>1, <1>2, <1>10, <2>2, <3>1, <3>2 DEF ProfileInv, PageSaves, AtMostOne
        <4>2. stored' = Profile!Saved(shown) /\ shown \in Profile!Toggles
          BY <1>2, <3>2, <4>1 DEF ProfileInv, Profile!TypeOK
        <4>3. ShownIsStored'
          BY <1>2, <4>2, ProfileValues DEF ShownIsStored
        <4> QED
          BY <1>2, <1>5, <1>6, <1>9, <2>3, <4>1, <4>3 DEF PageSettles
      <3>3. CASE q.kind # "save"
        <4>1. r \notin OwnOnes("save") /\ stored' = stored
          BY <1>2, <1>10, <3>3
        <4> QED
          BY <1>2, <1>6, <1>9, <2>3, <3>1, <4>1 DEF PageSettles, ShownIsStored, OwnOnes
      <3> QED
        BY <3>2, <3>3
    <2> QED
      BY <2>4, <2>5
  <1>13. (~overtaken' => current' \in {name', None}) /\ (page' # "profile" => ~timer'.armed)
    BY <1>2 DEF ProfileInv
  <1>14. page' = "edit" => profile' = current' /\ (profile' # None => form' # None)
    BY <1>2 DEF ProfileInv
  <1> QED
    BY <1>2, <1>7, <1>8, <1>11, <1>12, <1>13, <1>14 DEF ProfileInv

LEMMA LandEditKeeps ==
  ASSUME ProfileInv, NEW r \in Request, NEW next \in Request, Profile!LandEdit(r, next)
  PROVE  ProfileInv'
  <1>1. PICK q \in ProfileRequests : q = requests[r]
    BY ProfileTyping
  <1>2. /\ q.kind = "edit" /\ q.pc = "served" /\ q.name \in Name
        /\ current' = (IF current = None THEN current ELSE q.name)
        /\ overtaken' = (current' # name)
        /\ UNCHANGED <<stored, name, form>>
    BY <1>1 DEF Profile!LandEdit, Profile!server, ProfileInv, ProfileRequest
  <1>3. current \in Name \cup {None} /\ form \in Name \cup {None}
    BY DEF ProfileInv, Profile!TypeOK
  <1>4. CASE page # "profile"
    <2>1. PICK b : b = [Profile!Orphaned EXCEPT ![r] = Profile!Idle]
      OBVIOUS
    <2>2. ProfileLeft(b) /\ Profile!Mount(next, b)
      BY <1>4, <2>1, ProfileOrphans DEF Profile!LandEdit
    <2> QED
      BY <1>2, <1>3, <2>2, ProfileMounts
  <1>5. CASE page = "profile"
    <2>1. /\ Profile!Free(r)
          /\ UNCHANGED <<page, shown, profile, loading, saving, timer, lost, sentSince>>
      BY <1>5 DEF Profile!LandEdit
    <2>2. /\ requests' \in [Request -> ProfileRequests]
          /\ \A t \in Request \ {r} : requests'[t] = requests[t]
          /\ \A t \in Request : ProfileRequest(requests[t])'
          /\ \A k \in {"load", "save"} : OwnOnes(k)' = OwnOnes(k) \ {r}
      BY <2>1, ProfileFrees
    <2>3. Profile!TypeOK'
      BY <1>2, <1>3, <2>1, <2>2 DEF ProfileInv, Profile!TypeOK, ProfileRequests
    <2>4. \A k \in {"load", "save"} : OwnOnes(k)' = OwnOnes(k) /\ r \notin OwnOnes(k)
      BY <1>1, <1>2, <2>2 DEF OwnOnes, OwnRequest
    <2>5. (PageLoads /\ PageSaves /\ PageSettles)'
      BY <1>2, <1>5, <2>1, <2>2, <2>4 DEF ProfileInv, PageLoads, PageSaves, PageSettles, AtMostOne, ShownIsStored, OwnOnes
    <2> QED
      BY <1>2, <1>5, <2>1, <2>2, <2>3, <2>5 DEF ProfileInv
  <1> QED
    BY <1>4, <1>5

LEMMA NextKeepsProfile ==
  ASSUME ProfileInv, Profile!Next
  PROVE  ProfileInv'
  BY LeaveProfileKeeps, AutoSaveSkipsKeeps, ToggleKeeps, TypeKeeps, OpenProfileKeeps, OpenEditKeeps, ServeProfileKeeps,
     FailProfileKeeps, LandLoadKeeps, LandGetMeKeeps, HandleSavePreferencesKeeps, LandSaveKeeps, HandleSaveKeeps, LandEditKeeps
  DEF Profile!Next

LEMMA StutterKeepsProfile ==
  ASSUME ProfileInv, UNCHANGED Profile!vars
  PROVE  ProfileInv'
  <1>1. UNCHANGED <<stored, name, page, shown, profile, loading, saving, timer, current, form, requests, lost,
                    sentSince, overtaken>>
    BY DEF Profile!vars, Profile!server, Profile!view, Profile!history
  <1>2. \A k \in {"load", "save"} : OwnOnes(k)' = OwnOnes(k)
    BY <1>1 DEF OwnOnes, OwnRequest
  <1>3. Profile!TypeOK'
    BY <1>1 DEF ProfileInv, Profile!TypeOK
  <1>4. page = "profile" => (PageLoads /\ PageSaves /\ PageSettles)'
    BY <1>1, <1>2 DEF ProfileInv, PageLoads, PageSaves, PageSettles, AtMostOne, ShownIsStored, OwnOnes
  <1> QED
    BY <1>1, <1>3, <1>4 DEF ProfileInv, ProfileRequest

LEMMA ProfileInvSettles == ProfileInv => Profile!ProfileSettles
  <1> SUFFICES ASSUME ProfileInv PROVE Profile!ProfileSettles
    OBVIOUS
  <1>1. Profile!PreferencesSettle
    BY DEF Profile!PreferencesSettle, Profile!AtRest, ProfileInv, PageSettles, ShownIsStored, OwnOnes, OwnRequest
  <1>2. Profile!EditsTheStored
    BY DEF Profile!EditsTheStored, ProfileInv
  <1> QED
    BY <1>1, <1>2 DEF Profile!ProfileSettles

\* Unless a toggle changed while a save was in flight, a request failed or a
\* save of a page that was left came late, the toggles at rest are the stored
\* preferences; the form starts from the stored profile.
THEOREM ProfileAlwaysSettles == Spec => []ProfileSettles
  <1> DEFINE I == part = "profile" => ProfileInv
  <1>1. Init => I
    BY InitProfile DEF Init
  <1>2. I /\ [Next]_vars => I'
    <2> SUFFICES ASSUME I, [Next]_vars, part' = "profile" PROVE ProfileInv'
      OBVIOUS
    <2>1. part = "profile" /\ (Profile!Next \/ UNCHANGED Profile!vars)
      BY DEF Next, vars, common, profileOwn, Profile!vars, Profile!server, Profile!view, Profile!history
    <2> QED
      BY <2>1, NextKeepsProfile, StutterKeepsProfile
  <1>3. I => ProfileSettles
    BY ProfileInvSettles DEF ProfileSettles
  <1> QED
    BY <1>1, <1>2, <1>3, PTL DEF Spec

------------------------------------------------------------------------------
(* The tasks of a user                                                       *)

MyRequests ==
    [pc : {"idle", "sent"}, left : SUBSET {"all", "overdue"}, all : MyTasks!Rows, overdue : MyTasks!Rows]

MyTasksTyped ==
    /\ tasks \in [DatedTask -> MyTasks!TaskRow] /\ zone \in {"west", "UTC", "east"}
    /\ now \in Int /\ rendered \in Int
    /\ allTasks \in MyTasks!Rows /\ overdueTasks \in MyTasks!Rows
    /\ request \in MyRequests
    /\ loading \in BOOLEAN /\ error \in BOOLEAN

\* Whose rows these are: the user's tasks, or as many as an answer has.
OfTheUser(S) ==
    /\ S \subseteq MyTasks!Mine
    /\ Cardinality(MyTasks!Mine) <= ListLimit => S = MyTasks!Mine

\* What was read is stored, unless something changed.
MyTasksInv ==
    /\ MyTasksTyped
    /\ loading => ~error /\ request.pc = "sent"
    /\ ~loading => request.pc = "idle" /\ request.left = {}
    /\ loading /\ ~changed =>
          /\ "all" \notin request.left => OfTheUser(DOMAIN request.all)
          /\ "overdue" \notin request.left /\ ~missed => DOMAIN request.overdue = MyTasks!Overdue
    /\ ~loading /\ ~error /\ ~changed =>
          /\ OfTheUser(DOMAIN allTasks)
          /\ ~missed => DOMAIN overdueTasks = MyTasks!Overdue

\* The numbers and the rows of the page.
LEMMA MyTasksOps ==
  /\ \A S : MyTasks!Cardinality(S) = Cardinality(S)
  /\ \A m, n \in Nat : MyTasks!Min({m, n}) = IF m <= n THEN m ELSE n
  BY DEF MyTasks!Cardinality, Cardinality, MyTasks!Min

LEMMA NoRows == <<>> \in MyTasks!Rows
  <1>1. ASSUME NEW X PROVE <<>> \in [{} -> X]
    <2>1. <<>> \in Seq(X) /\ Len(<<>>) = 0
      OBVIOUS
    <2>2. <<>> \in [1 .. 0 -> X]
      BY <2>1, LenProperties
    <2>3. 1 .. 0 = {}
      OBVIOUS
    <2> QED
      BY <2>2, <2>3
  <1>2. <<>> \in [{} -> MyDue \cup {None}] /\ {} \in SUBSET DatedTask
    BY <1>1
  <1> QED
    BY <1>2 DEF MyTasks!Rows

LEMMA RowsOfTasks ==
  ASSUME MyTasksTyped, NEW S \in SUBSET DatedTask
  PROVE  MyTasks!RowsOf(S) \in MyTasks!Rows /\ DOMAIN MyTasks!RowsOf(S) = S
  <1>1. MyTasks!RowsOf(S) \in [S -> MyDue \cup {None}] /\ DOMAIN MyTasks!RowsOf(S) = S
    BY DEF MyTasks!RowsOf, MyTasks!TaskRow, MyTasksTyped
  <1> QED
    BY <1>1 DEF MyTasks!Rows

LEMMA MyRequestRecords ==
  /\ MyTasks!Idle \in MyRequests /\ MyTasks!Idle.pc = "idle" /\ MyTasks!Idle.left = {}
  /\ MyTasks!Sent \in MyRequests /\ MyTasks!Sent.pc = "sent" /\ MyTasks!Sent.left = {"all", "overdue"}
  <1>1. MyTasks!Idle \in MyRequests /\ MyTasks!Idle.pc = "idle" /\ MyTasks!Idle.left = {}
    BY NoRows DEF MyTasks!Idle, MyRequests
  <1> QED
    BY <1>1 DEF MyTasks!Sent, MyRequests

LEMMA InitMyTasks ==
  ASSUME MyTasks!Init
  PROVE  MyTasksInv
  BY NoRows, MyRequestRecords, ClientsAssumption
  DEF MyTasks!Init, MyTasksInv, MyTasksTyped

\* As many of the user's tasks as an answer has are all, or enough.
LEMMA FirstOfTheUser ==
  ASSUME MyTasksInv, NEW S \in SUBSET MyTasks!Mine,
         MyTasks!Cardinality(S) = MyTasks!Min({ListLimit, MyTasks!Cardinality(MyTasks!Mine)})
  PROVE  OfTheUser(S)
  <1> DEFINE M == MyTasks!Mine
  <1>1. M \subseteq DatedTask /\ IsFiniteSet(DatedTask) /\ ListLimit \in Nat
    BY ClientsAssumption DEF MyTasks!Mine
  <1>2. IsFiniteSet(M)
    BY <1>1, FS_Subset
  <1>3. Cardinality(M) \in Nat
    BY <1>2, FS_CardinalityType
  <1>4. Cardinality(S) = IF ListLimit <= Cardinality(M) THEN ListLimit ELSE Cardinality(M)
    BY <1>1, <1>3, MyTasksOps
  <1> HIDE DEF M
  <1>5. ASSUME Cardinality(M) <= ListLimit PROVE S = M
    <2>1. Cardinality(S) = Cardinality(M)
      BY <1>1, <1>3, <1>4, <1>5
    <2>2. S \in SUBSET M
      BY DEF M
    <2> QED
      BY <1>2, <2>1, <2>2, FS_Subset
  <1> QED
    BY <1>5 DEF OfTheUser, M

LEMMA MyTasksServed ==
  ASSUME MyTasksInv, NEW S \in SUBSET MyTasks!Mine, MyTasks!ServeAll(S)
  PROVE  MyTasksInv'
  <1>1. OfTheUser(S) /\ S \in SUBSET DatedTask
    BY FirstOfTheUser DEF MyTasks!ServeAll, MyTasks!Mine
  <1>2. PICK f \in MyTasks!Rows : f = MyTasks!RowsOf(S) /\ DOMAIN f = S
    BY <1>1, RowsOfTasks DEF MyTasksInv
  <1>3. PICK n \in MyRequests :
           /\ request' = n /\ n.pc = request.pc /\ n.left = request.left \ {"all"} /\ n.all = f
           /\ n.overdue = request.overdue
    <2>1. PICK q \in MyRequests : q = request
      BY DEF MyTasksInv, MyTasksTyped
    <2>2. PICK n : n = request'
      OBVIOUS
    <2>3. n = [q EXCEPT !.left = @ \ {"all"}, !.all = f]
      BY <1>2, <2>1, <2>2 DEF MyTasks!ServeAll
    <2>4. n \in MyRequests /\ n.pc = q.pc /\ n.left = q.left \ {"all"} /\ n.all = f /\ n.overdue = q.overdue
      BY <2>1, <2>3, <1>2 DEF MyRequests
    <2> QED
      BY <2>1, <2>2, <2>4
  <1>4. UNCHANGED <<tasks, zone, now, rendered, activeFilter, allTasks, overdueTasks, loading, error, changed, missed>>
    BY DEF MyTasks!ServeAll, MyTasks!page
  <1>5. MyTasks!Mine' = MyTasks!Mine /\ MyTasks!Overdue' = MyTasks!Overdue
    BY <1>4 DEF MyTasks!Mine, MyTasks!Overdue
  <1>6. \A T : OfTheUser(T)' = OfTheUser(T)
    BY <1>5 DEF OfTheUser
  <1>7. loading
    BY DEF MyTasksInv, MyTasks!ServeAll
  <1> QED
    BY <1>1, <1>2, <1>3, <1>4, <1>5, <1>6, <1>7 DEF MyTasksInv, MyTasksTyped

LEMMA MyOverdueServed ==
  ASSUME MyTasksInv, MyTasks!ServeOverdue
  PROVE  MyTasksInv'
  <1>1. MyTasks!Overdue \in SUBSET DatedTask
    BY DEF MyTasks!Overdue
  <1>2. PICK f \in MyTasks!Rows : f = MyTasks!RowsOf(MyTasks!Overdue) /\ DOMAIN f = MyTasks!Overdue
    BY <1>1, RowsOfTasks DEF MyTasksInv
  <1>3. PICK n \in MyRequests :
           /\ request' = n /\ n.pc = request.pc /\ n.left = request.left \ {"overdue"} /\ n.all = request.all
           /\ n.overdue = f
    <2>1. PICK q \in MyRequests : q = request
      BY DEF MyTasksInv, MyTasksTyped
    <2>2. PICK n : n = request'
      OBVIOUS
    <2>3. n = [q EXCEPT !.left = @ \ {"overdue"}, !.overdue = f]
      BY <1>2, <2>1, <2>2 DEF MyTasks!ServeOverdue
    <2>4. n \in MyRequests /\ n.pc = q.pc /\ n.left = q.left \ {"overdue"} /\ n.all = q.all /\ n.overdue = f
      BY <2>1, <2>3, <1>2 DEF MyRequests
    <2> QED
      BY <2>1, <2>2, <2>4
  <1>4. UNCHANGED <<tasks, zone, now, rendered, activeFilter, allTasks, overdueTasks, loading, error, changed, missed>>
    BY DEF MyTasks!ServeOverdue, MyTasks!page
  <1>5. MyTasks!Mine' = MyTasks!Mine /\ MyTasks!Overdue' = MyTasks!Overdue
    BY <1>4 DEF MyTasks!Mine, MyTasks!Overdue
  <1>6. \A T : OfTheUser(T)' = OfTheUser(T)
    BY <1>5 DEF OfTheUser
  <1>7. loading
    BY DEF MyTasksInv, MyTasks!ServeOverdue
  <1> QED
    BY <1>1, <1>2, <1>3, <1>4, <1>5, <1>6, <1>7 DEF MyTasksInv, MyTasksTyped

LEMMA MyOverdueMissed ==
  ASSUME MyTasksInv, MyTasks!MissOverdue
  PROVE  MyTasksInv'
  <1>1. PICK n \in MyRequests :
           /\ request' = n /\ n.pc = request.pc /\ n.left = request.left \ {"overdue"} /\ n.all = request.all
           /\ n.overdue = request.overdue
    <2>1. PICK q \in MyRequests : q = request
      BY DEF MyTasksInv, MyTasksTyped
    <2>2. PICK n : n = request'
      OBVIOUS
    <2>3. n = [q EXCEPT !.left = @ \ {"overdue"}]
      BY <2>1, <2>2 DEF MyTasks!MissOverdue
    <2>4. n \in MyRequests /\ n.pc = q.pc /\ n.left = q.left \ {"overdue"} /\ n.all = q.all /\ n.overdue = q.overdue
      BY <2>1, <2>3 DEF MyRequests
    <2> QED
      BY <2>1, <2>2, <2>4
  <1>2. /\ UNCHANGED <<tasks, zone, now, rendered, activeFilter, allTasks, overdueTasks, loading, error, changed>>
        /\ missed' = TRUE
    BY DEF MyTasks!MissOverdue, MyTasks!page
  <1>3. MyTasks!Mine' = MyTasks!Mine
    BY <1>2 DEF MyTasks!Mine
  <1>4. \A T : OfTheUser(T)' = OfTheUser(T)
    BY <1>3 DEF OfTheUser
  <1>5. loading
    BY DEF MyTasksInv, MyTasks!MissOverdue
  <1> QED
    BY <1>1, <1>2, <1>3, <1>4, <1>5 DEF MyTasksInv, MyTasksTyped

\* The steps that leave the database alone and read nothing.
LEMMA MyTasksLand ==
  ASSUME MyTasksInv, MyTasks!Land \/ MyTasks!Fail \/ MyTasks!Retry
                     \/ \E f \in MyTasks!Filter : MyTasks!SetActiveFilter(f)
  PROVE  MyTasksInv'
  <1>1. MyTasks!Mine' = MyTasks!Mine /\ MyTasks!Overdue' = MyTasks!Overdue
    BY DEF MyTasks!Mine, MyTasks!Overdue, MyTasks!Land, MyTasks!Fail, MyTasks!Retry, MyTasks!SetActiveFilter
  <1>2. \A T : OfTheUser(T)' = OfTheUser(T)
    BY <1>1 DEF OfTheUser
  <1>3. CASE MyTasks!Land
    BY <1>1, <1>2, <1>3, MyRequestRecords DEF MyTasks!Land, MyTasksInv, MyTasksTyped, MyRequests
  <1>4. CASE MyTasks!Fail
    BY <1>1, <1>2, <1>4, MyRequestRecords DEF MyTasks!Fail, MyTasksInv, MyTasksTyped
  <1>5. CASE MyTasks!Retry
    BY <1>1, <1>2, <1>5, MyRequestRecords DEF MyTasks!Retry, MyTasksInv, MyTasksTyped
  <1>6. CASE \E f \in MyTasks!Filter : MyTasks!SetActiveFilter(f)
    BY <1>1, <1>2, <1>6 DEF MyTasks!SetActiveFilter, MyTasksInv, MyTasksTyped
  <1> QED
    BY <1>3, <1>4, <1>5, <1>6

\* The steps of others and of the clock.
LEMMA MyTasksElsewhere ==
  ASSUME MyTasksInv, MyTasks!Tick \/ \E t \in DatedTask, row \in MyTasks!TaskRow : MyTasks!Change(t, row)
  PROVE  MyTasksInv'
  <1>1. CASE MyTasks!Tick
    <2>1. MyTasks!Mine' = MyTasks!Mine /\ MyTasks!Overdue' = MyTasks!Overdue
      BY <1>1 DEF MyTasks!Mine, MyTasks!Overdue, MyTasks!Tick
    <2>2. \A T : OfTheUser(T)' = OfTheUser(T)
      BY <2>1 DEF OfTheUser
    <2> QED
      BY <1>1, <2>1, <2>2 DEF MyTasks!Tick, MyTasks!page, MyTasksInv, MyTasksTyped
  <1>2. CASE \E t \in DatedTask, row \in MyTasks!TaskRow : MyTasks!Change(t, row)
    BY <1>2 DEF MyTasks!Change, MyTasks!page, MyTasksInv, MyTasksTyped
  <1> QED
    BY <1>1, <1>2

LEMMA NextKeepsMyTasks ==
  ASSUME MyTasksInv, MyTasks!Next \/ UNCHANGED MyTasks!vars
  PROVE  MyTasksInv'
  <1>1. CASE UNCHANGED MyTasks!vars
    <2>1. UNCHANGED <<tasks, zone, now, rendered, activeFilter, allTasks, overdueTasks, loading, error, request,
                      changed, missed>>
      BY <1>1 DEF MyTasks!vars, MyTasks!page
    <2>2. MyTasks!Mine' = MyTasks!Mine /\ MyTasks!Overdue' = MyTasks!Overdue
      BY <2>1 DEF MyTasks!Mine, MyTasks!Overdue
    <2>3. \A T : OfTheUser(T)' = OfTheUser(T)
      BY <2>2 DEF OfTheUser
    <2> QED
      BY <2>1, <2>2, <2>3 DEF MyTasksInv, MyTasksTyped
  <1>2. CASE MyTasks!Next
    BY <1>2, MyTasksServed, MyOverdueServed, MyOverdueMissed, MyTasksLand, MyTasksElsewhere DEF MyTasks!Next
  <1> QED
    BY <1>1, <1>2

\* The day a page was drawn, and the days of what it holds.
LEMMA MyDays ==
  ASSUME MyTasksInv, NEW t \in DOMAIN allTasks, allTasks[t] # None
  PROVE  MyTasks!Instant(allTasks[t]) \in Int
  <1>1. allTasks[t] \in Int
    <2>1. PICK S \in SUBSET DatedTask : allTasks \in [S -> MyDue \cup {None}]
      BY DEF MyTasksInv, MyTasksTyped, MyTasks!Rows
    <2> QED
      BY <2>1, ClientsAssumption
  <1>2. zone \in {"west", "UTC", "east"}
    BY DEF MyTasksInv, MyTasksTyped
  <1> QED
    BY <1>1, <1>2 DEF MyTasks!Instant, MyTasks!Midnight

LEMMA MyTasksFiltered ==
  ASSUME MyTasksInv, NEW t \in DOMAIN allTasks, allTasks[t] # None
  PROVE  LET time == MyTasks!Instant(allTasks[t]) thisDay == rendered \div 2
         IN /\ t \in MyTasks!Filtered("Due Today") <=> time \div 2 = thisDay
            /\ t \in MyTasks!Filtered("Due This Week") <=> time \in 2 * thisDay .. 2 * (thisDay + 7 - (thisDay % 7))
            /\ t \in MyTasks!InRed <=> time <= rendered
  BY DEF MyTasks!Filtered, MyTasks!Dated, MyTasks!InRed, MyTasks!EndOfWeek, MyTasks!Midnight, MyTasks!LocalDay

\* Half-days and days, and the end of a week.
LEMMA HalfDays ==
  ASSUME NEW time \in Int, NEW drawn \in Int
  PROVE  LET day == time \div 2 thisDay == drawn \div 2
         IN /\ thisDay \in Int /\ thisDay % 7 \in 0 .. 6
            /\ 2 * thisDay <= drawn /\ drawn <= 2 * thisDay + 1
            /\ 2 * day <= time /\ time <= 2 * day + 1
            /\ day \in thisDay .. thisDay + 6 - (thisDay % 7) => time \in 2 * thisDay .. 2 * (thisDay + 7 - (thisDay % 7))
            /\ day < thisDay => time < 2 * thisDay /\ time <= drawn
            /\ day > thisDay => time > drawn
  OBVIOUS

LEMMA DaysOfTasksAgree ==
  ASSUME MyTasksInv
  PROVE  MyTasks!DaysAgree
  <1> DEFINE thisDay == rendered \div 2
  <1>1. rendered \in Int
    BY DEF MyTasksInv, MyTasksTyped
  <1>2. ASSUME NEW t \in DOMAIN allTasks, allTasks[t] # None
        PROVE  LET time == MyTasks!Instant(allTasks[t]) day == time \div 2
               IN /\ t \in MyTasks!Filtered("Due Today") => t \in MyTasks!Filtered("Due This Week")
                  /\ day \in thisDay .. thisDay + 6 - (thisDay % 7) => t \in MyTasks!Filtered("Due This Week")
                  /\ day < thisDay => t \notin MyTasks!Filtered("Due This Week") /\ t \in MyTasks!InRed
                  /\ day > thisDay => t \notin MyTasks!InRed
    <2>1. PICK time \in Int : time = MyTasks!Instant(allTasks[t])
      BY <1>2, MyDays
    <2>2. PICK day \in Int, left \in 0 .. 6 : day = time \div 2 /\ left = thisDay % 7
      BY <1>1, HalfDays
    <2>3. /\ t \in MyTasks!Filtered("Due Today") <=> day = thisDay
          /\ t \in MyTasks!Filtered("Due This Week") <=> time \in 2 * thisDay .. 2 * (thisDay + 7 - left)
          /\ t \in MyTasks!InRed <=> time <= rendered
      BY <1>2, <2>1, <2>2, MyTasksFiltered
    <2>4. /\ thisDay \in Int
          /\ day \in thisDay .. thisDay + 6 - left => time \in 2 * thisDay .. 2 * (thisDay + 7 - left)
          /\ day < thisDay => time < 2 * thisDay /\ time <= rendered
          /\ day > thisDay => time > rendered
      BY <1>1, <2>2, HalfDays
    <2> HIDE DEF thisDay
    <2>8. PICK drawn \in Int, first \in Int : drawn = rendered /\ first = thisDay
      BY <1>1, <2>4
    <2>5. day = thisDay => day \in thisDay .. thisDay + 6 - left
      BY <2>2, <2>8
    <2>6. day < thisDay => t \notin MyTasks!Filtered("Due This Week") /\ t \in MyTasks!InRed
      <3>1. day < first => time < 2 * first /\ time <= drawn
        BY <2>4, <2>8
      <3>2. time < 2 * first => time \notin 2 * first .. 2 * (first + 7 - left)
        OBVIOUS
      <3> QED
        BY <2>3, <2>8, <3>1, <3>2
    <2>7. day > thisDay => t \notin MyTasks!InRed
      <3>1. day > first => ~(time <= drawn)
        <4>1. day > first => time > drawn
          BY <2>4, <2>8
        <4> QED
          BY <4>1
      <3> QED
        BY <2>3, <2>8, <3>1
    <2> QED
      BY <2>1, <2>2, <2>3, <2>4, <2>5, <2>6, <2>7
  <1>3. \A t \in MyTasks!Filtered("Due Today") : t \in DOMAIN allTasks /\ allTasks[t] # None
    BY DEF MyTasks!Filtered, MyTasks!Dated
  <1> QED
    BY <1>2, <1>3 DEF MyTasks!DaysAgree, MyTasks!LocalDay

LEMMA MyTasksInvSettles == MyTasksInv => MyTasks!MyTasksSettle
  <1> SUFFICES ASSUME MyTasksInv PROVE MyTasks!MyTasksSettle
    OBVIOUS
  <1>1. MyTasks!Filtered("All") = DOMAIN allTasks /\ MyTasks!Filtered("Overdue") = DOMAIN overdueTasks
    BY DEF MyTasks!Filtered
  <1>2. MyTasks!ListsAreStored
    BY <1>1, MyTasksOps DEF MyTasks!ListsAreStored, MyTasks!UpToDate, MyTasksInv, OfTheUser
  <1> QED
    BY <1>2, DaysOfTasksAgree DEF MyTasks!MyTasksSettle

------------------------------------------------------------------------------
(* The calendar                                                              *)

Modes == {"Month", "Week"}

CalendarRequests ==
    [pc : {"idle", "sent"}, from : Int, to : Int, rows : Calendar!Rows, title : Title \cup {None},
     left : SUBSET {"tasks", "project"}]

CalendarTyped ==
    /\ due \in [DatedTask -> CalendarDue \cup {None}] /\ projectTitle \in Title
    /\ zone \in {"west", "UTC", "east"} /\ early \in BOOLEAN
    /\ currentDate \in Calendar!Days /\ viewMode \in Modes
    /\ calendarTasks \in Calendar!Rows /\ title \in Title \cup {None}
    /\ error \in BOOLEAN /\ stale \in BOOLEAN /\ changed \in BOOLEAN /\ missed \in BOOLEAN
    /\ latest \in Request \cup {None}
    /\ requests \in [Request -> CalendarRequests]

\* What a page at a date asks for, and what is stored for that.
FromOf(n, mode) == Calendar!InUTC(Calendar!FirstOf(Calendar!Grid(n, mode)), mode)
ToOf(n, mode) == Calendar!InUTC(Calendar!LastOf(Calendar!Grid(n, mode)), mode)
DueFrom(from, to) ==
    [t \in {t \in DatedTask : due[t] # None /\ due[t] \in from .. to} |-> due[t]]

\* The answer to a request holds what is stored.
AnswersWith(q, from, to) ==
    /\ "tasks" \notin q.left => q.rows = DueFrom(from, to)
    /\ "project" \notin q.left /\ ~missed => q.title = projectTitle

\* The fetch sent last is for what the page shows, and what it brings or has
\* brought is stored, unless something changed or an older one came in after it.
CalendarInv ==
    /\ CalendarTyped
    /\ latest # None =>
          /\ requests[latest].pc = "sent"
          /\ requests[latest].from = FromOf(currentDate, viewMode)
          /\ requests[latest].to = ToOf(currentDate, viewMode)
          /\ ~changed => AnswersWith(requests[latest], requests[latest].from, requests[latest].to)
    /\ latest = None /\ ~stale /\ ~error /\ ~changed =>
          /\ calendarTasks = DueFrom(FromOf(currentDate, viewMode), ToOf(currentDate, viewMode))
          /\ ~missed => title = projectTitle

\* The days of a grid.
GridFirst(n, mode) ==
    LET start == MonthStarts[Calendar!MonthOf(n)]
    IN IF mode = "Week" THEN n - Calendar!GetDay(n) ELSE start - Calendar!GetDay(start)
GridLast(n, mode) ==
    LET end == MonthStarts[Calendar!MonthOf(n) + 1] - 1
    IN IF mode = "Week" THEN n - Calendar!GetDay(n) + 6 ELSE end + 6 - Calendar!GetDay(end)

LEMMA EndsOfInterval ==
  ASSUME NEW a \in Int, NEW b \in Int, a <= b
  PROVE  Calendar!FirstOf(a .. b) = a /\ Calendar!LastOf(a .. b) = b
  <1>1. a \in a .. b /\ b \in a .. b /\ \A e \in a .. b : a <= e /\ e <= b /\ e \in Int
    OBVIOUS
  <1>2. ASSUME NEW d \in a .. b, \A e \in a .. b : d <= e
        PROVE  d = a
    BY <1>1, <1>2
  <1>3. ASSUME NEW d \in a .. b, \A e \in a .. b : e <= d
        PROVE  d = b
    BY <1>1, <1>3
  <1>4. Calendar!FirstOf(a .. b) = a
    BY <1>1, <1>2 DEF Calendar!FirstOf
  <1>5. Calendar!LastOf(a .. b) = b
    BY <1>1, <1>3 DEF Calendar!LastOf
  <1> QED
    BY <1>4, <1>5

\* A day falls in a month, and a grid is the weeks around it.
LEMMA GridIsInterval ==
  ASSUME NEW n \in Calendar!Days, NEW mode \in Modes
  PROVE  LET grid == Calendar!Grid(n, mode)
         IN /\ grid = GridFirst(n, mode) .. GridLast(n, mode)
            /\ Calendar!FirstOf(grid) = GridFirst(n, mode) /\ Calendar!LastOf(grid) = GridLast(n, mode)
            /\ GridFirst(n, mode) \in Int /\ GridLast(n, mode) \in Int
  <1>1. Calendar!MonthOf(n) \in Calendar!Months /\ n \in MonthStarts[Calendar!MonthOf(n)] .. MonthStarts[Calendar!MonthOf(n) + 1] - 1
    BY ClientsAssumption DEF Calendar!MonthOf
  <1>2. PICK m \in Calendar!Months : m = Calendar!MonthOf(n)
    BY <1>1
  <1>3. /\ m \in 1 .. Len(MonthStarts) - 1 /\ Len(MonthStarts) \in Nat
        /\ DOMAIN MonthStarts = 1 .. Len(MonthStarts)
    BY ClientsAssumption DEF Calendar!Months
  <1>4. m \in DOMAIN MonthStarts /\ m + 1 \in DOMAIN MonthStarts
    BY <1>3
  <1>5. MonthStarts[m] \in Int /\ MonthStarts[m + 1] \in Int
    BY <1>4, ClientsAssumption
  <1>6. PICK start \in Int, next \in Int : start = MonthStarts[m] /\ next = MonthStarts[m + 1]
    BY <1>5
  <1>7. n \in Int /\ start <= n /\ n <= next - 1
    BY <1>1, <1>2, <1>6
  <1>8. ASSUME NEW d \in Int PROVE Calendar!GetDay(d) \in 0 .. 6
    BY ClientsAssumption DEF Calendar!GetDay
  <1>9. PICK a \in 0 .. 6, b \in 0 .. 6, c \in 0 .. 6 :
            a = Calendar!GetDay(n) /\ b = Calendar!GetDay(start) /\ c = Calendar!GetDay(next - 1)
    BY <1>7, <1>8
  <1>10. CASE mode = "Week"
    <2>1. Calendar!Grid(n, mode) = n - a .. n - a + 6
      BY <1>9, <1>10 DEF Calendar!Grid, Calendar!WeekOf
    <2>2. GridFirst(n, mode) = n - a /\ GridLast(n, mode) = n - a + 6
      BY <1>9, <1>10 DEF GridFirst, GridLast
    <2>3. n - a \in Int /\ n - a + 6 \in Int /\ n - a <= n - a + 6
      BY <1>7
    <2> QED
      BY <2>1, <2>2, <2>3, EndsOfInterval
  <1>11. CASE mode # "Week"
    <2>1. Calendar!Grid(n, mode) = start - b .. next - 1 + 6 - c
      BY <1>2, <1>6, <1>9, <1>11 DEF Calendar!Grid
    <2>2. GridFirst(n, mode) = start - b /\ GridLast(n, mode) = next - 1 + 6 - c
      BY <1>2, <1>6, <1>9, <1>11 DEF GridFirst, GridLast
    <2>3. start - b \in Int /\ next - 1 + 6 - c \in Int /\ start - b <= next - 1 + 6 - c
      BY <1>7
    <2> QED
      BY <2>1, <2>2, <2>3, EndsOfInterval
  <1> QED
    BY <1>10, <1>11

LEMMA AskedForInt ==
  ASSUME NEW n \in Calendar!Days, NEW mode \in Modes
  PROVE  FromOf(n, mode) \in Int /\ ToOf(n, mode) \in Int
  <1>1. ASSUME NEW d \in Int PROVE Calendar!InUTC(d, mode) \in Int
    BY DEF Calendar!InUTC
  <1> QED
    BY <1>1, GridIsInterval DEF FromOf, ToOf

LEMMA DueFromRows ==
  ASSUME CalendarTyped, NEW from, NEW to
  PROVE  DueFrom(from, to) \in Calendar!Rows
  <1> DEFINE S == {t \in DatedTask : due[t] # None /\ due[t] \in from .. to}
  <1>1. \A t \in S : due[t] \in CalendarDue
    BY DEF CalendarTyped
  <1>2. DueFrom(from, to) \in [S -> CalendarDue] /\ S \in SUBSET DatedTask
    BY <1>1 DEF DueFrom
  <1> QED
    BY <1>2 DEF Calendar!Rows

LEMMA NoDueRows == <<>> \in Calendar!Rows
  <1>1. <<>> \in [{} -> CalendarDue]
    OBVIOUS
  <1> QED
    BY <1>1 DEF Calendar!Rows

LEMMA IdleIsCalendarRequest == Calendar!Idle \in CalendarRequests /\ Calendar!Idle.pc = "idle"
  BY NoDueRows DEF Calendar!Idle, CalendarRequests

\* The ranges asked for depend on where the browser is, and on no other variable.
LEMMA RangesStay ==
  ASSUME UNCHANGED <<zone, early>>, NEW n, NEW mode
  PROVE  /\ FromOf(n, mode)' = FromOf(n, mode) /\ ToOf(n, mode)' = ToOf(n, mode)
  BY DEF FromOf, ToOf, Calendar!InUTC

------------------------------------------------------------------------------
(* The steps of the calendar                                                 *)

LEMMA CalendarStarts == Calendar!Init => CalendarInv
  <1> SUFFICES ASSUME Calendar!Init PROVE CalendarInv
    OBVIOUS
  <1> USE DEF Calendar!Init
  <1> DEFINE days == Calendar!Grid(currentDate, "Month")
             from == Calendar!InUTC(Calendar!FirstOf(days), "Month")
             to == Calendar!InUTC(Calendar!LastOf(days), "Month")
             q == [Calendar!Idle EXCEPT !.pc = "sent", !.from = from, !.to = to, !.left = {"tasks", "project"}]
  <1>1. currentDate \in Calendar!Days /\ "Month" \in Modes /\ viewMode = "Month"
    BY ClientsAssumption DEF Modes
  <1>2. from = FromOf(currentDate, viewMode) /\ to = ToOf(currentDate, viewMode) /\ from \in Int /\ to \in Int
    BY <1>1, AskedForInt DEF FromOf, ToOf
  <1>3. requests = [r \in Request |-> IF r # latest THEN Calendar!Idle ELSE q]
    OBVIOUS
  <1> HIDE DEF from, to
  <1>4. /\ q \in CalendarRequests /\ q.pc = "sent" /\ q.from = from /\ q.to = to
        /\ q.left = {"tasks", "project"}
    BY <1>2, NoDueRows DEF Calendar!Idle, CalendarRequests
  <1> HIDE DEF q
  <1>5. latest \in Request /\ latest # None /\ requests[latest] = q
    BY <1>3, ClientsAssumption
  <1>6. requests \in [Request -> CalendarRequests]
    BY <1>3, <1>4, IdleIsCalendarRequest
  <1>7. early \in BOOLEAN
    OBVIOUS
  <1>8. CalendarTyped
    BY <1>1, <1>5, <1>6, <1>7, NoDueRows DEF CalendarTyped
  <1>9. AnswersWith(q, q.from, q.to)
    BY <1>4 DEF AnswersWith
  <1> QED
    BY <1>2, <1>4, <1>5, <1>8, <1>9 DEF CalendarInv

\* A fetch, whatever the page is at by then.
LEMMA FetchKeepsCalendar ==
  ASSUME CalendarInv, NEW r \in Request, NEW n \in Calendar!Days, NEW mode \in Modes,
         Calendar!Fetch(r, requests, n, mode), currentDate' = n, viewMode' = mode,
         UNCHANGED <<due, projectTitle, zone, early, calendarTasks, title>>
  PROVE  CalendarInv'
  <1> DEFINE days == Calendar!Grid(n, mode)
             from == Calendar!InUTC(Calendar!FirstOf(days), mode)
             to == Calendar!InUTC(Calendar!LastOf(days), mode)
             q == [Calendar!Idle EXCEPT !.pc = "sent", !.from = from, !.to = to, !.left = {"tasks", "project"}]
  <1>1. from = FromOf(n, mode) /\ to = ToOf(n, mode) /\ from \in Int /\ to \in Int
    BY AskedForInt DEF FromOf, ToOf
  <1>2. /\ requests' = [requests EXCEPT ![r] = q]
        /\ error' = FALSE /\ latest' = r /\ stale' = FALSE /\ changed' = FALSE /\ missed' = FALSE
    BY DEF Calendar!Fetch
  <1> HIDE DEF from, to
  <1>3. /\ q \in CalendarRequests /\ q.pc = "sent" /\ q.from = from /\ q.to = to
        /\ q.left = {"tasks", "project"}
    BY <1>1, NoDueRows DEF Calendar!Idle, CalendarRequests
  <1> HIDE DEF q
  <1>4. requests' \in [Request -> CalendarRequests] /\ requests'[r] = q
    BY <1>2, <1>3 DEF CalendarInv, CalendarTyped
  <1>5. CalendarTyped'
    BY <1>2, <1>4 DEF CalendarInv, CalendarTyped
  <1>6. FromOf(currentDate, viewMode)' = from /\ ToOf(currentDate, viewMode)' = to
    <2>1. FromOf(n, mode)' = FromOf(n, mode) /\ ToOf(n, mode)' = ToOf(n, mode)
      BY RangesStay
    <2>2. FromOf(currentDate, viewMode)' = FromOf(n, mode)' /\ ToOf(currentDate, viewMode)' = ToOf(n, mode)'
      BY DEF FromOf, ToOf, Calendar!InUTC
    <2> QED
      BY <1>1, <2>1, <2>2
  <1>7. PICK p \in CalendarRequests, a \in Int, b \in Int :
            p = q /\ a = from /\ b = to /\ p.from = a /\ p.to = b /\ p.pc = "sent" /\ p.left = {"tasks", "project"}
    BY <1>1, <1>3
  <1>11. AnswersWith(p, a, b)'
    BY <1>7 DEF AnswersWith
  <1>8. r # None
    BY ClientsAssumption
  <1>9. requests'[latest'] = p /\ latest' # None
    BY <1>2, <1>4, <1>7, <1>8
  <1>10. AnswersWith(requests[latest], requests[latest].from, requests[latest].to)'
    BY <1>7, <1>9, <1>11 DEF AnswersWith
  <1> QED
    BY <1>5, <1>6, <1>7, <1>9, <1>10 DEF CalendarInv

LEMMA NavigateMonthKeepsCalendar ==
  ASSUME CalendarInv, NEW r \in Request, NEW direction, Calendar!NavigateMonth(r, direction)
  PROVE  CalendarInv'
  <1>1. PICK n \in Calendar!Days, mode \in Modes : n = currentDate' /\ mode = viewMode
    BY DEF CalendarInv, CalendarTyped, Calendar!NavigateMonth
  <1>2. Calendar!Fetch(r, requests, n, mode)
    BY <1>1 DEF Calendar!NavigateMonth
  <1> QED
    BY <1>1, <1>2, FetchKeepsCalendar DEF Calendar!NavigateMonth, Calendar!database, Calendar!place

LEMMA SetViewModeKeepsCalendar ==
  ASSUME CalendarInv, NEW r \in Request, NEW mode \in Modes, Calendar!SetViewMode(r, mode)
  PROVE  CalendarInv'
  <1>1. PICK n \in Calendar!Days : n = currentDate
    BY DEF CalendarInv, CalendarTyped
  <1>2. Calendar!Fetch(r, requests, n, mode)
    BY <1>1 DEF Calendar!SetViewMode
  <1> QED
    BY <1>1, <1>2, FetchKeepsCalendar DEF Calendar!SetViewMode, Calendar!database, Calendar!place

LEMMA RetryKeepsCalendar ==
  ASSUME CalendarInv, NEW r \in Request, Calendar!Retry(r)
  PROVE  CalendarInv'
  <1>1. PICK n \in Calendar!Days, mode \in Modes : n = currentDate /\ mode = viewMode
    BY DEF CalendarInv, CalendarTyped
  <1>2. Calendar!Fetch(r, requests, n, mode)
    BY <1>1 DEF Calendar!Retry
  <1> QED
    BY <1>1, <1>2, FetchKeepsCalendar DEF Calendar!Retry, Calendar!database, Calendar!place

\* An answer from the backend, to any of the fetches under way.
LEMMA AnswerKeepsCalendar ==
  ASSUME CalendarInv, NEW r \in Request, NEW p \in CalendarRequests,
         requests' = [requests EXCEPT ![r] = p],
         p.pc = requests[r].pc, p.from = requests[r].from, p.to = requests[r].to,
         AnswersWith(requests[r], p.from, p.to) => AnswersWith(p, p.from, p.to)',
         missed => missed', missed' \in BOOLEAN,
         UNCHANGED <<due, projectTitle, zone, early, currentDate, viewMode, calendarTasks, title, error, latest, stale, changed>>
  PROVE  CalendarInv'
  <1>1. requests' \in [Request -> CalendarRequests] /\ requests'[r] = p /\ \A s \in Request \ {r} : requests'[s] = requests[s]
    BY DEF CalendarInv, CalendarTyped
  <1>2. CalendarTyped'
    BY <1>1 DEF CalendarInv, CalendarTyped
  <1>3. FromOf(currentDate, viewMode)' = FromOf(currentDate, viewMode) /\ ToOf(currentDate, viewMode)' = ToOf(currentDate, viewMode)
    BY DEF FromOf, ToOf, Calendar!InUTC
  <1>4. \A from, to : DueFrom(from, to)' = DueFrom(from, to)
    BY DEF DueFrom
  <1>5. ASSUME latest' # None
        PROVE  /\ requests[latest].pc = "sent"
               /\ requests[latest].from = FromOf(currentDate, viewMode)
               /\ requests[latest].to = ToOf(currentDate, viewMode)
               /\ ~changed => AnswersWith(requests[latest], requests[latest].from, requests[latest].to)
    BY <1>5 DEF CalendarInv
  <1>6. ASSUME latest' # None
        PROVE  /\ requests'[latest'].pc = "sent"
               /\ requests'[latest'].from = FromOf(currentDate, viewMode)'
               /\ requests'[latest'].to = ToOf(currentDate, viewMode)'
    <2>1. latest \in Request
      BY <1>6 DEF CalendarInv, CalendarTyped
    <2> QED
      BY <1>1, <1>3, <1>5, <1>6, <2>1
  <1>7. ASSUME latest' # None, ~changed'
        PROVE  AnswersWith(requests[latest], requests[latest].from, requests[latest].to)'
    <2>1. latest \in Request
      BY <1>7 DEF CalendarInv, CalendarTyped
    <2>2. CASE latest = r
      <3>1. AnswersWith(p, p.from, p.to)'
        BY <1>5, <1>7, <2>2
      <3> QED
        BY <1>1, <2>2, <3>1 DEF AnswersWith
    <2>3. CASE latest # r
      <3>1. requests'[latest'] = requests[latest]
        BY <1>1, <2>1, <2>3
      <3> QED
        BY <1>4, <1>5, <1>7, <3>1 DEF AnswersWith
    <2> QED
      BY <2>2, <2>3
  <1>8. latest' = None /\ ~stale' /\ ~error' /\ ~changed' =>
          /\ calendarTasks' = DueFrom(FromOf(currentDate, viewMode), ToOf(currentDate, viewMode))'
          /\ ~missed' => title' = projectTitle'
    BY <1>3, <1>4 DEF CalendarInv
  <1> QED
    BY <1>2, <1>6, <1>7, <1>8 DEF CalendarInv

LEMMA GetCalendarKeepsCalendar ==
  ASSUME CalendarInv, NEW r \in Request, Calendar!GetCalendar(r)
  PROVE  CalendarInv'
  <1> USE DEF Calendar!GetCalendar, Calendar!database, Calendar!place, Calendar!page, Calendar!history
  <1>1. PICK q \in CalendarRequests : q = requests[r]
    BY DEF CalendarInv, CalendarTyped
  <1>2. PICK rows_ \in Calendar!Rows : rows_ = DueFrom(q.from, q.to)
    BY <1>1, DueFromRows DEF CalendarInv
  <1> DEFINE p == [q EXCEPT !.left = @ \ {"tasks"}, !.rows = rows_]
  <1>3. requests' = [requests EXCEPT ![r] = p]
    BY <1>1, <1>2 DEF DueFrom, CalendarInv, CalendarTyped, CalendarRequests
  <1>4. /\ p \in CalendarRequests /\ p.pc = q.pc /\ p.from = q.from /\ p.to = q.to /\ p.title = q.title
        /\ p.rows = rows_ /\ p.left = q.left \ {"tasks"}
    BY DEF CalendarRequests
  <1> HIDE DEF p
  <1>5. PICK b \in CalendarRequests : b = p
    BY <1>4
  <1>6. DueFrom(q.from, q.to)' = DueFrom(q.from, q.to)
    BY DEF DueFrom
  <1>7. AnswersWith(requests[r], b.from, b.to) => AnswersWith(b, b.from, b.to)'
    BY <1>1, <1>2, <1>4, <1>5, <1>6 DEF AnswersWith
  <1> HIDE DEF Calendar!GetCalendar
  <1>8. UNCHANGED <<due, projectTitle, zone, early, currentDate, viewMode, calendarTasks, title, error, latest, stale, changed, missed>>
    BY DEF Calendar!GetCalendar
  <1>9. requests' = [requests EXCEPT ![r] = b]
    BY <1>3, <1>5
  <1>10. missed' \in BOOLEAN /\ (missed => missed')
    BY <1>8 DEF CalendarInv, CalendarTyped
  <1>11. b.pc = requests[r].pc /\ b.from = requests[r].from /\ b.to = requests[r].to
    BY <1>1, <1>4, <1>5
  <1> QED
    BY <1>7, <1>8, <1>9, <1>10, <1>11, AnswerKeepsCalendar

LEMMA GetProjectByIdKeepsCalendar ==
  ASSUME CalendarInv, NEW r \in Request, Calendar!GetProjectById(r)
  PROVE  CalendarInv'
  <1> USE DEF Calendar!GetProjectById, Calendar!database, Calendar!place, Calendar!page, Calendar!history
  <1>1. PICK q \in CalendarRequests : q = requests[r]
    BY DEF CalendarInv, CalendarTyped
  <1>2. PICK x \in Title : x = projectTitle
    BY DEF CalendarInv, CalendarTyped
  <1> DEFINE p == [q EXCEPT !.left = @ \ {"project"}, !.title = x]
  <1>3. requests' = [requests EXCEPT ![r] = p]
    BY <1>1, <1>2 DEF CalendarInv, CalendarTyped, CalendarRequests
  <1>4. /\ p \in CalendarRequests /\ p.pc = q.pc /\ p.from = q.from /\ p.to = q.to /\ p.title = x
        /\ p.rows = q.rows /\ p.left = q.left \ {"project"}
    BY DEF CalendarRequests
  <1> HIDE DEF p
  <1>5. PICK b \in CalendarRequests : b = p
    BY <1>4
  <1>6. DueFrom(q.from, q.to)' = DueFrom(q.from, q.to)
    BY DEF DueFrom
  <1>7. AnswersWith(requests[r], b.from, b.to) => AnswersWith(b, b.from, b.to)'
    BY <1>1, <1>2, <1>4, <1>5, <1>6 DEF AnswersWith
  <1> HIDE DEF Calendar!GetProjectById
  <1>8. UNCHANGED <<due, projectTitle, zone, early, currentDate, viewMode, calendarTasks, title, error, latest, stale, changed, missed>>
    BY DEF Calendar!GetProjectById
  <1>9. requests' = [requests EXCEPT ![r] = b]
    BY <1>3, <1>5
  <1>10. missed' \in BOOLEAN /\ (missed => missed')
    BY <1>8 DEF CalendarInv, CalendarTyped
  <1>11. b.pc = requests[r].pc /\ b.from = requests[r].from /\ b.to = requests[r].to
    BY <1>1, <1>4, <1>5
  <1> QED
    BY <1>7, <1>8, <1>9, <1>10, <1>11, AnswerKeepsCalendar

LEMMA MissProjectKeepsCalendar ==
  ASSUME CalendarInv, NEW r \in Request, Calendar!MissProject(r)
  PROVE  CalendarInv'
  <1> USE DEF Calendar!MissProject, Calendar!database, Calendar!place, Calendar!page
  <1>1. PICK q \in CalendarRequests : q = requests[r]
    BY DEF CalendarInv, CalendarTyped
  <1> DEFINE p == [q EXCEPT !.left = @ \ {"project"}]
  <1>3. requests' = [requests EXCEPT ![r] = p]
    BY <1>1 DEF CalendarInv, CalendarTyped, CalendarRequests
  <1>4. /\ p \in CalendarRequests /\ p.pc = q.pc /\ p.from = q.from /\ p.to = q.to
        /\ p.rows = q.rows /\ p.left = q.left \ {"project"}
    BY DEF CalendarRequests
  <1> HIDE DEF p
  <1>5. PICK b \in CalendarRequests : b = p
    BY <1>4
  <1>6. DueFrom(q.from, q.to)' = DueFrom(q.from, q.to)
    BY DEF DueFrom
  <1>7. AnswersWith(requests[r], b.from, b.to) => AnswersWith(b, b.from, b.to)'
    BY <1>1, <1>4, <1>5, <1>6 DEF AnswersWith
  <1> HIDE DEF Calendar!MissProject
  <1>8. UNCHANGED <<due, projectTitle, zone, early, currentDate, viewMode, calendarTasks, title, error, latest, stale, changed>>
    BY DEF Calendar!MissProject
  <1>9. requests' = [requests EXCEPT ![r] = b]
    BY <1>3, <1>5
  <1>10. missed' \in BOOLEAN /\ (missed => missed')
    BY DEF Calendar!MissProject
  <1>11. b.pc = requests[r].pc /\ b.from = requests[r].from /\ b.to = requests[r].to
    BY <1>1, <1>4, <1>5
  <1> QED
    BY <1>7, <1>8, <1>9, <1>10, <1>11, AnswerKeepsCalendar

\* A fetch that has ended.
LEMMA EndedKeepsCalendar ==
  ASSUME CalendarInv, NEW r \in Request, Calendar!Ended(r),
         calendarTasks' \in Calendar!Rows, title' \in Title \cup {None}, error' \in BOOLEAN,
         UNCHANGED <<due, projectTitle, zone, early, currentDate, viewMode, changed, missed>>,
         latest = r /\ ~error' /\ ~changed =>
             /\ calendarTasks' = DueFrom(FromOf(currentDate, viewMode), ToOf(currentDate, viewMode))
             /\ ~missed => title' = projectTitle
  PROVE  CalendarInv'
  <1> USE DEF Calendar!Ended
  <1>1. requests' \in [Request -> CalendarRequests] /\ \A s \in Request \ {r} : requests'[s] = requests[s]
    BY IdleIsCalendarRequest DEF CalendarInv, CalendarTyped
  <1>2. latest' \in Request \cup {None} /\ stale' \in BOOLEAN
    BY DEF CalendarInv, CalendarTyped
  <1>3. CalendarTyped'
    BY <1>1, <1>2 DEF CalendarInv, CalendarTyped
  <1>4. FromOf(currentDate, viewMode)' = FromOf(currentDate, viewMode) /\ ToOf(currentDate, viewMode)' = ToOf(currentDate, viewMode)
    BY DEF FromOf, ToOf, Calendar!InUTC
  <1>5. \A from, to : DueFrom(from, to)' = DueFrom(from, to)
    BY DEF DueFrom
  <1>6. CASE latest = r
    BY <1>3, <1>4, <1>5, <1>6 DEF CalendarInv
  <1>7. CASE latest # r
    <2>1. latest' = latest /\ (latest = None => stale')
      BY <1>7
    <2>2. latest # None => requests'[latest'] = requests[latest]
      BY <1>1, <1>7, <2>1 DEF CalendarInv, CalendarTyped
    <2>3. ASSUME latest # None
          PROVE  /\ requests'[latest'].pc = "sent"
                 /\ requests'[latest'].from = FromOf(currentDate, viewMode)'
                 /\ requests'[latest'].to = ToOf(currentDate, viewMode)'
      BY <1>4, <2>2, <2>3 DEF CalendarInv
    <2>4. ASSUME latest # None, ~changed
          PROVE  AnswersWith(requests[latest], requests[latest].from, requests[latest].to)'
      <3>1. AnswersWith(requests[latest], requests[latest].from, requests[latest].to)
        BY <2>4 DEF CalendarInv
      <3> QED
        BY <1>5, <2>2, <2>4, <3>1 DEF AnswersWith
    <2> QED
      BY <1>3, <2>1, <2>3, <2>4 DEF CalendarInv
  <1> QED
    BY <1>6, <1>7

LEMMA LandKeepsCalendar ==
  ASSUME CalendarInv, NEW r \in Request, Calendar!Land(r)
  PROVE  CalendarInv'
  <1> USE DEF Calendar!Land, Calendar!database, Calendar!place
  <1>1. PICK q \in CalendarRequests : q = requests[r]
    BY DEF CalendarInv, CalendarTyped
  <1>2. q.left = {} /\ calendarTasks' = q.rows /\ title' = IF q.title # None THEN q.title ELSE title
    BY <1>1
  <1>3. calendarTasks' \in Calendar!Rows /\ title' \in Title \cup {None} /\ error' \in BOOLEAN
    BY <1>2 DEF CalendarRequests, CalendarInv, CalendarTyped
  <1>4. ASSUME latest = r, ~changed
        PROVE  /\ calendarTasks' = DueFrom(FromOf(currentDate, viewMode), ToOf(currentDate, viewMode))
               /\ ~missed => title' = projectTitle
    <2>1. q.from = FromOf(currentDate, viewMode) /\ q.to = ToOf(currentDate, viewMode) /\ AnswersWith(q, q.from, q.to)
      BY <1>1, <1>4, ClientsAssumption DEF CalendarInv
    <2>2. q.rows = DueFrom(q.from, q.to) /\ (~missed => q.title = projectTitle)
      BY <1>2, <2>1 DEF AnswersWith
    <2>3. projectTitle # None
      BY ClientsAssumption DEF CalendarInv, CalendarTyped
    <2> QED
      BY <1>2, <2>1, <2>2, <2>3
  <1>5. /\ Calendar!Ended(r)
        /\ UNCHANGED <<due, projectTitle, zone, early, currentDate, viewMode, changed, missed>>
    OBVIOUS
  <1> QED
    BY <1>3, <1>4, <1>5, EndedKeepsCalendar

LEMMA FailKeepsCalendar ==
  ASSUME CalendarInv, NEW r \in Request, Calendar!Fail(r)
  PROVE  CalendarInv'
  <1>1. /\ Calendar!Ended(r) /\ error' = TRUE
        /\ UNCHANGED <<due, projectTitle, zone, early, currentDate, viewMode, calendarTasks, title, changed, missed>>
    BY DEF Calendar!Fail, Calendar!database, Calendar!place
  <1>2. calendarTasks' \in Calendar!Rows /\ title' \in Title \cup {None} /\ error' \in BOOLEAN
    BY <1>1 DEF CalendarInv, CalendarTyped
  <1> QED
    BY <1>1, <1>2, EndedKeepsCalendar

LEMMA ElsewhereKeepsCalendar ==
  ASSUME CalendarInv, Calendar!Elsewhere
  PROVE  CalendarInv'
  <1> USE DEF Calendar!Elsewhere, Calendar!place, Calendar!page
  <1>1. due' \in [DatedTask -> CalendarDue \cup {None}] /\ projectTitle' \in Title
    BY DEF CalendarInv, CalendarTyped
  <1>2. changed' = TRUE /\ UNCHANGED <<zone, early, currentDate, viewMode, calendarTasks, title, error, requests, latest, stale, missed>>
    OBVIOUS
  <1>3. CalendarTyped'
    BY <1>1, <1>2 DEF CalendarInv, CalendarTyped
  <1>4. FromOf(currentDate, viewMode)' = FromOf(currentDate, viewMode) /\ ToOf(currentDate, viewMode)' = ToOf(currentDate, viewMode)
    BY <1>2 DEF FromOf, ToOf, Calendar!InUTC
  <1> HIDE DEF Calendar!Elsewhere
  <1> QED
    BY <1>2, <1>3, <1>4 DEF CalendarInv

LEMMA NextKeepsCalendar ==
  ASSUME CalendarInv, [Calendar!Next]_(Calendar!vars)
  PROVE  CalendarInv'
  <1>1. CASE Calendar!Next
    <2>1. CASE Calendar!Elsewhere
      BY <2>1, ElsewhereKeepsCalendar
    <2>2. ASSUME NEW r \in Request, NEW direction \in {-1, 1}, Calendar!NavigateMonth(r, direction)
          PROVE  CalendarInv'
      BY <2>2, NavigateMonthKeepsCalendar
    <2>3. ASSUME NEW r \in Request, NEW mode \in {"Month", "Week"}, Calendar!SetViewMode(r, mode)
          PROVE  CalendarInv'
      BY <2>3, SetViewModeKeepsCalendar DEF Modes
    <2>4. ASSUME NEW r \in Request, Calendar!Retry(r) PROVE CalendarInv'
      BY <2>4, RetryKeepsCalendar
    <2>5. ASSUME NEW r \in Request, Calendar!GetCalendar(r) PROVE CalendarInv'
      BY <2>5, GetCalendarKeepsCalendar
    <2>6. ASSUME NEW r \in Request, Calendar!GetProjectById(r) PROVE CalendarInv'
      BY <2>6, GetProjectByIdKeepsCalendar
    <2>7. ASSUME NEW r \in Request, Calendar!MissProject(r) PROVE CalendarInv'
      BY <2>7, MissProjectKeepsCalendar
    <2>8. ASSUME NEW r \in Request, Calendar!Land(r) PROVE CalendarInv'
      BY <2>8, LandKeepsCalendar
    <2>9. ASSUME NEW r \in Request, Calendar!Fail(r) PROVE CalendarInv'
      BY <2>9, FailKeepsCalendar
    <2> QED
      BY <1>1, <2>1, <2>2, <2>3, <2>4, <2>5, <2>6, <2>7, <2>8, <2>9 DEF Calendar!Next
  <1>2. CASE UNCHANGED Calendar!vars
    <2>1. UNCHANGED <<due, projectTitle, zone, early, currentDate, viewMode, calendarTasks, title, error, requests, latest, stale, changed, missed>>
      BY <1>2 DEF Calendar!vars, Calendar!database, Calendar!place, Calendar!page, Calendar!history
    <2>2. FromOf(currentDate, viewMode)' = FromOf(currentDate, viewMode) /\ ToOf(currentDate, viewMode)' = ToOf(currentDate, viewMode)
      BY <2>1 DEF FromOf, ToOf, Calendar!InUTC
    <2>3. \A from, to : DueFrom(from, to)' = DueFrom(from, to)
      BY <2>1 DEF DueFrom
    <2>4. CalendarTyped'
      BY <2>1 DEF CalendarInv, CalendarTyped
    <2> QED
      BY <2>1, <2>2, <2>3, <2>4 DEF CalendarInv, AnswersWith
  <1> QED
    BY <1>1, <1>2

------------------------------------------------------------------------------
(* What the grid shows                                                       *)

\* What is due on a day of the grid is asked for.
LEMMA DaysAreAskedFor ==
  ASSUME CalendarTyped, NEW first \in Int, NEW last \in Int, NEW n \in first .. last, NEW d \in Int,
         Calendar!ShownOn(d) = n, n # last \/ Calendar!LastIsAskedFor
  PROVE  d \in Calendar!InUTC(first, viewMode) .. Calendar!InUTC(last, viewMode)
  <1>1. viewMode \in Modes /\ early \in BOOLEAN
    BY DEF CalendarTyped
  <1>2. CASE zone = "west"
    <2>1. n = d - 1
      BY <1>2 DEF Calendar!ShownOn
    <2>2. CASE viewMode = "Week" /\ early
      BY <1>2, <2>1, <2>2 DEF Calendar!InUTC
    <2>3. CASE ~(viewMode = "Week" /\ early)
      <3>1. n # last
        BY <1>2, <2>3 DEF Calendar!LastIsAskedFor
      <3>2. Calendar!InUTC(first, viewMode) = first /\ Calendar!InUTC(last, viewMode) = last
        BY <1>2, <2>3 DEF Calendar!InUTC
      <3> QED
        BY <2>1, <3>1, <3>2
    <2> QED
      BY <2>2, <2>3
  <1>3. CASE zone = "east"
    <2>1. n = d
      BY <1>3 DEF Calendar!ShownOn
    <2>2. CASE viewMode = "Month" \/ early
      <3>1. n # last
        BY <1>1, <1>3, <2>2 DEF Calendar!LastIsAskedFor, Modes
      <3>2. Calendar!InUTC(first, viewMode) = first - 1 /\ Calendar!InUTC(last, viewMode) = last - 1
        BY <1>3, <2>2 DEF Calendar!InUTC
      <3> QED
        BY <2>1, <3>1, <3>2
    <2>3. CASE ~(viewMode = "Month" \/ early)
      BY <1>3, <2>1, <2>3 DEF Calendar!InUTC
    <2> QED
      BY <2>2, <2>3
  <1>4. CASE zone = "UTC"
    BY <1>4 DEF Calendar!InUTC, Calendar!ShownOn
  <1> QED
    BY <1>2, <1>3, <1>4 DEF CalendarTyped

LEMMA CalendarCardinality == ASSUME NEW S PROVE Calendar!Cardinality(S) = Cardinality(S)
  BY DEF Calendar!Cardinality, Cardinality

\* A cell counts all the tasks of its day.
LEMMA CellsCountTheirDays ==
  ASSUME CalendarTyped, NEW n \in Calendar!Grid(currentDate, viewMode)
  PROVE  Calendar!Cells[n].events + Calendar!Cells[n].hasMore = Calendar!Cardinality(Calendar!OfDay(n))
  <1>1. DOMAIN calendarTasks \subseteq DatedTask
    BY DEF CalendarTyped, Calendar!Rows
  <1>2. Calendar!OfDay(n) \subseteq DatedTask /\ IsFiniteSet(DatedTask)
    BY <1>1, ClientsAssumption DEF Calendar!OfDay
  <1>3. IsFiniteSet(Calendar!OfDay(n))
    BY <1>2, FS_Subset
  <1>4. Calendar!Cardinality(Calendar!OfDay(n)) \in Nat /\ Calendar!Cardinality(DatedTask) \in Nat
    BY <1>2, <1>3, FS_CardinalityType, CalendarCardinality
  <1>5. PICK events \in Nat, fit \in Nat :
            /\ events = Calendar!Cardinality(Calendar!OfDay(n))
            /\ fit = IF viewMode = "Month" THEN MaxEvents ELSE Calendar!Cardinality(DatedTask)
    BY <1>4, ClientsAssumption
  <1>6. Calendar!Cells[n] = [events |-> IF events <= fit THEN events ELSE fit,
                             hasMore |-> IF events <= fit THEN 0 ELSE events - fit]
    BY <1>5 DEF Calendar!Cells
  <1>7. CASE events <= fit
    BY <1>5, <1>6, <1>7
  <1>8. CASE ~(events <= fit)
    BY <1>5, <1>6, <1>8
  <1> QED
    BY <1>7, <1>8

LEMMA CalendarInvSettles == CalendarInv => Calendar!CalendarSettles
  <1> SUFFICES ASSUME CalendarInv PROVE Calendar!CalendarSettles
    OBVIOUS
  <1>1. ASSUME Calendar!UpToDate
        PROVE  /\ calendarTasks = DueFrom(FromOf(currentDate, viewMode), ToOf(currentDate, viewMode))
               /\ ~missed => title = projectTitle
    <2>1. ~error /\ ~stale /\ ~changed /\ \A r \in Request : requests[r].pc = "idle"
      BY <1>1 DEF Calendar!UpToDate, Calendar!AtRest
    <2>2. latest = None
      <3>1. ASSUME latest # None PROVE FALSE
        <4>1. latest \in Request /\ requests[latest].pc = "sent"
          BY <3>1 DEF CalendarInv, CalendarTyped
        <4> QED
          BY <2>1, <4>1
      <3> QED
        BY <3>1
    <2> QED
      BY <2>1, <2>2 DEF CalendarInv
  <1>2. Calendar!TitleIsShown
    BY <1>1 DEF Calendar!TitleIsShown
  <1>3. ASSUME Calendar!UpToDate, NEW n \in Calendar!Grid(currentDate, viewMode),
               n # Calendar!LastOf(Calendar!Grid(currentDate, viewMode)) \/ Calendar!LastIsAskedFor
        PROVE  Calendar!Cells[n].events + Calendar!Cells[n].hasMore
                   = Calendar!Cardinality({t \in DatedTask : due[t] # None /\ Calendar!ShownOn(due[t]) = n})
    <2>1. CalendarTyped /\ currentDate \in Calendar!Days /\ viewMode \in Modes
      BY DEF CalendarInv, CalendarTyped
    <2>2. PICK first \in Int, last \in Int :
              /\ Calendar!Grid(currentDate, viewMode) = first .. last
              /\ first = Calendar!FirstOf(Calendar!Grid(currentDate, viewMode))
              /\ last = Calendar!LastOf(Calendar!Grid(currentDate, viewMode))
      BY <2>1, GridIsInterval
    <2>3. PICK from, to : /\ from = Calendar!InUTC(first, viewMode) /\ from = FromOf(currentDate, viewMode)
                          /\ to = Calendar!InUTC(last, viewMode) /\ to = ToOf(currentDate, viewMode)
      BY <2>2 DEF FromOf, ToOf
    <2>4. calendarTasks = DueFrom(from, to)
      BY <1>1, <1>3, <2>3
    <2>5. ASSUME NEW t \in DatedTask, due[t] # None, Calendar!ShownOn(due[t]) = n
          PROVE  due[t] \in from .. to
      <3>1. due[t] \in Int
        BY <2>1, <2>5, ClientsAssumption DEF CalendarTyped
      <3>2. PICK d \in Int : d = due[t]
        BY <3>1
      <3> QED
        BY <1>3, <2>1, <2>2, <2>3, <2>5, <3>2, DaysAreAskedFor
    <2>6. Calendar!OfDay(n) = {t \in DatedTask : due[t] # None /\ Calendar!ShownOn(due[t]) = n}
      BY <2>4, <2>5 DEF Calendar!OfDay, DueFrom
    <2> QED
      BY <2>1, <2>6, CellsCountTheirDays
  <1>4. Calendar!DaysAreComplete
    BY <1>3 DEF Calendar!DaysAreComplete
  <1> QED
    BY <1>2, <1>4 DEF Calendar!CalendarSettles

\* What the calendar shows of each day, and the user's tasks show of their
\* lists and days, is what is stored, unless it changed, did not arrive or was
\* overtaken since the page fetched it.
THEOREM DatesAlwaysSettle == Spec => []DatesSettle
  <1> DEFINE I == (part = "calendar" => CalendarInv) /\ (part = "mytasks" => MyTasksInv)
  <1>1. Init => I
    BY CalendarStarts, InitMyTasks DEF Init
  <1>2. I /\ [Next]_vars => I'
    <2> SUFFICES ASSUME I, [Next]_vars PROVE I'
      OBVIOUS
    <2>1. ASSUME part' = "calendar" PROVE CalendarInv'
      <3>1. part = "calendar" /\ (Calendar!Next \/ UNCHANGED Calendar!vars)
        BY <2>1 DEF Next, vars, common, calendarOwn, Calendar!vars, Calendar!database, Calendar!place, Calendar!page,
                    Calendar!history
      <3> QED
        BY <3>1, NextKeepsCalendar
    <2>2. ASSUME part' = "mytasks" PROVE MyTasksInv'
      <3>1. part = "mytasks" /\ (MyTasks!Next \/ UNCHANGED MyTasks!vars)
        BY <2>2 DEF Next, vars, common, mytasksOwn, MyTasks!vars, MyTasks!page
      <3> QED
        BY <3>1, NextKeepsMyTasks
    <2> QED
      BY <2>1, <2>2
  <1>3. I => DatesSettle
    BY CalendarInvSettles, MyTasksInvSettles DEF DatesSettle
  <1> QED
    BY <1>1, <1>2, <1>3, PTL DEF Spec

------------------------------------------------------------------------------
(* Who is signed in                                                          *)

Users == Account \cup {None}

SessionTyped ==
    /\ cookie \in Users /\ stored \in Users
    /\ tabs \in [Tab -> Session!TabState] /\ DOMAIN requests \subseteq Session!RequestState
    /\ moved \subseteq Tab /\ writer \in Tab

\* Of the requests R, those of a tab and a kind.
OfTab(R, t, kinds) == {q \in R : q.tab = t /\ q.kind \in kinds}
Mounted(R) == {q \in R : q.mounted}

\* A layout without a user waits for its check, and is not the other one; what
\* waits, and what is busy, has something to wait for.
TabWaits(t, tab, R) ==
    /\ tab.page \in Session!AuthPages => tab.user = None
    /\ tab.page = "user" /\ tab.user = None => OfTab(R, t, {"check"}) # {}
    /\ tab.checking => tab.page \in Session!AuthPages /\ OfTab(Mounted(R), t, {"entry"}) # {}
    /\ tab.busy => OfTab(Mounted(R), t, Session!Forms \cup {"logout"}) # {}

\* A tab shows whose token it is, or is about to learn it.
TabLearns(t, tab, R, c) ==
    \/ tab.page = "home"
    \/ tab.user = c
    \/ OfTab(R, t, {"check"}) # {}
    \/ tab.page \in Session!AuthPages /\ c # None /\ \E q \in OfTab(R, t, {"entry"}) : q.cookie = c

SessionInv ==
    /\ SessionTyped
    /\ \A q \in DOMAIN requests : q.kind = "login" => q.user # None
    /\ \A t \in Tab : TabWaits(t, tabs[t], DOMAIN requests)
    /\ \A t \in Tab \ moved :
          /\ TabLearns(t, tabs[t], DOMAIN requests, cookie)
          /\ \A q \in OfTab(DOMAIN requests, t, {"check"}) : q.cookie = cookie
    /\ stored = tabs[writer].user

\* What a tab becomes, as it is computed.
StepTyped(s) ==
    /\ s \in [tab : Session!TabState, reqs : {s.reqs}, checked : BOOLEAN, missed : BOOLEAN]
    /\ DOMAIN s.reqs \subseteq Session!RequestState

AllPages == Session!AuthPages \cup {"home", "user"}
Kinds == {"entry", "check", "logout", "verify"} \cup Session!Forms

\* The requests of the others.
Rest(R, t) == {q \in R : q.tab # t}
LoginsNamed(R) == \A q \in R : q.kind = "login" => q.user # None

\* A request more.
Also(R, q) == R \cup {q}

LEMMA TabAfter ==
  ASSUME NEW tab \in Session!TabState, NEW u \in Users
  PROVE  [tab EXCEPT !.user = u] \in Session!TabState
  BY DEF Session!TabState, Users

LEMMA FlagAfter ==
  ASSUME NEW tab \in Session!TabState, NEW b \in BOOLEAN
  PROVE  /\ [tab EXCEPT !.checking = b] \in Session!TabState
         /\ [tab EXCEPT !.busy = b] \in Session!TabState
         /\ [tab EXCEPT !.done = b] \in Session!TabState
         /\ [tab EXCEPT !.redirect = b] \in Session!TabState
         /\ [tab EXCEPT !.asked = b] \in Session!TabState
  BY DEF Session!TabState

\* Waiting components of a tab are unmounted, all or all but its layout.
Turned(q, t, stays) == Session!Unmounted(q, t, stays)
TurnedAll(R, t, stays) == {Turned(q, t, stays) : q \in R}

\* A request is sent.
SendsTo(b, s, q) ==
    /\ StepTyped(b) /\ b.tab = s.tab /\ b.missed = s.missed
    /\ q \in Session!RequestState /\ DOMAIN b.reqs = Also(DOMAIN s.reqs, q)
    /\ b.checked = (s.checked \/ q.kind \in {"entry", "check"})

\* A tab turns to a page.
TurnsTo(a, s, t, pg, stays) ==
    /\ StepTyped(a) /\ a.missed = s.missed /\ a.checked = s.checked
    /\ a.tab.page = pg /\ a.tab.user = s.tab.user /\ a.tab.checking = s.tab.checking /\ a.tab.busy = FALSE
    /\ a.tab.asked = s.tab.asked
    /\ DOMAIN a.reqs = TurnedAll(DOMAIN s.reqs, t, stays)

LEMMA SendsIs ==
  ASSUME NEW t \in Tab, NEW s, StepTyped(s), NEW kind \in Kinds, NEW c \in Users, NEW u \in Users,
         NEW b, b = Session!Sends(t, s, kind, c, u),
         NEW q, q = [kind |-> kind, tab |-> t, cookie |-> c, user |-> u, mounted |-> TRUE]
  PROVE  SendsTo(b, s, q)
  <1> DEFINE R == Session!BagAdd(s.reqs, q)
             d == s.checked \/ kind \in {"entry", "check"}
             p == [s EXCEPT !.reqs = R, !.checked = d]
  <1>1. q \in Session!RequestState
    BY DEF Session!RequestState, Kinds, Users
  <1>2. Session!Sends(t, s, kind, c, u) = p
    BY DEF Session!Sends
  <1>3. DOMAIN R = Also(DOMAIN s.reqs, q)
    BY DEF Session!BagAdd, Also
  <1>4. d \in BOOLEAN
    OBVIOUS
  <1> HIDE DEF R, d
  <1>5. p.tab = s.tab /\ p.missed = s.missed /\ p.reqs = R /\ p.checked = d
    BY <1>4 DEF StepTyped
  <1>6. DOMAIN s.reqs \subseteq Session!RequestState
    BY DEF StepTyped
  <1>7. p \in [tab : Session!TabState, reqs : {R}, checked : BOOLEAN, missed : BOOLEAN]
    BY <1>4 DEF StepTyped
  <1>8. StepTyped(p)
    BY <1>1, <1>3, <1>5, <1>6, <1>7 DEF StepTyped, Also
  <1> QED
    BY <1>1, <1>2, <1>3, <1>5, <1>8 DEF d, SendsTo

LEMMA TurnedIs ==
  ASSUME NEW q \in Session!RequestState, NEW t, NEW stays
  PROVE  LET p == Turned(q, t, stays)
         IN /\ p \in Session!RequestState
            /\ p.tab = q.tab /\ p.kind = q.kind /\ p.cookie = q.cookie /\ p.user = q.user
            /\ q.tab # t \/ q.kind \in stays => p = q
  BY DEF Turned, Session!Unmounted, Session!RequestState

LEMMA TurnsIs ==
  ASSUME NEW t \in Tab, NEW s, StepTyped(s), NEW pg \in AllPages, NEW stays,
         NEW a, a = Session!Turns(t, s, pg, stays)
  PROVE  TurnsTo(a, s, t, pg, stays)
  <1> DEFINE R == Session!BagOfAll(LAMBDA q : Session!Unmounted(q, t, stays), s.reqs)
             p == [s EXCEPT !.tab.page = pg, !.tab.busy = FALSE, !.tab.done = FALSE, !.reqs = R]
  <1>1. Session!Turns(t, s, pg, stays) = p
    BY DEF Session!Turns, StepTyped
  <1>2. DOMAIN R = TurnedAll(DOMAIN s.reqs, t, stays)
    BY DEF Session!BagOfAll, Session!BagToSet, Turned, TurnedAll
  <1> HIDE DEF R
  <1>3. p.reqs = R /\ p.missed = s.missed /\ p.checked = s.checked
    BY DEF StepTyped
  <1>4. /\ p.tab.page = pg /\ p.tab.user = s.tab.user /\ p.tab.checking = s.tab.checking /\ p.tab.busy = FALSE
        /\ p.tab.asked = s.tab.asked /\ p.tab \in Session!TabState
    BY DEF StepTyped, Session!TabState, AllPages
  <1>5. p \in [tab : Session!TabState, reqs : {R}, checked : BOOLEAN, missed : BOOLEAN]
    BY <1>4 DEF StepTyped
  <1>6. DOMAIN R \subseteq Session!RequestState
    BY <1>2, TurnedIs DEF StepTyped, TurnedAll
  <1>7. StepTyped(p)
    BY <1>3, <1>5, <1>6 DEF StepTyped
  <1> QED
    BY <1>1, <1>2, <1>3, <1>4, <1>7 DEF TurnsTo

\* What a step keeps of the requests R of a tab, when they become R2.
Keeps(R, R2, t) ==
    /\ Rest(R2, t) = Rest(R, t)
    /\ LoginsNamed(R) => LoginsNamed(R2)
    /\ OfTab(R, t, {"check"}) # {} => OfTab(R2, t, {"check"}) # {}
    /\ \A q \in OfTab(R, t, {"entry"}) : \E p \in OfTab(R2, t, {"entry"}) : p.cookie = q.cookie

LEMMA TurnedKeeps ==
  ASSUME NEW R \in SUBSET Session!RequestState, NEW t \in Tab, NEW stays,
         NEW R2, R2 = TurnedAll(R, t, stays)
  PROVE  /\ Keeps(R, R2, t)
         /\ "entry" \in stays /\ OfTab(Mounted(R), t, {"entry"}) # {} => OfTab(Mounted(R2), t, {"entry"}) # {}
  <1>1. \A q \in R : /\ Turned(q, t, stays) \in R2
                     /\ Turned(q, t, stays).tab = q.tab /\ Turned(q, t, stays).kind = q.kind
                     /\ Turned(q, t, stays).cookie = q.cookie /\ Turned(q, t, stays).user = q.user
                     /\ q.tab # t \/ q.kind \in stays => Turned(q, t, stays) = q
    BY TurnedIs DEF TurnedAll
  <1>2. \A p \in R2 : \E q \in R : p = Turned(q, t, stays)
    BY DEF TurnedAll
  <1>3. Rest(R2, t) = Rest(R, t)
    <2>1. ASSUME NEW p \in R2, p.tab # t PROVE p \in R
      BY <1>1, <1>2, <2>1
    <2>2. ASSUME NEW p \in R, p.tab # t PROVE p \in R2
      BY <1>1, <2>2
    <2> QED
      BY <2>1, <2>2 DEF Rest
  <1>4. LoginsNamed(R) => LoginsNamed(R2)
    BY <1>1, <1>2 DEF LoginsNamed
  <1>5. OfTab(R, t, {"check"}) # {} => OfTab(R2, t, {"check"}) # {}
    BY <1>1 DEF OfTab
  <1>6. ASSUME NEW q \in OfTab(R, t, {"entry"})
        PROVE  \E p \in OfTab(R2, t, {"entry"}) : p.cookie = q.cookie
    <2>1. q \in R /\ q.tab = t /\ q.kind = "entry"
      BY DEF OfTab
    <2>2. Turned(q, t, stays) \in OfTab(R2, t, {"entry"}) /\ Turned(q, t, stays).cookie = q.cookie
      BY <1>1, <2>1 DEF OfTab
    <2> QED
      BY <2>2
  <1>7. ASSUME "entry" \in stays, NEW q \in OfTab(Mounted(R), t, {"entry"})
        PROVE  q \in OfTab(Mounted(R2), t, {"entry"})
    <2>1. q \in R /\ q.tab = t /\ q.kind = "entry" /\ q.mounted
      BY DEF OfTab, Mounted
    <2>2. q \in R2
      BY <1>1, <1>7, <2>1
    <2> QED
      BY <2>1, <2>2 DEF OfTab, Mounted
  <1>8. "entry" \in stays /\ OfTab(Mounted(R), t, {"entry"}) # {} => OfTab(Mounted(R2), t, {"entry"}) # {}
    BY <1>7
  <1> QED
    BY <1>3, <1>4, <1>5, <1>6, <1>8 DEF Keeps

LEMMA SentKeeps ==
  ASSUME NEW R, NEW q, NEW t, q.tab = t, q.kind = "login" => q.user # None
  PROVE  Keeps(R, Also(R, q), t)
  BY DEF Keeps, Rest, LoginsNamed, OfTab, Also

LEMMA KeepsTwice ==
  ASSUME NEW R, NEW R2, NEW R3, NEW t, Keeps(R, R2, t), Keeps(R2, R3, t)
  PROVE  Keeps(R, R3, t)
  <1>1. Rest(R3, t) = Rest(R, t) /\ (LoginsNamed(R) => LoginsNamed(R3))
    BY DEF Keeps
  <1>2. OfTab(R, t, {"check"}) # {} => OfTab(R3, t, {"check"}) # {}
    BY DEF Keeps
  <1>3. ASSUME NEW q \in OfTab(R, t, {"entry"})
        PROVE  \E p \in OfTab(R3, t, {"entry"}) : p.cookie = q.cookie
    <2>1. PICK m \in OfTab(R2, t, {"entry"}) : m.cookie = q.cookie
      BY DEF Keeps
    <2>2. PICK p \in OfTab(R3, t, {"entry"}) : p.cookie = m.cookie
      BY DEF Keeps
    <2> QED
      BY <2>1, <2>2
  <1> QED
    BY <1>1, <1>2, <1>3 DEF Keeps

\* Wherever a tab goes it waits for what it needs, and knows as much.
Arrives(t, s, p, c) ==
    /\ StepTyped(p) /\ p.missed = s.missed /\ p.tab.user = s.tab.user
    /\ Keeps(DOMAIN s.reqs, DOMAIN p.reqs, t)
    /\ TabWaits(t, p.tab, DOMAIN p.reqs)
    /\ s.checked => p.checked
    /\ p.checked => s.checked \/ TabLearns(t, p.tab, DOMAIN p.reqs, c)
    /\ TabLearns(t, s.tab, DOMAIN s.reqs, c) => TabLearns(t, p.tab, DOMAIN p.reqs, c)

LEMMA EnterUserArrives ==
  ASSUME NEW t \in Tab, NEW s, StepTyped(s), NEW c \in Users
  PROVE  LET p == Session!EnterUser(t, s, c)
         IN /\ Arrives(t, s, p, c) /\ p.tab.page = "user" /\ p.checked
            /\ TabLearns(t, p.tab, DOMAIN p.reqs, c)
  <1>1. PICK a : a = Session!Turns(t, s, "user", {})
    OBVIOUS
  <1>16. "user" \in AllPages /\ "check" \in Kinds /\ None \in Users
    BY DEF AllPages, Kinds, Users
  <1>2. /\ StepTyped(a) /\ a.missed = s.missed /\ a.checked = s.checked
        /\ a.tab.page = "user" /\ a.tab.user = s.tab.user /\ a.tab.busy = FALSE
        /\ DOMAIN a.reqs = TurnedAll(DOMAIN s.reqs, t, {})
    <2>1. TurnsTo(a, s, t, "user", {})
      BY <1>1, <1>16, TurnsIs
    <2> QED
      BY <2>1 DEF TurnsTo
  <1>3. PICK b : b = Session!Sends(t, a, "check", c, None)
    OBVIOUS
  <1>15. PICK q : q = [kind |-> "check", tab |-> t, cookie |-> c, user |-> None, mounted |-> TRUE]
    OBVIOUS
  <1>4. /\ q.kind = "check" /\ q.tab = t /\ q.cookie = c /\ q.mounted
        /\ StepTyped(b) /\ b.tab = a.tab /\ b.missed = a.missed /\ b.checked = TRUE
        /\ DOMAIN b.reqs = Also(DOMAIN a.reqs, q)
    <2>1. SendsTo(b, a, q)
      BY <1>2, <1>3, <1>15, <1>16, SendsIs
    <2> QED
      BY <1>15, <2>1 DEF SendsTo
  <1>5. PICK d \in BOOLEAN : d = (b.tab.asked \/ (s.tab.user # None /\ c = None))
    OBVIOUS
  <1> DEFINE p == [b EXCEPT !.tab.checking = FALSE, !.tab.asked = d]
  <1>6. Session!EnterUser(t, s, c) = p
    BY <1>1, <1>3, <1>4, <1>5 DEF Session!EnterUser, StepTyped, Session!TabState
  <1>7. /\ p.reqs = b.reqs /\ p.missed = b.missed /\ p.checked = b.checked
        /\ p.tab.page = b.tab.page /\ p.tab.user = b.tab.user /\ p.tab.busy = b.tab.busy /\ p.tab.checking = FALSE
        /\ StepTyped(p)
    BY <1>4 DEF StepTyped, Session!TabState
  <1> HIDE DEF p
  <1>8. Keeps(DOMAIN s.reqs, DOMAIN p.reqs, t)
    <2>1. Keeps(DOMAIN s.reqs, DOMAIN a.reqs, t)
      BY <1>2, TurnedKeeps DEF StepTyped
    <2>2. Keeps(DOMAIN a.reqs, DOMAIN p.reqs, t)
      BY <1>4, <1>7, SentKeeps
    <2> QED
      BY <2>1, <2>2, KeepsTwice
  <1>9. OfTab(DOMAIN p.reqs, t, {"check"}) # {}
    BY <1>4, <1>7 DEF OfTab, Also
  <1>10. TabWaits(t, p.tab, DOMAIN p.reqs)
    BY <1>2, <1>4, <1>7, <1>9 DEF TabWaits, Session!AuthPages, Session!Forms
  <1>11. TabLearns(t, p.tab, DOMAIN p.reqs, c)
    BY <1>9 DEF TabLearns
  <1> QED
    BY <1>2, <1>4, <1>6, <1>7, <1>8, <1>10, <1>11 DEF Arrives

\* From one page before the layouts of a user to another.
EntersTo(p, s, t, pg, stays) ==
    /\ StepTyped(p) /\ p.missed = s.missed /\ p.checked = s.checked
    /\ p.tab.page = pg /\ p.tab.user = s.tab.user /\ p.tab.checking = s.tab.checking /\ p.tab.busy = FALSE
    /\ Keeps(DOMAIN s.reqs, DOMAIN p.reqs, t)
    /\ "entry" \in stays /\ OfTab(Mounted(DOMAIN s.reqs), t, {"entry"}) # {} => OfTab(Mounted(DOMAIN p.reqs), t, {"entry"}) # {}

LEMMA EnterPageIs ==
  ASSUME NEW t \in Tab, NEW s, StepTyped(s), NEW c \in Users, NEW pg \in Session!AuthPages, NEW stays
  PROVE  EntersTo(Session!EnterPage(t, s, pg, c, stays), s, t, pg, stays)
  <1>1. PICK a : a = Session!Turns(t, s, pg, stays)
    OBVIOUS
  <1>2. /\ StepTyped(a) /\ a.missed = s.missed /\ a.checked = s.checked
        /\ a.tab.page = pg /\ a.tab.user = s.tab.user /\ a.tab.checking = s.tab.checking /\ a.tab.busy = FALSE
        /\ DOMAIN a.reqs = TurnedAll(DOMAIN s.reqs, t, stays)
    <2>1. pg \in AllPages
      BY DEF AllPages
    <2>2. TurnsTo(a, s, t, pg, stays)
      BY <1>1, <2>1, TurnsIs
    <2> QED
      BY <2>2 DEF TurnsTo
  <1>3. /\ Keeps(DOMAIN s.reqs, DOMAIN a.reqs, t)
        /\ "entry" \in stays /\ OfTab(Mounted(DOMAIN s.reqs), t, {"entry"}) # {} => OfTab(Mounted(DOMAIN a.reqs), t, {"entry"}) # {}
    BY <1>2, TurnedKeeps DEF StepTyped
  <1>4. CASE pg # "verify"
    <2>1. Session!EnterPage(t, s, pg, c, stays) = a
      BY <1>1, <1>4 DEF Session!EnterPage
    <2> QED
      BY <1>2, <1>3, <2>1 DEF EntersTo
  <1>5. CASE pg = "verify"
    <2>1. PICK b : b = Session!Sends(t, a, "verify", c, None)
      OBVIOUS
    <2>2. Session!EnterPage(t, s, pg, c, stays) = b
      BY <1>1, <1>5, <2>1 DEF Session!EnterPage
    <2>8. PICK q : q = [kind |-> "verify", tab |-> t, cookie |-> c, user |-> None, mounted |-> TRUE]
      OBVIOUS
    <2>3. /\ q.kind = "verify" /\ q.tab = t /\ q.cookie = c /\ q.mounted
          /\ StepTyped(b) /\ b.tab = a.tab /\ b.missed = a.missed
          /\ b.checked = (a.checked \/ "verify" \in {"entry", "check"})
          /\ DOMAIN b.reqs = Also(DOMAIN a.reqs, q)
      <3>1. "verify" \in Kinds /\ None \in Users
        BY DEF Kinds, Users
      <3>2. SendsTo(b, a, q)
        BY <1>2, <2>1, <2>8, <3>1, SendsIs
      <3> QED
        BY <2>8, <3>2 DEF SendsTo
    <2>4. b.checked = a.checked
      BY <1>2, <2>3 DEF StepTyped
    <2>5. Keeps(DOMAIN a.reqs, DOMAIN b.reqs, t)
      BY <2>3, SentKeeps
    <2>6. Keeps(DOMAIN s.reqs, DOMAIN b.reqs, t)
      BY <1>3, <2>5, KeepsTwice
    <2>7. OfTab(Mounted(DOMAIN a.reqs), t, {"entry"}) \subseteq OfTab(Mounted(DOMAIN b.reqs), t, {"entry"})
      BY <2>3 DEF OfTab, Mounted, Also
    <2> QED
      BY <1>2, <1>3, <2>2, <2>3, <2>4, <2>6, <2>7 DEF EntersTo
  <1> QED
    BY <1>4, <1>5

LEMMA EnterAuthArrives ==
  ASSUME NEW t \in Tab, NEW s, StepTyped(s), NEW c \in Users, NEW pg \in Session!AuthPages
  PROVE  LET p == Session!EnterAuth(t, s, pg, c)
         IN Arrives(t, s, p, c) /\ p.checked /\ TabLearns(t, p.tab, DOMAIN p.reqs, c)
  <1>1. PICK a : a = Session!EnterPage(t, s, pg, c, {})
    OBVIOUS
  <1>2. /\ StepTyped(a) /\ a.missed = s.missed /\ a.checked = s.checked
        /\ a.tab.page = pg /\ a.tab.user = s.tab.user /\ a.tab.busy = FALSE
        /\ Keeps(DOMAIN s.reqs, DOMAIN a.reqs, t)
    <2>1. EntersTo(a, s, t, pg, {})
      BY <1>1, EnterPageIs
    <2> QED
      BY <2>1 DEF EntersTo
  <1>3. PICK b : b = Session!Sends(t, a, "entry", c, None)
    OBVIOUS
  <1>15. PICK q : q = [kind |-> "entry", tab |-> t, cookie |-> c, user |-> None, mounted |-> TRUE]
    OBVIOUS
  <1>4. /\ q.kind = "entry" /\ q.tab = t /\ q.cookie = c /\ q.mounted
        /\ StepTyped(b) /\ b.tab = a.tab /\ b.missed = a.missed /\ b.checked = TRUE
        /\ DOMAIN b.reqs = Also(DOMAIN a.reqs, q)
    <2>1. "entry" \in Kinds /\ None \in Users
      BY DEF Kinds, Users
    <2>2. SendsTo(b, a, q)
      BY <1>2, <1>3, <1>15, <2>1, SendsIs
    <2> QED
      BY <1>15, <2>2 DEF SendsTo
  <1>5. Keeps(DOMAIN s.reqs, DOMAIN b.reqs, t)
    <2>1. Keeps(DOMAIN a.reqs, DOMAIN b.reqs, t)
      BY <1>4, SentKeeps
    <2> QED
      BY <1>2, <2>1, KeepsTwice
  <1>6. CASE s.tab.user # None
    <2>1. PICK p : p = Session!EnterUser(t, b, c)
      OBVIOUS
    <2>2. Session!EnterAuth(t, s, pg, c) = p
      BY <1>1, <1>3, <1>6, <2>1 DEF Session!EnterAuth
    <2>3. Arrives(t, b, p, c) /\ p.checked /\ TabLearns(t, p.tab, DOMAIN p.reqs, c)
      BY <1>4, <2>1, EnterUserArrives
    <2>4. Keeps(DOMAIN s.reqs, DOMAIN p.reqs, t)
      BY <1>5, <2>3, KeepsTwice DEF Arrives
    <2> QED
      BY <1>2, <1>4, <2>2, <2>3, <2>4 DEF Arrives
  <1>7. CASE s.tab.user = None
    <2> DEFINE p == [b EXCEPT !.tab.checking = TRUE]
    <2>1. Session!EnterAuth(t, s, pg, c) = p
      BY <1>1, <1>3, <1>7 DEF Session!EnterAuth
    <2>2. /\ p.reqs = b.reqs /\ p.missed = b.missed /\ p.checked = b.checked
          /\ p.tab.page = b.tab.page /\ p.tab.user = b.tab.user /\ p.tab.busy = b.tab.busy /\ p.tab.checking = TRUE
          /\ StepTyped(p)
      BY <1>4 DEF StepTyped, Session!TabState
    <2> HIDE DEF p
    <2>3. q \in OfTab(Mounted(DOMAIN p.reqs), t, {"entry"}) /\ q \in OfTab(DOMAIN p.reqs, t, {"entry"}) /\ q.cookie = c
      BY <1>4, <2>2 DEF OfTab, Mounted, Also
    <2>4. TabWaits(t, p.tab, DOMAIN p.reqs)
      BY <1>2, <1>4, <1>7, <2>2, <2>3 DEF TabWaits, Session!AuthPages, Session!Forms
    <2>5. TabLearns(t, p.tab, DOMAIN p.reqs, c)
      BY <1>2, <1>4, <1>7, <2>2, <2>3 DEF TabLearns
    <2> QED
      BY <1>2, <1>4, <1>5, <2>1, <2>2, <2>4, <2>5 DEF Arrives
  <1> QED
    BY <1>6, <1>7

\* navigate(), to the pages of a user and to those before them.
LEMMA GoesToUser ==
  ASSUME NEW t \in Tab, NEW s, StepTyped(s), NEW c \in Users,
         s.tab.page = "user" => TabWaits(t, s.tab, DOMAIN s.reqs)
  PROVE  Arrives(t, s, Session!Goes(t, s, "user", c), c)
  <1>1. CASE s.tab.page = "user"
    <2>1. Session!Goes(t, s, "user", c) = s
      BY <1>1 DEF Session!Goes
    <2>2. Keeps(DOMAIN s.reqs, DOMAIN s.reqs, t)
      BY DEF Keeps
    <2>3. s.checked \in BOOLEAN
      BY DEF StepTyped
    <2> QED
      BY <1>1, <2>1, <2>2, <2>3 DEF Arrives
  <1>2. CASE s.tab.page # "user"
    <2>1. Session!Goes(t, s, "user", c) = Session!EnterUser(t, s, c)
      BY <1>2 DEF Session!Goes
    <2> QED
      BY <2>1, EnterUserArrives
  <1> QED
    BY <1>1, <1>2

LEMMA GoesToAuth ==
  ASSUME NEW t \in Tab, NEW s, StepTyped(s), NEW c \in Users, NEW pg \in Session!AuthPages,
         s.tab.page \in Session!AuthPages =>
             /\ s.tab.user = None
             /\ s.tab.checking => OfTab(Mounted(DOMAIN s.reqs), t, {"entry"}) # {}
  PROVE  /\ Arrives(t, s, Session!Goes(t, s, pg, c), c)
         /\ s.tab.page \notin Session!AuthPages => Session!Goes(t, s, pg, c).checked
  <1>0. pg # "user"
    BY DEF Session!AuthPages, Session!Forms
  <1>1. CASE s.tab.page \in Session!AuthPages
    <2>1. PICK p : p = Session!EnterPage(t, s, pg, c, {"entry"})
      OBVIOUS
    <2>2. Session!Goes(t, s, pg, c) = p
      BY <1>0, <1>1, <2>1 DEF Session!Goes
    <2>3. /\ StepTyped(p) /\ p.missed = s.missed /\ p.checked = s.checked
          /\ p.tab.page = pg /\ p.tab.user = s.tab.user /\ p.tab.checking = s.tab.checking /\ p.tab.busy = FALSE
          /\ Keeps(DOMAIN s.reqs, DOMAIN p.reqs, t)
          /\ OfTab(Mounted(DOMAIN s.reqs), t, {"entry"}) # {} => OfTab(Mounted(DOMAIN p.reqs), t, {"entry"}) # {}
      <3>1. EntersTo(p, s, t, pg, {"entry"})
        BY <2>1, EnterPageIs
      <3> QED
        BY <3>1 DEF EntersTo
    <2>4. TabWaits(t, p.tab, DOMAIN p.reqs)
      BY <1>0, <1>1, <2>3 DEF TabWaits
    <2>5. TabLearns(t, s.tab, DOMAIN s.reqs, c) => TabLearns(t, p.tab, DOMAIN p.reqs, c)
      <3>1. s.tab.page # "home"
        BY <1>1 DEF Session!AuthPages, Session!Forms
      <3>2. OfTab(DOMAIN s.reqs, t, {"check"}) # {} => OfTab(DOMAIN p.reqs, t, {"check"}) # {}
        BY <2>3 DEF Keeps
      <3>3. \A q \in OfTab(DOMAIN s.reqs, t, {"entry"}) : \E m \in OfTab(DOMAIN p.reqs, t, {"entry"}) : m.cookie = q.cookie
        BY <2>3 DEF Keeps
      <3>4. (\E q \in OfTab(DOMAIN s.reqs, t, {"entry"}) : q.cookie = c)
                => \E q \in OfTab(DOMAIN p.reqs, t, {"entry"}) : q.cookie = c
        BY <3>3
      <3> QED
        BY <1>1, <2>3, <3>1, <3>2, <3>4 DEF TabLearns
    <2>6. p.checked \in BOOLEAN
      BY <2>3 DEF StepTyped
    <2> QED
      BY <1>1, <2>2, <2>3, <2>4, <2>5, <2>6 DEF Arrives
  <1>2. CASE s.tab.page \notin Session!AuthPages
    <2>1. Session!Goes(t, s, pg, c) = Session!EnterAuth(t, s, pg, c)
      BY <1>0, <1>2 DEF Session!Goes
    <2> QED
      BY <2>1, EnterAuthArrives
  <1> QED
    BY <1>1, <1>2

\* A page load starts from localStorage, without requests.
LEMMA LoadsIs ==
  ASSUME SessionTyped, NEW t \in Tab, NEW pg \in AllPages, NEW c \in Users, NEW u \in Users
  PROVE  LET p == Session!Loads(t, pg, c, u)
         IN /\ StepTyped(p) /\ ~p.missed /\ p.tab.user = u
            /\ Rest(DOMAIN p.reqs, t) = Rest(DOMAIN requests, t)
            /\ LoginsNamed(DOMAIN requests) => LoginsNamed(DOMAIN p.reqs)
            /\ TabWaits(t, p.tab, DOMAIN p.reqs)
            /\ TabLearns(t, p.tab, DOMAIN p.reqs, c)
  <1>1. PICK s : s = [tab |-> [page |-> "home", user |-> u, checking |-> FALSE, busy |-> FALSE,
                               done |-> FALSE, redirect |-> FALSE, asked |-> FALSE],
                      checked |-> FALSE, missed |-> FALSE,
                      reqs |-> [q \in {q \in DOMAIN requests : q.tab # t} |-> requests[q]]]
    OBVIOUS
  <1>2. DOMAIN s.reqs = Rest(DOMAIN requests, t)
    BY <1>1 DEF Rest
  <1>3. s.tab \in Session!TabState /\ s.tab.page = "home" /\ s.tab.user = u /\ ~s.checked /\ ~s.missed
        /\ ~s.tab.checking /\ ~s.tab.busy
    BY <1>1 DEF Session!TabState, Users
  <1>4. s \in [tab : Session!TabState, reqs : {s.reqs}, checked : BOOLEAN, missed : BOOLEAN]
    BY <1>1, <1>3
  <1>5. StepTyped(s)
    BY <1>2, <1>4 DEF StepTyped, Rest, SessionTyped
  <1>6. Rest(DOMAIN s.reqs, t) = Rest(DOMAIN requests, t) /\ (LoginsNamed(DOMAIN requests) => LoginsNamed(DOMAIN s.reqs))
    BY <1>2 DEF Rest, LoginsNamed
  <1>7. TabWaits(t, s.tab, DOMAIN s.reqs) /\ TabLearns(t, s.tab, DOMAIN s.reqs, c)
    BY <1>3 DEF TabWaits, TabLearns, Session!AuthPages, Session!Forms
  <1>8. Session!Loads(t, pg, c, u) = IF pg = "home" THEN s ELSE Session!Goes(t, s, pg, c)
    BY <1>1 DEF Session!Loads, Session!Sent, Session!BagToSet
  <1>9. CASE pg = "home"
    BY <1>3, <1>5, <1>6, <1>7, <1>8, <1>9
  <1>10. CASE pg # "home"
    <2>1. PICK p : p = Session!Goes(t, s, pg, c)
      OBVIOUS
    <2>2. Arrives(t, s, p, c)
      <3>1. CASE pg = "user"
        BY <1>5, <1>7, <2>1, <3>1, GoesToUser
      <3>2. CASE pg # "user"
        <4>1. pg \in Session!AuthPages /\ s.tab.page \notin Session!AuthPages
          BY <1>3, <1>10, <3>2 DEF AllPages, Session!AuthPages, Session!Forms
        <4> QED
          BY <1>5, <2>1, <4>1, GoesToAuth
      <3> QED
        BY <3>1, <3>2
    <2>3. Session!Loads(t, pg, c, u) = p
      BY <1>8, <1>10, <2>1
    <2> QED
      BY <1>3, <1>6, <1>7, <2>2, <2>3 DEF Arrives, Keeps
  <1> QED
    BY <1>9, <1>10

\* What a tab becomes.
LEMMA BecomesKeeps ==
  ASSUME SessionInv, NEW t \in Tab, NEW s, StepTyped(s), NEW c \in Users, NEW u \in Users,
         Session!Becomes(t, s, c, u),
         Rest(DOMAIN s.reqs, t) = Rest(DOMAIN requests, t), LoginsNamed(DOMAIN s.reqs),
         TabWaits(t, s.tab, DOMAIN s.reqs),
         s.checked \/ (t \notin moved /\ ~s.missed) => TabLearns(t, s.tab, DOMAIN s.reqs, c),
         \/ writer' = t /\ u = s.tab.user
         \/ writer' = writer /\ u = stored /\ (t = writer => s.tab.user = stored)
  PROVE  SessionInv'
  <1> DEFINE R == DOMAIN requests
             R2 == DOMAIN s.reqs
             hasCrossed == \E q \in R2 : q.tab = t /\ q.kind = "check" /\ q.cookie # c
             others == IF c # cookie THEN Tab \ {t} ELSE {}
  <1>1. /\ tabs' = [tabs EXCEPT ![t] = s.tab] /\ requests' = s.reqs
        /\ cookie' = c /\ stored' = u
        /\ moved' = (moved \cup others \cup (IF hasCrossed \/ s.missed THEN {t} ELSE {}))
                      \ (IF s.checked /\ ~hasCrossed THEN {t} ELSE {})
    BY DEF Session!Becomes, Session!BagToSet
  <1>2. DOMAIN requests' = R2
    BY <1>1
  <1>3. tabs' \in [Tab -> Session!TabState] /\ tabs'[t] = s.tab /\ \A o \in Tab \ {t} : tabs'[o] = tabs[o]
    BY <1>1 DEF SessionInv, SessionTyped, StepTyped
  <1>4. ASSUME NEW o \in Tab \ {t} PROVE {q \in R2 : q.tab = o} = {q \in R : q.tab = o}
    BY DEF Rest
  <1>5. ASSUME NEW o \in Tab \ {t}, NEW kinds
        PROVE  OfTab(R2, o, kinds) = OfTab(R, o, kinds) /\ OfTab(Mounted(R2), o, kinds) = OfTab(Mounted(R), o, kinds)
    BY <1>4 DEF OfTab, Mounted
  <1>6. moved' \subseteq Tab /\ writer' \in Tab
    BY <1>1 DEF SessionInv, SessionTyped
  <1>7. SessionTyped'
    BY <1>1, <1>2, <1>3, <1>6 DEF SessionTyped, StepTyped, Users
  <1>8. ASSUME NEW o \in Tab PROVE TabWaits(o, tabs'[o], R2)
    <2>1. CASE o = t
      BY <1>3, <2>1
    <2>2. CASE o # t
      <3>1. TabWaits(o, tabs[o], R) /\ tabs'[o] = tabs[o]
        BY <1>3, <2>2 DEF SessionInv
      <3> QED
        BY <1>5, <2>2, <3>1 DEF TabWaits
    <2> QED
      BY <2>1, <2>2
  <1>9. ASSUME NEW o \in Tab \ moved'
        PROVE  TabLearns(o, tabs'[o], R2, c) /\ \A q \in OfTab(R2, o, {"check"}) : q.cookie = c
    <2>1. CASE o = t
      <3>1. ~hasCrossed /\ (s.checked \/ (t \notin moved /\ ~s.missed))
        BY <1>1, <1>9, <2>1
      <3>2. \A q \in OfTab(R2, t, {"check"}) : q.cookie = c
        BY <3>1 DEF OfTab
      <3> QED
        BY <1>3, <2>1, <3>1, <3>2
    <2>2. CASE o # t
      <3>1. o \notin moved /\ c = cookie
        BY <1>1, <1>9, <2>2
      <3>2. TabLearns(o, tabs[o], R, cookie) /\ \A q \in OfTab(R, o, {"check"}) : q.cookie = cookie
        BY <3>1 DEF SessionInv
      <3> QED
        BY <1>3, <1>5, <2>2, <3>1, <3>2 DEF TabLearns
    <2> QED
      BY <2>1, <2>2
  <1>10. stored' = tabs'[writer'].user
    <2>1. CASE writer' = t
      BY <1>1, <1>3, <2>1
    <2>2. CASE writer' # t
      BY <1>1, <1>3, <2>2 DEF SessionInv, SessionTyped
    <2> QED
      BY <2>1, <2>2
  <1>11. \A q \in DOMAIN requests' : q.kind = "login" => q.user # None
    BY <1>2 DEF LoginsNamed
  <1> QED
    BY <1>1, <1>2, <1>7, <1>8, <1>9, <1>10, <1>11 DEF SessionInv


\* What a step begins with: the tab as it is, or without the request that is answered.
From(t, s) ==
    /\ StepTyped(s) /\ ~s.checked
    /\ Rest(DOMAIN s.reqs, t) = Rest(DOMAIN requests, t) /\ LoginsNamed(DOMAIN s.reqs)

Removed(R2, R, q) == R2 \subseteq R /\ R \ {q} \subseteq R2

\* A step in which the tab stays where it is, or goes somewhere.
WritesBack(t, user, u) ==
    \/ writer' = t /\ u = user
    \/ writer' = writer /\ u = stored /\ (t = writer => user = stored)

Knows(t, s, c) ==
    /\ TabWaits(t, s.tab, DOMAIN s.reqs)
    /\ t \notin moved /\ ~s.missed => TabLearns(t, s.tab, DOMAIN s.reqs, c)

LEMMA StayKeeps ==
  ASSUME SessionInv, NEW t \in Tab, NEW s, From(t, s), NEW c \in Users, NEW u \in Users,
         Session!Becomes(t, s, c, u), Knows(t, s, c), WritesBack(t, s.tab.user, u)
  PROVE  SessionInv'
  <1>1. \/ writer' = t /\ u = s.tab.user
        \/ writer' = writer /\ u = stored /\ (t = writer => s.tab.user = stored)
    BY DEF WritesBack
  <1>2. s.checked \/ (t \notin moved /\ ~s.missed) => TabLearns(t, s.tab, DOMAIN s.reqs, c)
    BY DEF From, Knows
  <1>3. /\ StepTyped(s) /\ Rest(DOMAIN s.reqs, t) = Rest(DOMAIN requests, t) /\ LoginsNamed(DOMAIN s.reqs)
        /\ TabWaits(t, s.tab, DOMAIN s.reqs)
    BY DEF From, Knows
  <1> QED
    BY <1>1, <1>2, <1>3, BecomesKeeps

\* From one page to another of the same layout.
Near(from, to) == (from = "user" /\ to = "user") \/ (from \in Session!AuthPages /\ to \in Session!AuthPages)

LEMMA GoesArrives ==
  ASSUME NEW t \in Tab, NEW s, StepTyped(s), NEW c \in Users, NEW pg \in AllPages, pg # "home",
         Near(s.tab.page, pg) => TabWaits(t, s.tab, DOMAIN s.reqs)
  PROVE  /\ Arrives(t, s, Session!Goes(t, s, pg, c), c)
         /\ Near(s.tab.page, pg) \/ Session!Goes(t, s, pg, c).checked
  <1>1. "user" \notin Session!AuthPages
    BY DEF Session!AuthPages, Session!Forms
  <1>2. CASE pg = "user"
    <2>1. s.tab.page = "user" => TabWaits(t, s.tab, DOMAIN s.reqs)
      BY <1>2 DEF Near
    <2>2. Arrives(t, s, Session!Goes(t, s, pg, c), c)
      BY <1>2, <2>1, GoesToUser
    <2>3. CASE s.tab.page = "user"
      BY <1>2, <2>2, <2>3 DEF Near
    <2>4. CASE s.tab.page # "user"
      <3>1. Session!Goes(t, s, pg, c) = Session!EnterUser(t, s, c)
        BY <1>2, <2>4 DEF Session!Goes
      <3>2. Session!EnterUser(t, s, c).checked
        BY EnterUserArrives
      <3> QED
        BY <2>2, <3>1, <3>2
    <2> QED
      BY <2>3, <2>4
  <1>3. CASE pg # "user"
    <2>1. pg \in Session!AuthPages
      BY <1>3 DEF AllPages
    <2>2. s.tab.page \in Session!AuthPages =>
             /\ s.tab.user = None
             /\ s.tab.checking => OfTab(Mounted(DOMAIN s.reqs), t, {"entry"}) # {}
      BY <2>1 DEF Near, TabWaits
    <2>3. /\ Arrives(t, s, Session!Goes(t, s, pg, c), c)
          /\ s.tab.page \notin Session!AuthPages => Session!Goes(t, s, pg, c).checked
      BY <2>1, <2>2, GoesToAuth
    <2> QED
      BY <2>1, <2>3 DEF Near
  <1> QED
    BY <1>2, <1>3

LEMMA GoKeeps ==
  ASSUME SessionInv, NEW t \in Tab, NEW s, From(t, s), NEW c \in Users, NEW u \in Users,
         NEW pg \in AllPages, pg # "home",
         Session!Becomes(t, Session!Goes(t, s, pg, c), c, u),
         Near(s.tab.page, pg) => Knows(t, s, c), WritesBack(t, s.tab.user, u)
  PROVE  SessionInv'
  <1>1. PICK p : p = Session!Goes(t, s, pg, c)
    OBVIOUS
  <1>2. Arrives(t, s, p, c) /\ (Near(s.tab.page, pg) \/ p.checked)
    BY <1>1, GoesArrives DEF From, Knows
  <1>3. /\ StepTyped(p) /\ Rest(DOMAIN p.reqs, t) = Rest(DOMAIN requests, t) /\ LoginsNamed(DOMAIN p.reqs)
        /\ TabWaits(t, p.tab, DOMAIN p.reqs)
    BY <1>2 DEF Arrives, Keeps, From
  <1>4. p.checked \/ (t \notin moved /\ ~p.missed) => TabLearns(t, p.tab, DOMAIN p.reqs, c)
    <2>1. CASE p.checked
      BY <1>2, <2>1 DEF Arrives, From
    <2>2. CASE ~p.checked /\ t \notin moved /\ ~p.missed
      <3>1. TabLearns(t, s.tab, DOMAIN s.reqs, c)
        BY <1>2, <2>2 DEF Arrives, Knows
      <3> QED
        BY <1>2, <3>1 DEF Arrives
    <2> QED
      BY <2>1, <2>2
  <1>5. \/ writer' = t /\ u = p.tab.user
        \/ writer' = writer /\ u = stored /\ (t = writer => p.tab.user = stored)
    BY <1>2 DEF WritesBack, Arrives
  <1>6. Session!Becomes(t, p, c, u)
    BY <1>1
  <1> QED
    BY <1>3, <1>4, <1>5, <1>6, BecomesKeeps

LEMMA LoadKeeps ==
  ASSUME SessionInv, NEW t \in Tab, NEW pg \in AllPages, NEW c \in Users, NEW u \in Users,
         Session!Becomes(t, Session!Loads(t, pg, c, u), c, u),
         WritesBack(t, u, u)
  PROVE  SessionInv'
  <1>1. PICK p : p = Session!Loads(t, pg, c, u)
    OBVIOUS
  <1>2. LoginsNamed(DOMAIN requests) /\ SessionTyped
    BY DEF SessionInv, LoginsNamed
  <1>3. /\ StepTyped(p) /\ ~p.missed /\ p.tab.user = u
        /\ Rest(DOMAIN p.reqs, t) = Rest(DOMAIN requests, t)
        /\ LoginsNamed(DOMAIN p.reqs)
        /\ TabWaits(t, p.tab, DOMAIN p.reqs)
        /\ TabLearns(t, p.tab, DOMAIN p.reqs, c)
    BY <1>1, <1>2, LoadsIs
  <1>4. \/ writer' = t /\ u = p.tab.user
        \/ writer' = writer /\ u = stored /\ (t = writer => p.tab.user = stored)
    BY <1>3 DEF WritesBack
  <1>5. Session!Becomes(t, p, c, u)
    BY <1>1
  <1> QED
    BY <1>3, <1>4, <1>5, BecomesKeeps

StepOf(tab, B, b) == [tab |-> tab, reqs |-> B, checked |-> FALSE, missed |-> b]
Begun(t, s, tab, B, b) == From(t, s) /\ s.tab = tab /\ s.missed = b /\ s.reqs = B

LEMMA BeginsFrom ==
  ASSUME SessionInv, NEW t \in Tab, NEW tab \in Session!TabState, NEW b \in BOOLEAN, NEW B,
         DOMAIN B \subseteq DOMAIN requests, Rest(DOMAIN B, t) = Rest(DOMAIN requests, t)
  PROVE  Begun(t, StepOf(tab, B, b), tab, B, b)
  <1> DEFINE s == [tab |-> tab, reqs |-> B, checked |-> FALSE, missed |-> b]
  <1>1. s.tab = tab /\ s.reqs = B /\ ~s.checked
    OBVIOUS
  <1>2. s.missed = b
    OBVIOUS
  <1>3. s \in [tab : Session!TabState, reqs : {s.reqs}, checked : BOOLEAN, missed : BOOLEAN]
    BY <1>1
  <1>4. DOMAIN requests \subseteq Session!RequestState /\ LoginsNamed(DOMAIN requests)
    BY DEF SessionInv, SessionTyped, LoginsNamed
  <1>5. StepTyped(s)
    BY <1>1, <1>3, <1>4 DEF StepTyped
  <1>6. LoginsNamed(DOMAIN s.reqs)
    BY <1>1, <1>4 DEF LoginsNamed
  <1> QED
    BY <1>1, <1>2, <1>5, <1>6 DEF From, Begun, StepOf

\* The tab as it is, with another state of its page.
NowOf(t, s, tab) == From(t, s) /\ s.tab = tab /\ ~s.missed /\ s.reqs = requests

LEMMA NowIs ==
  ASSUME SessionInv, NEW t \in Tab, NEW tab \in Session!TabState,
         NEW s, s = [Session!Now(t) EXCEPT !.tab = tab]
  PROVE  NowOf(t, s, tab)
  <1>1. s = StepOf(tab, requests, FALSE)
    BY DEF Session!Now, StepOf
  <1>2. Begun(t, StepOf(tab, requests, FALSE), tab, requests, FALSE)
    BY BeginsFrom
  <1>3. Begun(t, s, tab, requests, FALSE)
    BY <1>1, <1>2
  <1> QED
    BY <1>3 DEF Begun, NowOf

AnswerOf(q, s, tab, b) ==
    /\ From(q.tab, s) /\ s.tab = tab /\ s.missed = b
    /\ Removed(DOMAIN s.reqs, DOMAIN requests, q)
    /\ q \in Session!RequestState /\ q.tab \in Tab

LEMMA AnsweredIs ==
  ASSUME SessionInv, NEW q \in DOMAIN requests, NEW tab \in Session!TabState, NEW b \in BOOLEAN,
         NEW s, s = [Session!Without(q) EXCEPT !.tab = tab, !.missed = b]
  PROVE  AnswerOf(q, s, tab, b)
  <1> DEFINE B == Session!BagRemove(requests, q)
  <1>1. DOMAIN B \subseteq DOMAIN requests /\ DOMAIN requests \ {q} \subseteq DOMAIN B
    BY DEF Session!BagRemove
  <1>2. s = StepOf(tab, B, b)
    BY DEF Session!Now, Session!Without, StepOf
  <1> HIDE DEF B
  <1>3. q \in Session!RequestState /\ q.tab \in Tab
    BY DEF Session!RequestState, SessionInv, SessionTyped
  <1>4. Rest(DOMAIN B, q.tab) = Rest(DOMAIN requests, q.tab)
    BY <1>1 DEF Rest
  <1>5. Begun(q.tab, StepOf(tab, B, b), tab, B, b)
    BY <1>1, <1>3, <1>4, BeginsFrom
  <1>6. Begun(q.tab, s, tab, B, b)
    BY <1>2, <1>5
  <1> QED
    BY <1>1, <1>3, <1>6 DEF Removed, Begun, AnswerOf

\* The tab without one of its requests.
LEMMA RemovedKeeps ==
  ASSUME NEW R, NEW R2, NEW q, NEW t, NEW kinds, Removed(R2, R, q)
  PROVE  /\ q.kind \notin kinds /\ OfTab(R, t, kinds) # {} => OfTab(R2, t, kinds) # {}
         /\ (q.kind \notin kinds \/ ~q.mounted) /\ OfTab(Mounted(R), t, kinds) # {} => OfTab(Mounted(R2), t, kinds) # {}
  BY DEF Removed, OfTab, Mounted

Lighter(tab, tab2, q) ==
    /\ tab2.page = tab.page
    /\ tab2.page \in Session!AuthPages => tab2.user = None
    /\ tab2.page = "user" /\ tab2.user = None => tab.user = None /\ q.kind # "check"
    /\ tab2.checking => tab.checking /\ ~(q.kind = "entry" /\ q.mounted)
    /\ tab2.busy => tab.busy /\ ~(q.kind \in Session!Forms \cup {"logout"} /\ q.mounted)

LEMMA LighterWaits ==
  ASSUME NEW R, NEW R2, NEW q, NEW t, NEW tab, NEW tab2, Removed(R2, R, q), TabWaits(t, tab, R), Lighter(tab, tab2, q)
  PROVE  TabWaits(t, tab2, R2)
  <1>1. q.kind # "check" /\ OfTab(R, t, {"check"}) # {} => OfTab(R2, t, {"check"}) # {}
    BY RemovedKeeps
  <1>2. (q.kind # "entry" \/ ~q.mounted) /\ OfTab(Mounted(R), t, {"entry"}) # {} => OfTab(Mounted(R2), t, {"entry"}) # {}
    BY RemovedKeeps
  <1>3. (q.kind \notin Session!Forms \cup {"logout"} \/ ~q.mounted) /\ OfTab(Mounted(R), t, Session!Forms \cup {"logout"}) # {}
            => OfTab(Mounted(R2), t, Session!Forms \cup {"logout"}) # {}
    BY RemovedKeeps
  <1> QED
    BY <1>1, <1>2, <1>3 DEF TabWaits, Lighter

LEMMA RemovedLearns ==
  ASSUME NEW R, NEW R2, NEW q, NEW t, NEW tab, NEW tab2, NEW c, Removed(R2, R, q), TabLearns(t, tab, R, c),
         tab2.page = tab.page, tab2.user = tab.user, q.kind # "check", q.kind = "entry" => q.cookie # c \/ c = None
  PROVE  TabLearns(t, tab2, R2, c)
  <1>1. OfTab(R, t, {"check"}) # {} => OfTab(R2, t, {"check"}) # {}
    BY RemovedKeeps
  <1>2. ASSUME c # None, NEW m \in OfTab(R, t, {"entry"}), m.cookie = c
        PROVE  m \in OfTab(R2, t, {"entry"})
    BY <1>2 DEF OfTab, Removed
  <1> QED
    BY <1>1, <1>2 DEF TabLearns

\* What is known of a tab.
LEMMA OfNow ==
  ASSUME SessionInv, NEW t \in Tab
  PROVE  /\ tabs[t] \in Session!TabState /\ cookie \in Users /\ stored \in Users
         /\ TabWaits(t, tabs[t], DOMAIN requests)
         /\ t \notin moved => TabLearns(t, tabs[t], DOMAIN requests, cookie)
         /\ writer' = writer => WritesBack(t, tabs[t].user, stored)
  BY DEF SessionInv, SessionTyped, WritesBack

\* An answer that leaves the tab on its page.
LEMMA AnswerStays ==
  ASSUME SessionInv, NEW q \in DOMAIN requests, NEW tab \in Session!TabState, NEW b \in BOOLEAN,
         NEW s, s = [Session!Without(q) EXCEPT !.tab = tab, !.missed = b],
         Session!Becomes(q.tab, s, cookie, stored), writer' = writer,
         tab.user = tabs[q.tab].user, Lighter(tabs[q.tab], tab, q), q.kind # "check",
         ~b /\ q.kind = "entry" => q.cookie # cookie \/ cookie = None
  PROVE  SessionInv'
  <1>1. /\ From(q.tab, s) /\ s.tab = tab /\ s.missed = b
        /\ Removed(DOMAIN s.reqs, DOMAIN requests, q)
        /\ q.tab \in Tab
    <2>1. AnswerOf(q, s, tab, b)
      BY AnsweredIs
    <2> QED
      BY <2>1 DEF AnswerOf
  <1>2. /\ tabs[q.tab] \in Session!TabState /\ cookie \in Users /\ stored \in Users
        /\ TabWaits(q.tab, tabs[q.tab], DOMAIN requests)
        /\ q.tab \notin moved => TabLearns(q.tab, tabs[q.tab], DOMAIN requests, cookie)
        /\ WritesBack(q.tab, tabs[q.tab].user, stored)
    BY <1>1, OfNow
  <1>3. TabWaits(q.tab, s.tab, DOMAIN s.reqs)
    BY <1>1, <1>2, LighterWaits
  <1>4. q.tab \notin moved /\ ~s.missed => TabLearns(q.tab, s.tab, DOMAIN s.reqs, cookie)
    <2>1. tab.page = tabs[q.tab].page
      BY DEF Lighter
    <2> QED
      BY <1>1, <1>2, <2>1, RemovedLearns
  <1>5. Knows(q.tab, s, cookie) /\ WritesBack(q.tab, s.tab.user, stored)
    BY <1>1, <1>2, <1>3, <1>4 DEF Knows
  <1> QED
    BY <1>1, <1>2, <1>5, StayKeeps

\* The page of a tab whose request is answered.
Answered(tab, q) ==
    /\ tab.page = tabs[q.tab].page
    /\ tab.checking => tabs[q.tab].checking
    /\ tab.busy => tabs[q.tab].busy /\ ~(q.kind \in Session!Forms \cup {"logout"} /\ q.mounted)

\* An answer that signs a user in.
LEMMA AnswerSignsIn ==
  ASSUME SessionInv, NEW q \in DOMAIN requests, NEW tab \in Session!TabState, NEW b \in BOOLEAN,
         NEW s, s = [Session!Without(q) EXCEPT !.tab = tab, !.missed = b],
         NEW u \in Users, u # None, NEW c \in Users,
         Session!Becomes(q.tab, Session!SignedIn(q.tab, s, u, c), c, u), writer' = q.tab,
         Answered(tab, q), q.kind # "entry", q.tab \notin moved /\ ~b => u = c
  PROVE  SessionInv'
  <1>1. PICK tab2 \in Session!TabState : tab2 = [tab EXCEPT !.user = u]
    BY TabAfter
  <1>2. tab2.user = u /\ tab2.page = tab.page /\ tab2.checking = tab.checking /\ tab2.busy = tab.busy /\ tab2.asked = tab.asked
    BY <1>1 DEF Session!TabState
  <1>3. PICK in : in = [Session!Without(q) EXCEPT !.tab = tab2, !.missed = b]
    OBVIOUS
  <1>4. /\ From(q.tab, in) /\ in.tab = tab2 /\ in.missed = b
        /\ q.tab \in Tab
    <2>1. AnswerOf(q, in, tab2, b)
      BY <1>3, AnsweredIs
    <2> QED
      BY <2>1 DEF AnswerOf
  <1>5. in = [s EXCEPT !.tab.user = u] /\ s.tab = tab
    BY <1>1, <1>3 DEF Session!Without, Session!Now
  <1>6. TabWaits(q.tab, tabs[q.tab], DOMAIN requests)
    BY <1>4, OfNow
  <1>7. CASE tab.page = "user"
    <2>1. PICK d \in BOOLEAN : d = (tab.asked \/ (tab.user = None /\ c = None))
      OBVIOUS
    <2>2. PICK tab3 \in Session!TabState : tab3 = [tab2 EXCEPT !.asked = d]
      BY <2>1, FlagAfter
    <2>3. tab3.user = u /\ tab3.page = tab.page /\ tab3.checking = tab.checking /\ tab3.busy = tab.busy
      BY <1>2, <2>2 DEF Session!TabState
    <2>4. PICK p : p = [Session!Without(q) EXCEPT !.tab = tab3, !.missed = b]
      OBVIOUS
    <2>5. p = [in EXCEPT !.tab.asked = d]
      BY <1>3, <2>2, <2>4 DEF Session!Without, Session!Now
    <2>6. Session!SignedIn(q.tab, s, u, c) = [in EXCEPT !.tab.asked = in.tab.asked \/ (s.tab.user = None /\ c = None)]
      BY <1>5, <1>7 DEF Session!SignedIn
    <2>7. Session!SignedIn(q.tab, s, u, c) = p
      BY <1>2, <1>4, <1>5, <2>1, <2>5, <2>6
    <2>8. /\ From(q.tab, p) /\ p.tab = tab3 /\ p.missed = b
          /\ Removed(DOMAIN p.reqs, DOMAIN requests, q)
      <3>1. AnswerOf(q, p, tab3, b)
        BY <2>4, AnsweredIs
      <3> QED
        BY <3>1 DEF AnswerOf
    <2>9. Lighter(tabs[q.tab], tab3, q)
      BY <1>7, <2>3 DEF Lighter, Answered, Session!AuthPages, Session!Forms
    <2>10. TabWaits(q.tab, p.tab, DOMAIN p.reqs)
      BY <1>6, <2>8, <2>9, LighterWaits
    <2>11. q.tab \notin moved /\ ~p.missed => TabLearns(q.tab, p.tab, DOMAIN p.reqs, c)
      BY <2>3, <2>8 DEF TabLearns
    <2>12. Knows(q.tab, p, c) /\ WritesBack(q.tab, p.tab.user, u) /\ Session!Becomes(q.tab, p, c, u)
      BY <2>3, <2>7, <2>8, <2>10, <2>11 DEF Knows, WritesBack
    <2> QED
      BY <1>4, <2>8, <2>12, StayKeeps
  <1>8. CASE tab.page # "user"
    <2>1. Session!SignedIn(q.tab, s, u, c) = Session!Goes(q.tab, in, "user", c)
      BY <1>5, <1>8 DEF Session!SignedIn
    <2>2. ~Near(in.tab.page, "user")
      BY <1>2, <1>4, <1>8 DEF Near, Session!AuthPages, Session!Forms
    <2>3. WritesBack(q.tab, in.tab.user, u) /\ Session!Becomes(q.tab, Session!Goes(q.tab, in, "user", c), c, u)
      BY <1>2, <1>4, <2>1 DEF WritesBack
    <2>4. "user" \in AllPages
      BY DEF AllPages
    <2> QED
      BY <1>4, <2>2, <2>3, <2>4, GoKeeps
  <1> QED
    BY <1>7, <1>8

\* An answer that signs the user out.
LEMMA AnswerSignsOut ==
  ASSUME SessionInv, NEW q \in DOMAIN requests, NEW tab \in Session!TabState, NEW b \in BOOLEAN,
         NEW s, s = [Session!Without(q) EXCEPT !.tab = tab, !.missed = b],
         NEW c \in Users,
         Session!Becomes(q.tab, Session!SignedOut(q.tab, s, c), c, None), writer' = q.tab,
         Answered(tab, q), q.kind # "entry",
         q.tab \notin moved /\ ~b => c = None \/ (c = cookie /\ q.kind # "check")
  PROVE  SessionInv'
  <1>0. None \in Users /\ "login" \in AllPages /\ "login" \in Session!AuthPages
    BY DEF Users, AllPages, Session!AuthPages, Session!Forms
  <1>1. PICK tab2 \in Session!TabState : tab2 = [tab EXCEPT !.user = None]
    BY <1>0, TabAfter
  <1>2. tab2.user = None /\ tab2.page = tab.page /\ tab2.checking = tab.checking /\ tab2.busy = tab.busy
    BY <1>1 DEF Session!TabState
  <1>3. PICK in : in = [Session!Without(q) EXCEPT !.tab = tab2, !.missed = b]
    OBVIOUS
  <1>4. /\ From(q.tab, in) /\ in.tab = tab2 /\ in.missed = b
        /\ Removed(DOMAIN in.reqs, DOMAIN requests, q)
        /\ q.tab \in Tab
    <2>1. AnswerOf(q, in, tab2, b)
      BY <1>3, AnsweredIs
    <2> QED
      BY <2>1 DEF AnswerOf
  <1>5. in = [s EXCEPT !.tab.user = None]
    BY <1>1, <1>3 DEF Session!Without, Session!Now
  <1>6. Session!SignedOut(q.tab, s, c) = Session!Goes(q.tab, in, "login", c)
    BY <1>5 DEF Session!SignedOut
  <1>7. /\ TabWaits(q.tab, tabs[q.tab], DOMAIN requests)
        /\ q.tab \notin moved => TabLearns(q.tab, tabs[q.tab], DOMAIN requests, cookie)
    BY <1>4, OfNow
  <1>8. ASSUME Near(in.tab.page, "login") PROVE Knows(q.tab, in, c)
    <2>1. tab.page \in Session!AuthPages /\ tab2.page = tabs[q.tab].page
      BY <1>2, <1>4, <1>8 DEF Near, Answered
    <2>2. tabs[q.tab].user = None /\ tab.page # "user"
      BY <1>7, <2>1, <1>2 DEF TabWaits, Session!AuthPages, Session!Forms
    <2>3. Lighter(tabs[q.tab], tab2, q)
      BY <1>2, <2>1, <2>2 DEF Lighter, Answered
    <2>4. TabWaits(q.tab, in.tab, DOMAIN in.reqs)
      BY <1>4, <1>7, <2>3, LighterWaits
    <2>5. ASSUME q.tab \notin moved, ~in.missed PROVE TabLearns(q.tab, in.tab, DOMAIN in.reqs, c)
      <3>1. CASE c = None
        BY <1>2, <1>4, <3>1 DEF TabLearns
      <3>2. CASE c # None
        <4>1. c = cookie /\ q.kind # "check"
          BY <1>4, <2>5, <3>2
        <4>2. TabLearns(q.tab, tabs[q.tab], DOMAIN requests, c)
          BY <1>7, <2>5, <4>1
        <4> QED
          BY <1>2, <1>4, <2>1, <2>2, <4>1, <4>2, RemovedLearns
      <3> QED
        BY <3>1, <3>2
    <2> QED
      BY <2>4, <2>5 DEF Knows
  <1>9. WritesBack(q.tab, in.tab.user, None) /\ Session!Becomes(q.tab, Session!Goes(q.tab, in, "login", c), c, None)
    BY <1>2, <1>4, <1>6 DEF WritesBack
  <1> QED
    BY <1>0, <1>4, <1>8, <1>9, GoKeeps

\* An answer after which the tab goes elsewhere.
LEMMA AnswerGoes ==
  ASSUME SessionInv, NEW q \in DOMAIN requests, NEW tab \in Session!TabState, NEW b \in BOOLEAN,
         NEW s, s = [Session!Without(q) EXCEPT !.tab = tab, !.missed = b],
         NEW pg \in AllPages, pg # "home",
         Session!Becomes(q.tab, Session!Goes(q.tab, s, pg, cookie), cookie, stored), writer' = writer,
         tab.user = tabs[q.tab].user, Answered(tab, q), q.kind # "check",
         q.kind = "entry" => pg = "user"
  PROVE  SessionInv'
  <1>1. /\ From(q.tab, s) /\ s.tab = tab /\ s.missed = b
        /\ Removed(DOMAIN s.reqs, DOMAIN requests, q)
        /\ q.tab \in Tab
    <2>1. AnswerOf(q, s, tab, b)
      BY AnsweredIs
    <2> QED
      BY <2>1 DEF AnswerOf
  <1>2. /\ tabs[q.tab] \in Session!TabState /\ cookie \in Users /\ stored \in Users
        /\ TabWaits(q.tab, tabs[q.tab], DOMAIN requests)
        /\ q.tab \notin moved => TabLearns(q.tab, tabs[q.tab], DOMAIN requests, cookie)
        /\ WritesBack(q.tab, tabs[q.tab].user, stored)
    BY <1>1, OfNow
  <1>3. ASSUME Near(s.tab.page, pg) PROVE Knows(q.tab, s, cookie)
    <2>1. tab.page = tabs[q.tab].page /\ (q.kind = "entry" => tab.page = "user")
      BY <1>1, <1>3 DEF Near, Answered, Session!AuthPages, Session!Forms
    <2>2. "user" \notin Session!AuthPages
      BY DEF Session!AuthPages, Session!Forms
    <2>3. Lighter(tabs[q.tab], tab, q)
      BY <1>2, <2>1, <2>2 DEF Lighter, Answered, TabWaits
    <2>4. TabWaits(q.tab, s.tab, DOMAIN s.reqs)
      BY <1>1, <1>2, <2>3, LighterWaits
    <2>5. ASSUME q.tab \notin moved PROVE TabLearns(q.tab, s.tab, DOMAIN s.reqs, cookie)
      <3>1. TabLearns(q.tab, tabs[q.tab], DOMAIN requests, cookie)
        BY <1>2, <2>5
      <3>2. CASE q.kind # "entry"
        BY <1>1, <2>1, <3>1, <3>2, RemovedLearns
      <3>3. CASE q.kind = "entry"
        <4>1. OfTab(DOMAIN requests, q.tab, {"check"}) # {} => OfTab(DOMAIN s.reqs, q.tab, {"check"}) # {}
          <5>1. Removed(DOMAIN s.reqs, DOMAIN requests, q) /\ q.kind \notin {"check"}
            BY <1>1, <3>3
          <5> QED
            BY <5>1, RemovedKeeps
        <4> QED
          BY <1>1, <2>1, <2>2, <3>1, <3>3, <4>1 DEF TabLearns
      <3> QED
        BY <3>2, <3>3
    <2> QED
      BY <2>4, <2>5 DEF Knows
  <1> QED
    BY <1>1, <1>2, <1>3, GoKeeps

LEMMA ExpireKeeps ==
  ASSUME SessionInv, Session!Expire
  PROVE  SessionInv'
  <1>1. cookie' = None /\ moved' = Tab /\ UNCHANGED <<stored, tabs, requests, writer>>
    BY DEF Session!Expire
  <1>2. SessionTyped' /\ Tab \ moved' = {}
    BY <1>1 DEF SessionInv, SessionTyped, Users
  <1>3. \A q \in DOMAIN requests' : q.kind = "login" => q.user # None
    BY <1>1 DEF SessionInv
  <1>4. \A t \in Tab : TabWaits(t, tabs'[t], DOMAIN requests')
    BY <1>1 DEF SessionInv
  <1>5. stored' = tabs'[writer'].user
    BY <1>1 DEF SessionInv
  <1> QED
    BY <1>2, <1>3, <1>4, <1>5 DEF SessionInv

LEMMA AskKeeps ==
  ASSUME SessionInv, NEW t \in Tab, Session!Ask(t)
  PROVE  SessionInv'
  <1>2. tabs[t] \in Session!TabState /\ tabs \in [Tab -> Session!TabState]
    BY DEF SessionInv, SessionTyped
  <1>3. PICK tab \in Session!TabState : tab = [tabs[t] EXCEPT !.asked = TRUE]
    BY <1>2, FlagAfter
  <1>1. tabs' = [tabs EXCEPT ![t] = tab] /\ UNCHANGED <<cookie, stored, requests, moved, writer>>
    BY <1>3 DEF Session!Ask
  <1>4. tab.page = tabs[t].page /\ tab.user = tabs[t].user /\ tab.checking = tabs[t].checking /\ tab.busy = tabs[t].busy
    BY <1>2, <1>3 DEF Session!TabState
  <1>5. tabs' \in [Tab -> Session!TabState] /\ tabs'[t] = tab /\ \A o \in Tab \ {t} : tabs'[o] = tabs[o]
    BY <1>1, <1>2, <1>3
  <1>6. SessionTyped'
    BY <1>1, <1>5 DEF SessionInv, SessionTyped
  <1>7. ASSUME NEW o \in Tab
        PROVE  /\ tabs'[o].page = tabs[o].page /\ tabs'[o].user = tabs[o].user
               /\ tabs'[o].checking = tabs[o].checking /\ tabs'[o].busy = tabs[o].busy
    BY <1>4, <1>5
  <1>8. \A q \in DOMAIN requests' : q.kind = "login" => q.user # None
    BY <1>1 DEF SessionInv
  <1>9. \A o \in Tab : TabWaits(o, tabs'[o], DOMAIN requests')
    BY <1>1, <1>7 DEF SessionInv, TabWaits
  <1>10. \A o \in Tab \ moved' :
            /\ TabLearns(o, tabs'[o], DOMAIN requests', cookie')
            /\ \A q \in OfTab(DOMAIN requests', o, {"check"}) : q.cookie = cookie'
    BY <1>1, <1>7 DEF SessionInv, TabLearns
  <1>11. stored' = tabs'[writer'].user
    <2>1. writer \in Tab /\ stored = tabs[writer].user
      BY DEF SessionInv, SessionTyped
    <2> QED
      BY <1>1, <1>7, <2>1
  <1> QED
    BY <1>6, <1>8, <1>9, <1>10, <1>11 DEF SessionInv

LEMMA OpenKeeps ==
  ASSUME SessionInv, NEW t \in Tab, NEW pg \in AllPages, NEW c \in Users,
         Session!Becomes(t, Session!Loads(t, pg, c, stored), c, stored), writer' = writer
  PROVE  SessionInv'
  <1>1. stored \in Users /\ WritesBack(t, stored, stored)
    BY OfNow DEF WritesBack
  <1> QED
    BY <1>1, LoadKeeps

\* A tab goes from where it is.
LEMMA LeaveKeeps ==
  ASSUME SessionInv, NEW t \in Tab, NEW tab \in Session!TabState,
         NEW s, s = [Session!Now(t) EXCEPT !.tab = tab], NEW pg \in AllPages, pg # "home",
         Session!Becomes(t, Session!Goes(t, s, pg, cookie), cookie, stored), writer' = writer,
         tab.page = tabs[t].page, tab.user = tabs[t].user, tab.checking = tabs[t].checking, tab.busy = tabs[t].busy
  PROVE  SessionInv'
  <1>1. From(t, s) /\ s.tab = tab /\ ~s.missed /\ s.reqs = requests
    <2>1. NowOf(t, s, tab)
      BY NowIs
    <2> QED
      BY <2>1 DEF NowOf
  <1>2. /\ cookie \in Users /\ stored \in Users
        /\ TabWaits(t, tabs[t], DOMAIN requests)
        /\ t \notin moved => TabLearns(t, tabs[t], DOMAIN requests, cookie)
        /\ WritesBack(t, tabs[t].user, stored)
    BY OfNow
  <1>3. Knows(t, s, cookie)
    <2>1. TabWaits(t, s.tab, DOMAIN s.reqs)
      BY <1>1, <1>2 DEF TabWaits
    <2>2. t \notin moved => TabLearns(t, s.tab, DOMAIN s.reqs, cookie)
      BY <1>1, <1>2 DEF TabLearns
    <2> QED
      BY <2>1, <2>2 DEF Knows
  <1> QED
    BY <1>1, <1>2, <1>3, GoKeeps

LEMMA NowAsIs ==
  ASSUME SessionInv, NEW t \in Tab
  PROVE  Session!Now(t) = [Session!Now(t) EXCEPT !.tab = tabs[t]]
  <1>1. Session!Now(t) = StepOf(tabs[t], requests, FALSE)
    BY DEF Session!Now, StepOf
  <1>2. PICK s : s = [Session!Now(t) EXCEPT !.tab = tabs[t]]
    OBVIOUS
  <1>3. s = StepOf(tabs[t], requests, FALSE)
    BY <1>2 DEF Session!Now, StepOf
  <1> QED
    BY <1>1, <1>2, <1>3

\* A form is sent, or a user signs out.
LEMMA SubmitKeeps ==
  ASSUME SessionInv, NEW t \in Tab, NEW kind \in Session!Forms \cup {"logout"}, NEW u \in Users,
         kind = "login" => u # None,
         Session!Becomes(t, Session!Sends(t, [Session!Now(t) EXCEPT !.tab.busy = TRUE], kind, cookie, u), cookie, stored),
         writer' = writer
  PROVE  SessionInv'
  <1>1. PICK s : s = [Session!Now(t) EXCEPT !.tab.busy = TRUE]
    OBVIOUS
  <1>2. /\ tabs[t] \in Session!TabState /\ cookie \in Users /\ stored \in Users
        /\ TabWaits(t, tabs[t], DOMAIN requests)
        /\ t \notin moved => TabLearns(t, tabs[t], DOMAIN requests, cookie)
        /\ WritesBack(t, tabs[t].user, stored)
    BY OfNow
  <1>3. PICK tab \in Session!TabState : tab = [tabs[t] EXCEPT !.busy = TRUE]
    BY <1>2, FlagAfter
  <1>4. tab.page = tabs[t].page /\ tab.user = tabs[t].user /\ tab.checking = tabs[t].checking
    BY <1>2, <1>3 DEF Session!TabState
  <1>5. From(t, s) /\ s.tab = tab /\ ~s.missed /\ s.reqs = requests
    <2>1. s = [Session!Now(t) EXCEPT !.tab = tab]
      BY <1>1, <1>3 DEF Session!Now
    <2>2. NowOf(t, s, tab)
      BY <2>1, NowIs
    <2> QED
      BY <2>2 DEF NowOf
  <1>6. PICK q : q = [kind |-> kind, tab |-> t, cookie |-> cookie, user |-> u, mounted |-> TRUE]
    OBVIOUS
  <1>7. PICK p : p = Session!Sends(t, s, kind, cookie, u)
    OBVIOUS
  <1>8. kind \in Kinds /\ kind \notin {"entry", "check"}
    BY DEF Kinds, Session!Forms
  <1>9. SendsTo(p, s, q)
    <2>1. StepTyped(s)
      BY <1>5 DEF From
    <2> QED
      BY <1>2, <1>6, <1>7, <1>8, <2>1, SendsIs
  <1>10. q.kind = kind /\ q.tab = t /\ q.user = u /\ q.mounted
    BY <1>6
  <1>11. /\ StepTyped(p) /\ p.tab = tab /\ ~p.missed /\ ~p.checked
         /\ DOMAIN p.reqs = Also(DOMAIN requests, q)
    BY <1>5, <1>8, <1>9, <1>10 DEF SendsTo, From
  <1>12. Keeps(DOMAIN requests, DOMAIN p.reqs, t)
    BY <1>10, <1>11, SentKeeps
  <1>13. From(t, p)
    <2>1. LoginsNamed(DOMAIN requests)
      BY DEF SessionInv, LoginsNamed
    <2> QED
      BY <1>11, <1>12, <2>1 DEF From, Keeps
  <1>14. q \in OfTab(Mounted(DOMAIN p.reqs), t, Session!Forms \cup {"logout"})
    BY <1>10, <1>11 DEF OfTab, Mounted, Also
  <1>15. /\ OfTab(DOMAIN requests, t, {"check"}) # {} => OfTab(DOMAIN p.reqs, t, {"check"}) # {}
         /\ OfTab(Mounted(DOMAIN requests), t, {"entry"}) # {} => OfTab(Mounted(DOMAIN p.reqs), t, {"entry"}) # {}
         /\ OfTab(DOMAIN requests, t, {"entry"}) \subseteq OfTab(DOMAIN p.reqs, t, {"entry"})
    BY <1>11 DEF OfTab, Mounted, Also
  <1>16. TabWaits(t, p.tab, DOMAIN p.reqs)
    BY <1>2, <1>4, <1>11, <1>14, <1>15 DEF TabWaits
  <1>17. t \notin moved => TabLearns(t, p.tab, DOMAIN p.reqs, cookie)
    BY <1>2, <1>4, <1>11, <1>15 DEF TabLearns
  <1>18. Knows(t, p, cookie) /\ WritesBack(t, p.tab.user, stored) /\ Session!Becomes(t, p, cookie, stored)
    BY <1>1, <1>2, <1>4, <1>7, <1>11, <1>16, <1>17 DEF Knows
  <1> QED
    BY <1>2, <1>13, <1>18, StayKeeps

LEMMA TabKeeps ==
  ASSUME SessionInv, NEW t \in Tab,
         \/ Session!LeaveHome(t) \/ Session!HandleUnauthorized(t) \/ Session!Redirect(t) \/ Session!HandleLogout(t)
         \/ \E pg \in {"home", "user"} \cup Session!AuthPages : Session!Open(t, pg) \/ Session!FollowLink(t, pg)
         \/ \E u \in Account \cup {None} : Session!OnSubmit(t, u)
         \/ \E u \in Account : Session!ContinueWithGoogle(t, u)
  PROVE  SessionInv'
  <1>1. /\ tabs[t] \in Session!TabState /\ cookie \in Users /\ stored \in Users
        /\ TabWaits(t, tabs[t], DOMAIN requests)
    BY OfNow
  <1>2. {"login", "user"} \cup Session!AuthPages \subseteq AllPages /\ "home" \notin Session!AuthPages
    BY DEF AllPages, Session!AuthPages, Session!Forms
  <1>3. CASE Session!LeaveHome(t)
    <2>1. /\ Session!Becomes(t, Session!Goes(t, Session!Now(t), "login", cookie), cookie, stored) /\ writer' = writer
      BY <1>3 DEF Session!LeaveHome
    <2>2. Session!Now(t) = [Session!Now(t) EXCEPT !.tab = tabs[t]]
      BY NowAsIs
    <2> QED
      BY <1>1, <1>2, <2>1, <2>2, LeaveKeeps
  <1>4. CASE Session!HandleUnauthorized(t)
    <2>1. Session!Becomes(t, Session!Loads(t, "login", cookie, stored), cookie, stored) /\ writer' = writer
      BY <1>4 DEF Session!HandleUnauthorized
    <2> QED
      BY <1>1, <1>2, <2>1, OpenKeeps
  <1>5. CASE Session!Redirect(t)
    <2>1. PICK tab \in Session!TabState : tab = [tabs[t] EXCEPT !.redirect = FALSE]
      BY <1>1, FlagAfter
    <2>2. tab.page = tabs[t].page /\ tab.user = tabs[t].user /\ tab.checking = tabs[t].checking /\ tab.busy = tabs[t].busy
      BY <1>1, <2>1 DEF Session!TabState
    <2>3. PICK s : s = [Session!Now(t) EXCEPT !.tab = tab]
      OBVIOUS
    <2>4. s = [Session!Now(t) EXCEPT !.tab.redirect = FALSE]
      BY <2>1, <2>3 DEF Session!Now
    <2>5. Session!Becomes(t, Session!Goes(t, s, "login", cookie), cookie, stored) /\ writer' = writer
      BY <1>5, <2>4 DEF Session!Redirect
    <2> QED
      BY <1>2, <2>2, <2>3, <2>5, LeaveKeeps
  <1>6. CASE Session!HandleLogout(t)
    <2>1. /\ Session!Becomes(t, Session!Sends(t, [Session!Now(t) EXCEPT !.tab.busy = TRUE], "logout", cookie, None), cookie, stored)
          /\ writer' = writer
      BY <1>6 DEF Session!HandleLogout
    <2>2. None \in Users /\ "logout" \in Session!Forms \cup {"logout"}
      BY DEF Users
    <2> QED
      BY <2>1, <2>2, SubmitKeeps
  <1>7. ASSUME NEW pg \in {"home", "user"} \cup Session!AuthPages, Session!Open(t, pg)
        PROVE  SessionInv'
    <2>1. Session!Becomes(t, Session!Loads(t, pg, cookie, stored), cookie, stored) /\ writer' = writer
      BY <1>7 DEF Session!Open
    <2>2. pg \in AllPages
      BY DEF AllPages
    <2> QED
      BY <1>1, <2>1, <2>2, OpenKeeps
  <1>8. ASSUME NEW pg \in {"home", "user"} \cup Session!AuthPages, Session!FollowLink(t, pg)
        PROVE  SessionInv'
    <2>1. /\ pg \in Session!LinksOf(t) /\ tabs[t].page \in Session!AuthPages
          /\ Session!Becomes(t, Session!Goes(t, Session!Now(t), pg, cookie), cookie, stored) /\ writer' = writer
      BY <1>8 DEF Session!FollowLink, Session!Shown
    <2>2. pg # "home"
      BY <2>1 DEF Session!LinksOf, Session!Links, Session!AuthPages, Session!Forms
    <2>3. pg \in AllPages
      BY DEF AllPages
    <2>4. Session!Now(t) = [Session!Now(t) EXCEPT !.tab = tabs[t]]
      BY NowAsIs
    <2> QED
      BY <1>1, <2>1, <2>2, <2>3, <2>4, LeaveKeeps
  <1>9. ASSUME NEW u \in Account \cup {None}, Session!OnSubmit(t, u)
        PROVE  SessionInv'
    <2>1. /\ tabs[t].page \in Session!Forms /\ (u = None <=> tabs[t].page # "login")
          /\ Session!Becomes(t, Session!Sends(t, [Session!Now(t) EXCEPT !.tab.busy = TRUE], tabs[t].page, cookie, u), cookie, stored)
          /\ writer' = writer
      BY <1>9 DEF Session!OnSubmit, Session!Submittable
    <2>2. PICK kind \in Session!Forms \cup {"logout"} : kind = tabs[t].page
      BY <2>1
    <2>3. u \in Users
      BY DEF Users
    <2> QED
      BY <2>1, <2>2, <2>3, SubmitKeeps
  <1>10. ASSUME NEW u \in Account, Session!ContinueWithGoogle(t, u)
        PROVE  SessionInv'
    <2>1. Session!Becomes(t, Session!Loads(t, "user", u, stored), u, stored) /\ writer' = writer
      BY <1>10 DEF Session!ContinueWithGoogle
    <2>2. u \in Users
      BY DEF Users
    <2> QED
      BY <1>2, <2>1, <2>2, OpenKeeps
  <1> QED
    BY <1>3, <1>4, <1>5, <1>6, <1>7, <1>8, <1>9, <1>10

\* The tab of a form that was answered.
LEMMA EndedIs ==
  ASSUME SessionInv, NEW q \in DOMAIN requests
  PROVE  \E tab \in Session!TabState :
            /\ tab.page = tabs[q.tab].page /\ tab.user = tabs[q.tab].user /\ tab.checking = tabs[q.tab].checking
            /\ tab.busy = (tabs[q.tab].busy /\ ~q.mounted)
            /\ Session!Ended(q) = [Session!Without(q) EXCEPT !.tab = tab, !.missed = FALSE]
  <1>1. q.tab \in Tab /\ q.mounted \in BOOLEAN
    BY DEF SessionInv, SessionTyped, Session!RequestState
  <1>2. tabs[q.tab] \in Session!TabState
    BY <1>1, OfNow
  <1>3. PICK b \in BOOLEAN : b = (tabs[q.tab].busy /\ ~q.mounted)
    BY <1>1
  <1>4. PICK tab \in Session!TabState : tab = [tabs[q.tab] EXCEPT !.busy = b]
    BY <1>2, FlagAfter
  <1>5. tab.page = tabs[q.tab].page /\ tab.user = tabs[q.tab].user /\ tab.checking = tabs[q.tab].checking /\ tab.busy = b
    BY <1>2, <1>4 DEF Session!TabState
  <1>6. PICK s : s = [Session!Without(q) EXCEPT !.tab = tab, !.missed = FALSE]
    OBVIOUS
  <1>7. s = StepOf(tab, Session!BagRemove(requests, q), FALSE)
    BY <1>6 DEF Session!Without, Session!Now, StepOf
  <1>8. PICK e : e = Session!Ended(q)
    OBVIOUS
  <1>9. e = StepOf(tab, Session!BagRemove(requests, q), FALSE)
    BY <1>3, <1>4, <1>8 DEF Session!Ended, Session!Without, Session!Now, StepOf
  <1>10. Session!Ended(q) = [Session!Without(q) EXCEPT !.tab = tab, !.missed = FALSE]
    BY <1>6, <1>7, <1>8, <1>9
  <1> QED
    BY <1>3, <1>5, <1>10

LEMMA WithoutIs ==
  ASSUME SessionInv, NEW q \in DOMAIN requests, NEW b \in BOOLEAN, NEW s, s = [Session!Without(q) EXCEPT !.missed = b]
  PROVE  /\ q.tab \in Tab /\ q.mounted \in BOOLEAN /\ q.cookie \in Users /\ q.user \in Users /\ q.kind \in Kinds
         /\ tabs[q.tab] \in Session!TabState
         /\ s = [Session!Without(q) EXCEPT !.tab = tabs[q.tab], !.missed = b]
  <1>1. q.tab \in Tab /\ q.mounted \in BOOLEAN /\ q.cookie \in Users /\ q.user \in Users /\ q.kind \in Kinds
    BY DEF SessionInv, SessionTyped, Session!RequestState, Users, Kinds
  <1>2. tabs[q.tab] \in Session!TabState
    BY <1>1, OfNow
  <1>3. PICK p : p = [Session!Without(q) EXCEPT !.tab = tabs[q.tab], !.missed = b]
    OBVIOUS
  <1>4. p = StepOf(tabs[q.tab], Session!BagRemove(requests, q), b)
    BY <1>3 DEF Session!Without, Session!Now, StepOf
  <1>5. s = StepOf(tabs[q.tab], Session!BagRemove(requests, q), b)
    BY DEF Session!Without, Session!Now, StepOf
  <1> QED
    BY <1>1, <1>2, <1>3, <1>4, <1>5

LEMMA EntryKeeps ==
  ASSUME SessionInv, NEW q \in DOMAIN requests, NEW ok \in BOOLEAN, Session!LandEntry(q, ok)
  PROVE  SessionInv'
  <1>1. PICK b \in BOOLEAN : b = (~ok /\ q.cookie # None)
    OBVIOUS
  <1>2. PICK s : s = [Session!Without(q) EXCEPT !.missed = b]
    OBVIOUS
  <1>3. /\ q.tab \in Tab /\ q.mounted \in BOOLEAN
        /\ tabs[q.tab] \in Session!TabState
        /\ s = [Session!Without(q) EXCEPT !.tab = tabs[q.tab], !.missed = b]
    BY <1>2, WithoutIs
  <1>4. /\ q.kind = "entry" /\ writer' = writer
        /\ ok => Session!Becomes(q.tab, Session!Goes(q.tab, s, "user", cookie), cookie, stored)
        /\ ~ok => Session!Becomes(q.tab, [s EXCEPT !.tab.checking = @ /\ ~q.mounted], cookie, stored)
    BY <1>1, <1>2 DEF Session!LandEntry
  <1>5. q.kind \notin Session!Forms \cup {"logout"}
    BY <1>4 DEF Session!Forms
  <1>6. CASE ok
    <2>1. Answered(tabs[q.tab], q)
      BY <1>5 DEF Answered
    <2>2. "user" \in AllPages
      BY DEF AllPages
    <2> QED
      BY <1>3, <1>4, <1>6, <2>1, <2>2, AnswerGoes
  <1>7. CASE ~ok
    <2>1. PICK d \in BOOLEAN : d = (tabs[q.tab].checking /\ ~q.mounted)
      BY <1>3
    <2>2. PICK tab \in Session!TabState : tab = [tabs[q.tab] EXCEPT !.checking = d]
      BY <1>3, FlagAfter
    <2>3. tab.page = tabs[q.tab].page /\ tab.user = tabs[q.tab].user /\ tab.checking = d /\ tab.busy = tabs[q.tab].busy
      BY <1>3, <2>2 DEF Session!TabState
    <2>4. PICK p : p = [Session!Without(q) EXCEPT !.tab = tab, !.missed = b]
      OBVIOUS
    <2>5. p = [s EXCEPT !.tab.checking = @ /\ ~q.mounted]
      BY <1>2, <2>1, <2>2, <2>4 DEF Session!Without, Session!Now
    <2>6. TabWaits(q.tab, tabs[q.tab], DOMAIN requests)
      BY <1>3, OfNow
    <2>7. Lighter(tabs[q.tab], tab, q)
      BY <1>4, <1>5, <2>1, <2>3, <2>6 DEF Lighter, TabWaits
    <2>8. Session!Becomes(q.tab, p, cookie, stored)
      BY <1>4, <1>7, <2>5
    <2>9. ~b => q.cookie # cookie \/ cookie = None
      BY <1>1, <1>7
    <2> QED
      BY <1>4, <2>3, <2>4, <2>7, <2>8, <2>9, AnswerStays
  <1> QED
    BY <1>6, <1>7

LEMMA CheckKeeps ==
  ASSUME SessionInv, NEW q \in DOMAIN requests, NEW ok \in BOOLEAN, Session!LandCheck(q, ok)
  PROVE  SessionInv'
  <1>1. PICK b \in BOOLEAN : b = (~ok /\ q.cookie # None)
    OBVIOUS
  <1>2. PICK s : s = [Session!Without(q) EXCEPT !.missed = b]
    OBVIOUS
  <1>3. /\ q.tab \in Tab /\ q.cookie \in Users
        /\ tabs[q.tab] \in Session!TabState
        /\ s = [Session!Without(q) EXCEPT !.tab = tabs[q.tab], !.missed = b]
    BY <1>2, WithoutIs
  <1>4. /\ q.kind = "check" /\ writer' = q.tab /\ (ok => q.cookie # None)
        /\ ok => Session!Becomes(q.tab, Session!SignedIn(q.tab, s, q.cookie, cookie), cookie, q.cookie)
        /\ ~ok => Session!Becomes(q.tab, Session!SignedOut(q.tab, s, cookie), cookie, None)
    BY <1>1, <1>2 DEF Session!LandCheck
  <1>5. Answered(tabs[q.tab], q)
    BY <1>4 DEF Answered, Session!Forms
  <1>6. q.tab \notin moved => q.cookie = cookie
    BY <1>3, <1>4 DEF SessionInv, OfTab
  <1>7. cookie \in Users
    BY <1>3, OfNow
  <1>8. CASE ok
    BY <1>3, <1>4, <1>5, <1>6, <1>7, <1>8, AnswerSignsIn
  <1>9. CASE ~ok
    <2>1. q.tab \notin moved /\ ~b => cookie = None
      BY <1>1, <1>6, <1>9
    <2> QED
      BY <1>3, <1>4, <1>5, <1>7, <1>9, <2>1, AnswerSignsOut
  <1> QED
    BY <1>8, <1>9

LEMMA LoginKeeps ==
  ASSUME SessionInv, NEW q \in DOMAIN requests, Session!LandLogin(q)
  PROVE  SessionInv'
  <1>1. PICK tab \in Session!TabState :
            /\ tab.page = tabs[q.tab].page /\ tab.user = tabs[q.tab].user /\ tab.checking = tabs[q.tab].checking
            /\ tab.busy = (tabs[q.tab].busy /\ ~q.mounted)
            /\ Session!Ended(q) = [Session!Without(q) EXCEPT !.tab = tab, !.missed = FALSE]
    BY EndedIs
  <1>2. PICK s : s = [Session!Without(q) EXCEPT !.tab = tab, !.missed = FALSE]
    OBVIOUS
  <1>3. /\ q.kind = "login" /\ writer' = q.tab
        /\ Session!Becomes(q.tab, Session!SignedIn(q.tab, s, q.user, q.user), q.user, q.user)
    BY <1>1, <1>2 DEF Session!LandLogin
  <1>4. q.user \in Users /\ q.user # None
    BY <1>3 DEF SessionInv, SessionTyped, Session!RequestState, Users
  <1>5. Answered(tab, q)
    BY <1>1 DEF Answered
  <1>6. FALSE \in BOOLEAN
    OBVIOUS
  <1> QED
    BY <1>2, <1>3, <1>4, <1>5, <1>6, AnswerSignsIn

\* A form is answered and the tab stays, or goes to the login page.
LEMMA FormKeeps ==
  ASSUME SessionInv, NEW q \in DOMAIN requests,
         \/ Session!LandRegister(q) \/ Session!LandForgotPassword(q) \/ Session!LandResetPassword(q)
         \/ Session!LandVerifyEmail(q) \/ Session!FailForm(q)
  PROVE  SessionInv'
  <1>1. PICK tab \in Session!TabState :
            /\ tab.page = tabs[q.tab].page /\ tab.user = tabs[q.tab].user /\ tab.checking = tabs[q.tab].checking
            /\ tab.busy = (tabs[q.tab].busy /\ ~q.mounted)
            /\ Session!Ended(q) = [Session!Without(q) EXCEPT !.tab = tab, !.missed = FALSE]
    BY EndedIs
  <1>2. PICK s : s = [Session!Without(q) EXCEPT !.tab = tab, !.missed = FALSE]
    OBVIOUS
  <1>3. q.tab \in Tab /\ q.mounted \in BOOLEAN /\ FALSE \in BOOLEAN
    BY DEF SessionInv, SessionTyped, Session!RequestState
  <1>4. TabWaits(q.tab, tabs[q.tab], DOMAIN requests) /\ tabs[q.tab] \in Session!TabState
    BY <1>3, OfNow
  <1>5. Answered(tab, q)
    BY <1>1 DEF Answered
  <1>6. CASE Session!LandRegister(q)
    <2>1. /\ q.kind = "signup" /\ writer' = writer
          /\ Session!Becomes(q.tab, Session!Goes(q.tab, s, "login", cookie), cookie, stored)
      BY <1>1, <1>2, <1>6 DEF Session!LandRegister
    <2>2. "login" \in AllPages
      BY DEF AllPages, Session!AuthPages, Session!Forms
    <2> QED
      BY <1>1, <1>2, <1>3, <1>5, <2>1, <2>2, AnswerGoes
  <1>7. ASSUME NEW tab2 \in Session!TabState, tab2.page = tab.page, tab2.user = tab.user, tab2.checking = tab.checking,
               tab2.busy = tab.busy \/ q.kind = "verify", tab2.busy => tabs[q.tab].busy,
               q.kind \in Session!Forms \cup {"verify"}
        PROVE  Lighter(tabs[q.tab], tab2, q) /\ q.kind # "check" /\ q.kind # "entry" /\ tab2.user = tabs[q.tab].user
    BY <1>1, <1>4, <1>7 DEF Lighter, TabWaits, Session!Forms
  <1>8. CASE Session!FailForm(q)
    <2>1. /\ q.kind \in Session!Forms \cup {"verify"} /\ writer' = writer
          /\ Session!Becomes(q.tab, s, cookie, stored)
      BY <1>1, <1>2, <1>8 DEF Session!FailForm
    <2>2. tab.busy => tabs[q.tab].busy
      BY <1>1
    <2>3. Lighter(tabs[q.tab], tab, q) /\ q.kind # "check" /\ q.kind # "entry" /\ tab.user = tabs[q.tab].user
      BY <1>7, <2>1, <2>2
    <2> QED
      BY <1>2, <1>3, <2>1, <2>3, AnswerStays
  <1>9. CASE Session!LandForgotPassword(q)
    <2>1. PICK d \in BOOLEAN : d = (tab.done \/ q.mounted)
      OBVIOUS
    <2>2. PICK tab2 \in Session!TabState : tab2 = [tab EXCEPT !.done = d]
      BY <2>1, FlagAfter
    <2>3. tab2.page = tab.page /\ tab2.user = tab.user /\ tab2.checking = tab.checking /\ tab2.busy = tab.busy
      BY <2>2 DEF Session!TabState
    <2>4. PICK p : p = [Session!Without(q) EXCEPT !.tab = tab2, !.missed = FALSE]
      OBVIOUS
    <2>5. p = [s EXCEPT !.tab.done = @ \/ q.mounted]
      BY <1>2, <2>1, <2>2, <2>4 DEF Session!Without, Session!Now
    <2>6. q.kind = "forgot" /\ writer' = writer /\ Session!Becomes(q.tab, p, cookie, stored)
      BY <1>1, <1>2, <1>9, <2>5 DEF Session!LandForgotPassword
    <2>7. Lighter(tabs[q.tab], tab2, q) /\ q.kind # "check" /\ q.kind # "entry" /\ tab2.user = tabs[q.tab].user
      BY <1>1, <1>7, <2>3, <2>6 DEF Session!Forms
    <2> QED
      BY <1>3, <2>4, <2>6, <2>7, AnswerStays
  <1>10. CASE Session!LandResetPassword(q)
    <2>1. PICK d \in BOOLEAN : d = (tab.done \/ q.mounted)
      OBVIOUS
    <2>2. PICK tab1 \in Session!TabState : tab1 = [tab EXCEPT !.done = d]
      BY <2>1, FlagAfter
    <2>8. PICK tab2 \in Session!TabState : tab2 = [tab1 EXCEPT !.redirect = TRUE]
      BY <2>2, FlagAfter
    <2>3. tab2.page = tab.page /\ tab2.user = tab.user /\ tab2.checking = tab.checking /\ tab2.busy = tab.busy
      BY <2>2, <2>8 DEF Session!TabState
    <2>4. PICK p : p = [Session!Without(q) EXCEPT !.tab = tab2, !.missed = FALSE]
      OBVIOUS
    <2>5. p = [s EXCEPT !.tab.done = @ \/ q.mounted, !.tab.redirect = TRUE]
      <3>1. p = StepOf(tab2, Session!BagRemove(requests, q), FALSE)
        BY <2>4 DEF Session!Without, Session!Now, StepOf
      <3>2. s = StepOf(tab, Session!BagRemove(requests, q), FALSE)
        BY <1>2 DEF Session!Without, Session!Now, StepOf
      <3>3. tab2 = [tab EXCEPT !.done = @ \/ q.mounted, !.redirect = TRUE]
        BY <2>1, <2>2, <2>8 DEF Session!TabState
      <3>4. PICK e : e = [s EXCEPT !.tab.done = @ \/ q.mounted, !.tab.redirect = TRUE]
        OBVIOUS
      <3>5. e = StepOf([tab EXCEPT !.done = @ \/ q.mounted, !.redirect = TRUE], Session!BagRemove(requests, q), FALSE)
        BY <3>2, <3>4 DEF StepOf
      <3> QED
        BY <3>1, <3>3, <3>4, <3>5
    <2>6. q.kind = "reset" /\ writer' = writer /\ Session!Becomes(q.tab, p, cookie, stored)
      BY <1>1, <1>2, <1>10, <2>5 DEF Session!LandResetPassword
    <2>7. Lighter(tabs[q.tab], tab2, q) /\ q.kind # "check" /\ q.kind # "entry" /\ tab2.user = tabs[q.tab].user
      BY <1>1, <1>7, <2>3, <2>6 DEF Session!Forms
    <2> QED
      BY <1>3, <2>4, <2>6, <2>7, AnswerStays
  <1>11. CASE Session!LandVerifyEmail(q)
    <2>1. PICK d \in BOOLEAN : d = (tabs[q.tab].done \/ q.mounted)
      OBVIOUS
    <2>2. PICK tab2 \in Session!TabState : tab2 = [tabs[q.tab] EXCEPT !.done = d]
      BY <1>4, <2>1, FlagAfter
    <2>3. tab2.page = tab.page /\ tab2.user = tab.user /\ tab2.checking = tab.checking /\ tab2.busy = tabs[q.tab].busy
      BY <1>1, <1>4, <2>2 DEF Session!TabState
    <2>4. PICK p : p = [Session!Without(q) EXCEPT !.tab = tab2, !.missed = FALSE]
      OBVIOUS
    <2>5. p = [Session!Without(q) EXCEPT !.tab.done = @ \/ q.mounted]
      <3>1. p = StepOf(tab2, Session!BagRemove(requests, q), FALSE)
        BY <2>4 DEF Session!Without, Session!Now, StepOf
      <3>2. PICK e : e = [Session!Without(q) EXCEPT !.tab.done = @ \/ q.mounted]
        OBVIOUS
      <3>3. e = StepOf(tab2, Session!BagRemove(requests, q), FALSE)
        BY <2>1, <2>2, <3>2 DEF Session!Without, Session!Now, StepOf
      <3> QED
        BY <3>1, <3>2, <3>3
    <2>6. q.kind = "verify" /\ writer' = writer /\ Session!Becomes(q.tab, p, cookie, stored)
      BY <1>11, <2>5 DEF Session!LandVerifyEmail
    <2>7. Lighter(tabs[q.tab], tab2, q) /\ q.kind # "check" /\ q.kind # "entry" /\ tab2.user = tabs[q.tab].user
      BY <1>7, <2>3, <2>6
    <2> QED
      BY <1>3, <2>4, <2>6, <2>7, AnswerStays
  <1> QED
    BY <1>6, <1>8, <1>9, <1>10, <1>11

LEMMA LogoutKeeps ==
  ASSUME SessionInv, NEW q \in DOMAIN requests,
         Session!LandLogout(q) \/ Session!RefuseLogout(q) \/ Session!FailLogout(q) \/ Session!RefuseLogin(q)
  PROVE  SessionInv'
  <1>1. PICK tab \in Session!TabState :
            /\ tab.page = tabs[q.tab].page /\ tab.user = tabs[q.tab].user /\ tab.checking = tabs[q.tab].checking
            /\ tab.busy = (tabs[q.tab].busy /\ ~q.mounted)
            /\ Session!Ended(q) = [Session!Without(q) EXCEPT !.tab = tab, !.missed = FALSE]
    BY EndedIs
  <1>2. PICK s : s = [Session!Without(q) EXCEPT !.tab = tab, !.missed = FALSE]
    OBVIOUS
  <1>3. q.tab \in Tab /\ FALSE \in BOOLEAN /\ None \in Users /\ "login" \in AllPages
    BY DEF SessionInv, SessionTyped, Session!RequestState, Users, AllPages, Session!AuthPages, Session!Forms
  <1>4. cookie \in Users
    BY <1>3, OfNow
  <1>5. Answered(tab, q)
    BY <1>1 DEF Answered
  <1>6. CASE Session!LandLogout(q)
    <2>1. /\ q.kind = "logout" /\ writer' = q.tab
          /\ Session!Becomes(q.tab, Session!SignedOut(q.tab, s, None), None, None)
      BY <1>1, <1>2, <1>6 DEF Session!LandLogout
    <2> QED
      BY <1>2, <1>3, <1>5, <2>1, AnswerSignsOut
  <1>7. CASE Session!FailLogout(q)
    <2>1. /\ q.kind = "logout" /\ writer' = q.tab
          /\ Session!Becomes(q.tab, Session!SignedOut(q.tab, s, cookie), cookie, None)
      BY <1>1, <1>2, <1>7 DEF Session!FailLogout
    <2> QED
      BY <1>2, <1>3, <1>4, <1>5, <2>1, AnswerSignsOut
  <1>8. CASE Session!RefuseLogout(q)
    <2>1. /\ writer' = q.tab
          /\ Session!Becomes(q.tab, Session!Loads(q.tab, "login", cookie, None), cookie, None)
      BY <1>8 DEF Session!RefuseLogout
    <2>2. WritesBack(q.tab, None, None)
      BY <2>1 DEF WritesBack
    <2> QED
      BY <1>3, <1>4, <2>1, <2>2, LoadKeeps
  <1>9. CASE Session!RefuseLogin(q)
    <2>1. /\ writer' = writer
          /\ Session!Becomes(q.tab, Session!Loads(q.tab, "login", cookie, stored), cookie, stored)
      BY <1>9 DEF Session!RefuseLogin
    <2> QED
      BY <1>3, <1>4, <2>1, OpenKeeps
  <1> QED
    BY <1>6, <1>7, <1>8, <1>9

LEMMA SessionStarts == Session!Init => SessionInv
  <1> SUFFICES ASSUME Session!Init PROVE SessionInv
    OBVIOUS
  <1> DEFINE tab == [page |-> "home", user |-> stored, checking |-> FALSE, busy |-> FALSE,
                     done |-> FALSE, redirect |-> FALSE, asked |-> FALSE]
  <1>1. cookie \in Users /\ stored \in Users /\ moved = Tab /\ writer \in Tab /\ tabs = [t \in Tab |-> tab]
    BY DEF Session!Init, Users
  <1>2. DOMAIN requests = {}
    BY DEF Session!Init, Session!EmptyBag, Session!SetToBag
  <1>3. tab \in Session!TabState /\ tab.user = stored /\ tab.page = "home" /\ ~tab.checking /\ ~tab.busy
    BY <1>1 DEF Session!TabState, Users
  <1> HIDE DEF tab
  <1>4. SessionTyped
    BY <1>1, <1>2, <1>3 DEF SessionTyped
  <1>5. \A t \in Tab : TabWaits(t, tabs[t], DOMAIN requests)
    BY <1>1, <1>3 DEF TabWaits, Session!AuthPages, Session!Forms
  <1>6. Tab \ moved = {} /\ stored = tabs[writer].user
    BY <1>1, <1>3
  <1> QED
    BY <1>2, <1>4, <1>5, <1>6 DEF SessionInv

LEMMA NextKeepsSession == SessionInv /\ (Session!Next \/ UNCHANGED Session!vars) => SessionInv'
  <1>1. ASSUME SessionInv, Session!Next PROVE SessionInv'
    <2>1. \/ Session!Expire
          \/ \E t \in Tab : Session!Ask(t)
          \/ \E t \in Tab :
                \/ Session!LeaveHome(t) \/ Session!HandleUnauthorized(t) \/ Session!Redirect(t) \/ Session!HandleLogout(t)
                \/ \E pg \in {"home", "user"} \cup Session!AuthPages : Session!Open(t, pg) \/ Session!FollowLink(t, pg)
                \/ \E u \in Account \cup {None} : Session!OnSubmit(t, u)
                \/ \E u \in Account : Session!ContinueWithGoogle(t, u)
          \/ \E q \in Session!Sent :
                \/ \E ok \in BOOLEAN : Session!LandEntry(q, ok) \/ Session!LandCheck(q, ok)
                \/ Session!LandLogin(q)
                \/ Session!LandRegister(q) \/ Session!LandForgotPassword(q) \/ Session!LandResetPassword(q)
                \/ Session!LandVerifyEmail(q) \/ Session!FailForm(q)
                \/ Session!LandLogout(q) \/ Session!RefuseLogout(q) \/ Session!FailLogout(q) \/ Session!RefuseLogin(q)
      BY <1>1 DEF Session!Next
    <2>2. Session!Sent = DOMAIN requests
      BY DEF Session!Sent, Session!BagToSet
    <2>3. CASE Session!Expire
      BY <1>1, <2>3, ExpireKeeps
    <2>4. CASE \E t \in Tab : Session!Ask(t)
      BY <1>1, <2>4, AskKeeps
    <2>5. ASSUME NEW t \in Tab,
                \/ Session!LeaveHome(t) \/ Session!HandleUnauthorized(t) \/ Session!Redirect(t) \/ Session!HandleLogout(t)
                \/ \E pg \in {"home", "user"} \cup Session!AuthPages : Session!Open(t, pg) \/ Session!FollowLink(t, pg)
                \/ \E u \in Account \cup {None} : Session!OnSubmit(t, u)
                \/ \E u \in Account : Session!ContinueWithGoogle(t, u)
          PROVE SessionInv'
      BY <1>1, <2>5, TabKeeps
    <2>6. ASSUME NEW q \in DOMAIN requests, NEW ok \in BOOLEAN, Session!LandEntry(q, ok) \/ Session!LandCheck(q, ok)
          PROVE  SessionInv'
      BY <1>1, <2>6, EntryKeeps, CheckKeeps
    <2>7. ASSUME NEW q \in DOMAIN requests, Session!LandLogin(q)
          PROVE  SessionInv'
      BY <1>1, <2>7, LoginKeeps
    <2>8. ASSUME NEW q \in DOMAIN requests,
                 \/ Session!LandRegister(q) \/ Session!LandForgotPassword(q) \/ Session!LandResetPassword(q)
                 \/ Session!LandVerifyEmail(q) \/ Session!FailForm(q)
          PROVE  SessionInv'
      BY <1>1, <2>8, FormKeeps
    <2>9. ASSUME NEW q \in DOMAIN requests,
                 Session!LandLogout(q) \/ Session!RefuseLogout(q) \/ Session!FailLogout(q) \/ Session!RefuseLogin(q)
          PROVE  SessionInv'
      BY <1>1, <2>9, LogoutKeeps
    <2> QED
      BY <2>1, <2>2, <2>3, <2>4, <2>5, <2>6, <2>7, <2>8, <2>9
  <1>2. ASSUME SessionInv, UNCHANGED Session!vars PROVE SessionInv'
    <2>1. UNCHANGED <<cookie, stored, tabs, requests, moved, writer>>
      BY <1>2 DEF Session!vars
    <2>2. SessionTyped'
      BY <1>2, <2>1 DEF SessionInv, SessionTyped
    <2>3. stored' = tabs'[writer'].user
      BY <1>2, <2>1 DEF SessionInv
    <2> QED
      BY <1>2, <2>1, <2>2, <2>3 DEF SessionInv
  <1> QED
    BY <1>1, <1>2

LEMMA SessionInvSettles == SessionInv => Session!SessionSettles
  <1> SUFFICES ASSUME SessionInv PROVE Session!SessionSettles
    OBVIOUS
  <1>1. ASSUME NEW t \in Tab, Session!AtRest(t)
        PROVE  /\ tabs[t].page # "home"
               /\ \A kinds : OfTab(DOMAIN requests, t, kinds) = {} /\ OfTab(Mounted(DOMAIN requests), t, kinds) = {}
    BY <1>1 DEF Session!AtRest, Session!Sent, Session!BagToSet, OfTab, Mounted
  <1>2. Session!PagesMatch
    <2>1. ASSUME NEW t \in Tab, Session!AtRest(t)
          PROVE  /\ tabs[t].page = "user" <=> tabs[t].user # None
                 /\ ~tabs[t].checking /\ ~tabs[t].busy
      <3>1. TabWaits(t, tabs[t], DOMAIN requests) /\ tabs[t] \in Session!TabState
        BY OfNow
      <3>2. tabs[t].page \in Session!AuthPages \/ tabs[t].page = "user"
        BY <1>1, <2>1, <3>1 DEF Session!TabState
      <3> QED
        BY <1>1, <2>1, <3>1, <3>2 DEF TabWaits
    <2> QED
      BY <2>1 DEF Session!PagesMatch
  <1>3. Session!ShowsWhoseToken
    <2>1. ASSUME NEW t \in Tab, Session!AtRest(t), t \notin moved
          PROVE  tabs[t].user = cookie
      <3>1. TabLearns(t, tabs[t], DOMAIN requests, cookie)
        BY <2>1, OfNow
      <3> QED
        BY <1>1, <2>1, <3>1 DEF TabLearns
    <2> QED
      BY <2>1 DEF Session!ShowsWhoseToken
  <1>4. Session!StoredIsShown
    BY DEF SessionInv, Session!StoredIsShown
  <1> QED
    BY <1>2, <1>3, <1>4 DEF Session!SessionSettles

\* A tab at rest shows the pages of a user when it has one, that user is the
\* one its requests are sent for, unless the token changed elsewhere or a check
\* went unanswered, and localStorage holds the user of the tab that last wrote it.
THEOREM SessionAlwaysSettles == Spec => []SessionSettles
  <1> DEFINE I == part = "session" => SessionInv
  <1>1. Init => I
    BY SessionStarts DEF Init
  <1>2. I /\ [Next]_vars => I'
    <2> SUFFICES ASSUME I, [Next]_vars, part' = "session" PROVE SessionInv'
      OBVIOUS
    <2>1. part = "session" /\ (Session!Next \/ UNCHANGED Session!vars)
      BY DEF Next, vars, common, sessionOwn, Session!vars
    <2> QED
      BY <2>1, NextKeepsSession
  <1>3. I => SessionSettles
    BY SessionInvSettles DEF SessionSettles
  <1> QED
    BY <1>1, <1>2, <1>3, PTL DEF Spec
=============================================================================
