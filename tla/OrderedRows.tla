----------------------------- MODULE OrderedRows -----------------------------
(***************************************************************************)
(* The order of the columns of a project (columns.service.ts) and of the     *)
(* sub-tasks of a task (sub-tasks.service.ts), which is kept by the same     *)
(* code over a column position, but for one thing: deleting a column         *)
(* renumbers the ones that remain.                                           *)
(*                                                                          *)
(* What else a save of these rows writes is in TaskBoard and SubTasks, as is *)
(* who may be deleted.  A client may name the position of a new row; the web *)
(* client does not, and rows with equal positions have no order to promise.  *)
(*                                                                          *)
(* A definition named X_fault, before X, is a plausible error in the code X *)
(* models; no definition uses it.                                           *)
(***************************************************************************)
EXTENDS Integers, FiniteSets, Sequences, SequencesExt, FiniteSetsExt, TypeOrm

CONSTANTS
    Row,           \* ids of columns and sub-tasks, each used once
    Parent,        \* projects and tasks
    ParentOf,      \* the parent of each row
    Renumbered,    \* the parents whose rows a delete renumbers: projects
    Template,      \* the rows a parent is created with, in their order
    NewPositions,  \* what clients ask reorder for, beyond the end too
    Request,       \* slots for requests in flight
    CanAbort,      \* may a request die between two statements
    NoRow, NoParent

ASSUME ConstantsAssumption ==
    /\ ParentOf \in [Row -> Parent] /\ Renumbered \subseteq Parent
    /\ Template \in [Parent -> Seq(Row)]
    /\ \A p \in Parent : IsInjective(Template[p])
                         /\ \A x \in Range(Template[p]) : ParentOf[x] = p
    /\ NewPositions \subseteq Nat /\ CanAbort \in BOOLEAN
    /\ NoRow \notin Row /\ NoParent \notin Parent

VARIABLES rows, requests

vars == <<rows, requests>>

------------------------------------------------------------------------------
(* Rows and requests in flight *)

OrderedRow == [row: RowState, position: Nat]

RowsOf(p) == {x \in Row : ParentOf[x] = p /\ Exists(rows[x])}

\* find with order: { position: 'ASC' }; equal positions come in any order.
Orders_unsorted(p) == SetToSeqs(RowsOf(p))
Orders(p) ==
    {s \in SetToSeqs(RowsOf(p)) :
        \A i, j \in DOMAIN s : i < j => rows[s[i]].position <= rows[s[j]].position}

PC == {"idle", "insert", "remove", "siblings", "select", "write"}

Idle == [pc |-> "idle", parent |-> NoParent, row |-> NoRow, position |-> 0,
         order |-> <<>>, plans |-> <<>>]

RequestState ==
    [pc: PC, parent: Parent \cup {NoParent}, row: Row \cup {NoRow}, position: Nat,
     order: Seq(Row), plans: Seq(SUBSET {"row", "position"})]

TypeOK ==
    /\ rows \in [Row -> OrderedRow]
    /\ requests \in [Request -> RequestState]

Init ==
    /\ rows = [x \in Row |->
                 LET i == SelectInSeq(Template[ParentOf[x]], LAMBDA y : y = x)
                 IN IF i = 0 THEN [row |-> "none", position |-> 0]
                    ELSE [row |-> "there", position |-> i - 1]]
    /\ requests = [r \in Request |-> Idle]

Becomes(r, q) == requests' = [requests EXCEPT ![r] = q]
Ends(r) == Becomes(r, Idle)

------------------------------------------------------------------------------
(* create *)

\* (maxPos ?? -1) + 1
NextPosition_count(p) == Cardinality(RowsOf(p))
NextPosition(p) == Max({rows[x].position : x \in RowsOf(p)} \cup {-1}) + 1

FindMaxPosition(r, p) ==
    /\ requests[r].pc = "idle"
    /\ Becomes(r, [Idle EXCEPT !.pc = "insert", !.parent = p, !.position = NextPosition(p)])
    /\ UNCHANGED rows

InsertRow(r, x) ==
    LET q == requests[r]
    IN /\ q.pc = "insert" /\ rows[x].row = "none" /\ ParentOf[x] = q.parent
       /\ rows' = [rows EXCEPT ![x] = [row |-> "there", position |-> q.position]]
       /\ Ends(r)

------------------------------------------------------------------------------
(* delete and reorder *)

LoadToDelete(r, x) ==
    /\ requests[r].pc = "idle" /\ Exists(rows[x])
    /\ Becomes(r, [Idle EXCEPT !.pc = "remove", !.row = x, !.parent = ParentOf[x]])
    /\ UNCHANGED rows

\* Of the row only the parent is used from here on.
RemoveRow(r) ==
    LET q == requests[r]
    IN /\ q.pc = "remove"
       /\ rows' = [rows EXCEPT ![q.row].row = "removed"]
       /\ IF q.parent \in Renumbered
          THEN Becomes(r, [q EXCEPT !.pc = "siblings", !.row = NoRow]) ELSE Ends(r)

LoadToReorder(r, x, newPosition) ==
    /\ requests[r].pc = "idle" /\ Exists(rows[x])
    /\ Becomes(r, [Idle EXCEPT !.pc = "siblings", !.row = x, !.parent = ParentOf[x],
                               !.position = newPosition])
    /\ UNCHANGED rows

\* findIndex, from 0; -1 when the row has gone since it was loaded.
Index(s, x) == SelectInSeq(s, LAMBDA y : y = x) - 1

\* splice(oldIndex, 1), which takes the last element for -1, then
\* splice(newIndex, 0, moved).
Moved(s, old, new) ==
    LET i == IF old = -1 THEN Len(s) ELSE old + 1
    IN InsertAt(RemoveAt(s, i), new + 1, s[i])

FindSiblings(r) ==
    LET q == requests[r]
        Saves(s) == Becomes(r, [q EXCEPT !.pc = "select", !.order = s])
    IN /\ q.pc = "siblings"
       /\ \E s \in Orders(q.parent) :
             LET old == Index(s, q.row)
                 new == IF q.position < Len(s) THEN q.position ELSE Len(s) - 1
             IN CASE q.row = NoRow -> Saves(s)
                  [] q.row # NoRow /\ old = new -> Ends(r)
                  [] OTHER -> Saves(Moved(s, old, new))
       /\ UNCHANGED rows

\* Each sibling gets its index as position.
Renumber(i) == [row |-> "there", position |-> i - 1]

\* save of the array: one SELECT ...
SelectSiblings(r) ==
    LET q == requests[r]
        plan(i) == SavePlan(Renumber(i), rows[q.order[i]])
    IN /\ q.pc = "select"
       /\ Becomes(r, [q EXCEPT !.pc = "write", !.plans = [i \in DOMAIN q.order |-> plan(i)]])
       /\ UNCHANGED rows

SavedRow(plan, entity, r) ==
    [row |-> Written("row", plan, entity, r), position |-> Written("position", plan, entity, r)]

\* ... and the statements, in one transaction.
WriteSiblings(r) ==
    LET q == requests[r]
        fails == \E i \in DOMAIN q.order : SaveFails(q.plans[i], rows[q.order[i]])
        saved(x) == LET i == Index(q.order, x) + 1
                    IN IF i # 0 /\ SaveHits(q.plans[i], rows[x])
                       THEN SavedRow(q.plans[i], Renumber(i), rows[x]) ELSE rows[x]
    IN /\ q.pc = "write"
       /\ rows' = IF fails THEN rows ELSE [x \in Row |-> saved(x)]
       /\ Ends(r)

\* The process dies, or a statement fails, and the rest of the request with it.
Abort(r) ==
    /\ CanAbort /\ requests[r].pc # "idle"
    /\ Ends(r)
    /\ UNCHANGED rows

Step(r) ==
    \/ \E p \in Parent : FindMaxPosition(r, p)
    \/ \E x \in Row : InsertRow(r, x) \/ LoadToDelete(r, x)
    \/ \E x \in Row, n \in NewPositions : LoadToReorder(r, x, n)
    \/ RemoveRow(r)
    \/ FindSiblings(r)
    \/ SelectSiblings(r)
    \/ WriteSiblings(r)
    \/ Abort(r)

Next == \E r \in Request : Step(r)

Spec == Init /\ [][Next]_vars

------------------------------------------------------------------------------
(* Refinement *)

\* The list of a parent as findByProject or findByTask shows it: the i-th row
\* has less than i rows before it, and i rows up to itself.
ListOf(p) ==
    LET S == RowsOf(p)
        Before(x) == {y \in S : rows[y].position < rows[x].position}
        UpTo(x) == {y \in S : rows[y].position <= rows[x].position}
    IN [i \in 1 .. Cardinality(S) |->
           CHOOSE x \in S : Cardinality(Before(x)) < i /\ i <= Cardinality(UpTo(x))]
=============================================================================
