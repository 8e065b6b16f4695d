------------------------- MODULE TimeTracking_proofs -------------------------
(***************************************************************************)
(* Theorems about TimeTracking, for any entries, tasks, users and number of  *)
(* requests in flight.  Who owns a row comes first, then one timer per user, *)
(* then the totals: those need sums of finite sets, whose laws are proved in *)
(* the section before.                                                       *)
(***************************************************************************)
EXTENDS TimeTracking, FiniteSetTheorems, WellFoundedInduction, TLAPS

Typed ==
    /\ entries \in [Entry -> EntryRow]
    /\ requests \in [Request -> RequestState]
    /\ clock \in Nat

\* The columns of an entry that no handler edits.
SameOrigin(a, b) ==
    a.user = b.user /\ a.task = b.task /\ a.type = b.type /\ a.started = b.started

Editing == {"select", "write"}
Holding == Editing \cup {"remove"}

\* A timer that was started was started in the past.
Begun(row) == row.type = "timer" => row.started \in Nat /\ row.started <= clock

TimersBegun ==
    /\ \A e \in Entry : Exists(entries[e]) => Begun(entries[e])
    /\ \A r \in Request : requests[r].pc \in Editing \cup {"insert"} => Begun(requests[r].entity)

\* What a request that holds an entry knows of it.
HoldsOwn(r) ==
    LET q == requests[r]
        row == entries[q.entry]
    IN /\ q.pc \in Holding =>
            /\ q.entry \in Entry /\ row.row # "none"
            /\ Exists(row) => row.user = q.user /\ row.task = q.task
       /\ q.pc \in Editing =>
            /\ Exists(q.entity) /\ q.entity.user = q.user /\ q.entity.task = q.task
            /\ Exists(row) => SameOrigin(q.entity, row)
       /\ q.pc = "write" /\ IsInsert(q.plan) => q.plan = DOMAIN NoEntryRow
       /\ q.pc = "insert" => Exists(q.entity)

\* Two requests that hold one entry agree on it, also while its row is gone.
HoldAlike(r, s) ==
    requests[r].pc \in Holding /\ requests[s].pc \in Holding
        /\ requests[r].entry = requests[s].entry =>
            /\ requests[r].user = requests[s].user
            /\ requests[r].task = requests[s].task
            /\ requests[r].pc \in Editing /\ requests[s].pc \in Editing =>
                  SameOrigin(requests[r].entity, requests[s].entity)

Ownership ==
    /\ \A r \in Request : HoldsOwn(r)
    /\ \A r, s \in Request : HoldAlike(r, s)

IInv == Typed /\ TimersBegun /\ Ownership

------------------------------------------------------------------------------

LEMMA RowTypes ==
    /\ NoEntryRow \in EntryRow
    /\ [NoEntryRow EXCEPT !.row = "removed"] \in EntryRow
    /\ Idle \in RequestState
  BY DEF NoEntryRow, EntryRow, RowState, Time, Idle, RequestState, PC

LEMMA InitIInv == Init => IInv
  <1> SUFFICES ASSUME Init PROVE IInv
    OBVIOUS
  <1>1. Typed
    BY RowTypes DEF Init, Typed
  <1>2. TimersBegun
    BY DEF Init, TimersBegun, NoEntryRow, Exists, Idle, Editing
  <1>3. Ownership
    BY DEF Init, Ownership, HoldsOwn, HoldAlike, Idle, Editing, Holding
  <1> QED
    BY <1>1, <1>2, <1>3 DEF IInv

\* A slot whose new record holds no entry keeps the invariant as long as the
\* rows stay as they are.
LEMMA ReleaseKeeps ==
  ASSUME IInv, NEW r \in Request, NEW q \in RequestState, q.pc \notin Holding \cup {"insert"},
         requests' = [requests EXCEPT ![r] = q], UNCHANGED <<entries, clock>>
  PROVE  IInv'
  <1>1. ASSUME NEW s \in Request
        PROVE  requests'[s] = IF s = r THEN q ELSE requests[s]
    BY DEF IInv, Typed
  <1>2. Typed'
    BY DEF IInv, Typed
  <1>3. TimersBegun'
    BY <1>1 DEF IInv, TimersBegun, Begun, Holding, Editing
  <1>4. \A s \in Request : HoldsOwn(s)'
    BY <1>1 DEF IInv, Ownership, HoldsOwn, Holding, Editing
  <1>5. \A s, t \in Request : HoldAlike(s, t)'
    BY <1>1 DEF IInv, Ownership, HoldAlike, Holding, Editing
  <1> QED
    BY <1>2, <1>3, <1>4, <1>5 DEF IInv, Ownership

\* A request that begins to insert a row of its own.
LEMMA BeginKeeps ==
  ASSUME IInv, NEW r \in Request, NEW q \in RequestState, q.pc = "insert",
         Exists(q.entity), Begun(q.entity),
         requests' = [requests EXCEPT ![r] = q], UNCHANGED <<entries, clock>>
  PROVE  IInv'
  <1>1. ASSUME NEW s \in Request
        PROVE  requests'[s] = IF s = r THEN q ELSE requests[s]
    BY DEF IInv, Typed
  <1>2. Typed'
    BY DEF IInv, Typed
  <1>3. TimersBegun'
    BY <1>1 DEF IInv, TimersBegun, Begun, Editing
  <1>4. \A s \in Request : HoldsOwn(s)'
    BY <1>1 DEF IInv, Ownership, HoldsOwn, Holding, Editing
  <1>5. \A s, t \in Request : HoldAlike(s, t)'
    BY <1>1 DEF IInv, Ownership, HoldAlike, Holding, Editing
  <1> QED
    BY <1>2, <1>3, <1>4, <1>5 DEF IInv, Ownership

\* A request that loads an existing row, to edit or to delete it.
LEMMA LoadKeeps ==
  ASSUME IInv, NEW r \in Request, NEW e \in Entry, NEW q \in RequestState, Exists(entries[e]),
         q.pc \in {"select", "remove"}, q.entry = e,
         q.user = entries[e].user, q.task = entries[e].task,
         q.pc = "select" => Exists(q.entity) /\ SameOrigin(q.entity, entries[e]),
         requests' = [requests EXCEPT ![r] = q], UNCHANGED <<entries, clock>>
  PROVE  IInv'
  <1>1. ASSUME NEW s \in Request
        PROVE  requests'[s] = IF s = r THEN q ELSE requests[s]
    BY DEF IInv, Typed
  <1>2. Typed'
    BY DEF IInv, Typed
  <1>3. TimersBegun'
    BY <1>1 DEF IInv, TimersBegun, Begun, Editing, SameOrigin
  <1>4. \A s \in Request : HoldsOwn(s)'
    BY <1>1 DEF IInv, Ownership, HoldsOwn, Holding, Editing, Exists, SameOrigin
  <1>5. \A s, t \in Request : HoldAlike(s, t)'
    <2>1. ASSUME NEW s \in Request, s # r, requests[s].pc \in Holding, requests[s].entry = e
          PROVE  /\ requests[s].user = q.user /\ requests[s].task = q.task
                 /\ requests[s].pc \in Editing => SameOrigin(requests[s].entity, entries[e])
      BY <2>1 DEF IInv, Ownership, HoldsOwn
    <2>2. \A s \in Request : requests[s].pc \in Holding => requests[s].entry \in Entry
      BY DEF IInv, Ownership, HoldsOwn
    <2> QED
      BY <1>1, <2>1, <2>2 DEF IInv, Ownership, HoldAlike, Holding, Editing, SameOrigin
  <1> QED
    BY <1>2, <1>3, <1>4, <1>5 DEF IInv, Ownership

LEMMA BeginCreateKeeps ==
  ASSUME IInv, NEW r \in Request, NEW u \in User, NEW t \in Task, NEW s \in Durations,
         BeginCreate(r, u, t, s)
  PROVE  IInv'
  <1> DEFINE q == [Idle EXCEPT !.kind = "create", !.pc = "insert", !.user = u, !.task = t,
                               !.entity = NewEntry(u, t, "manual", s, Never)]
  <1>1. NewEntry(u, t, "manual", s, Never) \in EntryRow
    BY ConstantsAssumption DEF NewEntry, EntryRow, RowState, Time
  <1>2. q \in RequestState
    BY <1>1, RowTypes DEF RequestState, PC, Kind
  <1>3. q.pc = "insert" /\ q.entity = NewEntry(u, t, "manual", s, Never)
    BY DEF Idle
  <1>4. Exists(q.entity) /\ Begun(q.entity)
    BY <1>3 DEF NewEntry, Exists, Begun
  <1> QED
    BY <1>2, <1>3, <1>4, BeginKeeps DEF BeginCreate, Becomes

LEMMA FindNoRunningKeeps ==
  ASSUME IInv, NEW r \in Request, NEW u \in User, NEW t \in Task, FindNoRunning(r, u, t)
  PROVE  IInv'
  <1> DEFINE q == [Idle EXCEPT !.kind = "start", !.pc = "insert", !.user = u, !.task = t,
                               !.entity = NewEntry(u, t, "timer", 0, clock)]
  <1>1. clock \in Nat
    BY DEF IInv, Typed
  <1>2. NewEntry(u, t, "timer", 0, clock) \in EntryRow
    BY <1>1 DEF NewEntry, EntryRow, RowState, Time
  <1>3. q \in RequestState
    BY <1>2, RowTypes DEF RequestState, PC, Kind
  <1>4. q.pc = "insert" /\ q.entity = NewEntry(u, t, "timer", 0, clock)
    BY DEF Idle
  <1>5. Exists(q.entity) /\ Begun(q.entity)
    BY <1>1, <1>4 DEF NewEntry, Exists, Begun
  <1> QED
    BY <1>3, <1>4, <1>5, BeginKeeps DEF FindNoRunning, Becomes

\* Floor division of an elapsed time.
LEMMA ElapsedType ==
  ASSUME NEW now \in Nat, NEW start \in Nat, start <= now
  PROVE  (now - start) \div TicksPerSecond \in Nat
  <1>1. now - start \in Nat /\ TicksPerSecond \in Nat \ {0}
    BY ConstantsAssumption
  <1>2. ASSUME NEW a \in Nat, NEW b \in Nat \ {0} PROVE a \div b \in Nat
    OBVIOUS
  <1> QED
    BY <1>1, <1>2

\* stopTimer sets ended and duration only.
LEMMA StoppedSameOrigin ==
  ASSUME NEW row \in EntryRow, NEW now
  PROVE  /\ SameOrigin(StoppedTimer(row, now), row)
         /\ StoppedTimer(row, now).row = row.row
  <1> DEFINE seconds == (now - row.started) \div TicksPerSecond
  <1>1. StoppedTimer(row, now) = [row EXCEPT !.ended = now, !.duration = seconds]
    BY DEF StoppedTimer
  <1> HIDE DEF seconds
  <1> QED
    BY <1>1 DEF SameOrigin, EntryRow

LEMMA HandlerLoadsKeep ==
  ASSUME IInv, NEW r \in Request, NEW u \in User, NEW e \in Entry,
         NEW s \in Durations \cup {entries[e].duration},
         LoadToUpdate(r, u, e, s) \/ LoadToDelete(r, u, e) \/ FindRunning(r, u, e)
  PROVE  IInv'
  <1>1. entries[e] \in EntryRow /\ s \in Nat
    BY ConstantsAssumption DEF IInv, Typed, EntryRow
  <1>2. CASE LoadToUpdate(r, u, e, s)
    <2> DEFINE q == [Idle EXCEPT !.kind = "update", !.pc = "select", !.user = u,
                                 !.task = entries[e].task, !.entry = e,
                                 !.entity = [entries[e] EXCEPT !.duration = s]]
    <2>1. [entries[e] EXCEPT !.duration = s] \in EntryRow
      BY <1>1 DEF EntryRow
    <2>2. q \in RequestState
      BY <1>1, <2>1, RowTypes DEF RequestState, EntryRow, PC, Kind
    <2>3. /\ q.pc = "select" /\ q.entry = e /\ q.user = u /\ q.task = entries[e].task
          /\ q.entity = [entries[e] EXCEPT !.duration = s]
      BY DEF Idle
    <2>4. SameOrigin(q.entity, entries[e]) /\ q.entity.row = entries[e].row
      BY <1>1, <2>3 DEF SameOrigin, EntryRow
    <2> QED
      BY <1>2, <2>2, <2>3, <2>4, LoadKeeps DEF LoadToUpdate, OwnEntry, Becomes, Exists
  <1>3. CASE LoadToDelete(r, u, e)
    <2> DEFINE q == [Idle EXCEPT !.kind = "delete", !.pc = "remove", !.user = u,
                                 !.task = entries[e].task, !.entry = e]
    <2>1. q \in RequestState
      BY <1>1, RowTypes DEF RequestState, EntryRow, PC, Kind
    <2>2. q.pc = "remove" /\ q.entry = e /\ q.user = u /\ q.task = entries[e].task
      BY DEF Idle
    <2> QED
      BY <1>3, <2>1, <2>2, LoadKeeps DEF LoadToDelete, OwnEntry, Becomes
  <1>4. CASE FindRunning(r, u, e)
    <2> DEFINE q == [Idle EXCEPT !.kind = "stop", !.pc = "select", !.user = u,
                                 !.task = entries[e].task, !.entry = e,
                                 !.entity = StoppedTimer(entries[e], clock)]
    <2>1. Exists(entries[e]) /\ entries[e].user = u /\ entries[e].type = "timer"
      BY <1>4 DEF FindRunning, RunningTimers
    <2>2. clock \in Nat /\ (clock - entries[e].started) \div TicksPerSecond \in Nat
      BY <2>1, ElapsedType DEF IInv, Typed, TimersBegun, Begun
    <2>3. StoppedTimer(entries[e], clock) \in EntryRow
      BY <1>1, <2>2 DEF StoppedTimer, EntryRow, Time
    <2>4. q \in RequestState
      BY <1>1, <2>3, RowTypes DEF RequestState, EntryRow, PC, Kind
    <2>5. /\ q.pc = "select" /\ q.entry = e /\ q.user = u /\ q.task = entries[e].task
          /\ q.entity = StoppedTimer(entries[e], clock)
      BY DEF Idle
    <2>6. SameOrigin(q.entity, entries[e]) /\ q.entity.row = entries[e].row
      <3> HIDE DEF q
      <3> QED
        BY <1>1, <2>5, StoppedSameOrigin
    <2> QED
      BY <1>4, <2>1, <2>4, <2>5, <2>6, LoadKeeps DEF FindRunning, Becomes, Exists
  <1> QED
    BY <1>2, <1>3, <1>4

------------------------------------------------------------------------------
(* The statements that follow *)

\* The record a request goes on with after it changed an entry.
LEMMA ProceedsKeeps ==
  ASSUME IInv, NEW r \in Request, Proceeds(r)
  PROVE  \E q \in RequestState : q.pc \notin Holding \cup {"insert"}
                                    /\ requests' = [requests EXCEPT ![r] = q]
  <1>1. CASE UpdatesTotal(requests[r].kind)
    <2> DEFINE q == [requests[r] EXCEPT !.pc = "sum", !.plan = {}, !.entity = NoEntryRow]
    <2>1. requests[r] \in RequestState
      BY DEF IInv, Typed
    <2>2. q \in RequestState /\ q.pc = "sum"
      BY <2>1, RowTypes DEF RequestState, PC
    <2> QED
      BY <1>1, <2>2 DEF Proceeds, Becomes, Holding, Editing
  <1>2. CASE ~UpdatesTotal(requests[r].kind)
    <2>1. Idle \in RequestState /\ Idle.pc = "idle"
      BY RowTypes DEF Idle
    <2> QED
      BY <1>2, <2>1 DEF Proceeds, Ends, Becomes, Holding, Editing
  <1> QED
    BY <1>1, <1>2

LEMMA SelectKeeps ==
  ASSUME IInv, NEW r \in Request, SelectEntry(r)
  PROVE  IInv'
  <1> DEFINE q == requests[r]
             plan == SavePlan(q.entity, entries[q.entry])
             new == [q EXCEPT !.pc = "write", !.plan = plan]
  <1>1. q \in RequestState /\ q.pc = "select" /\ HoldsOwn(r) /\ Begun(q.entity)
    BY DEF SelectEntry, IInv, Typed, TimersBegun, Ownership, Editing
  <1>2. DOMAIN q.entity = DOMAIN NoEntryRow /\ q.entity.row = "there"
    BY <1>1 DEF RequestState, EntryRow, NoEntryRow, HoldsOwn, Editing, Exists
  <1>3. plan \in SUBSET DOMAIN NoEntryRow
    BY <1>2 DEF SavePlan
  <1>4. IsInsert(plan) => plan = DOMAIN NoEntryRow
    BY <1>2 DEF SavePlan, IsInsert, Exists
  <1>5. /\ new \in RequestState /\ new.pc = "write" /\ new.plan = plan
        /\ new.entity = q.entity /\ new.entry = q.entry
        /\ new.user = q.user /\ new.task = q.task
    BY <1>1, <1>3 DEF RequestState, PC
  <1>6. requests' = [requests EXCEPT ![r] = new] /\ UNCHANGED <<entries, clock>>
    BY DEF SelectEntry, Becomes
  <1> HIDE DEF new, plan, q
  <1>7. ASSUME NEW s \in Request
        PROVE  requests'[s] = IF s = r THEN new ELSE requests[s]
    BY <1>6 DEF IInv, Typed
  <1>8. Typed'
    BY <1>5, <1>6 DEF IInv, Typed
  <1>9. TimersBegun'
    BY <1>1, <1>5, <1>6, <1>7 DEF IInv, TimersBegun, Begun, Editing, q
  <1>10. \A s \in Request : HoldsOwn(s)'
    BY <1>1, <1>4, <1>5, <1>6, <1>7 DEF IInv, Ownership, HoldsOwn, Holding, Editing, q
  <1>11. \A s, t \in Request : HoldAlike(s, t)'
    BY <1>1, <1>5, <1>6, <1>7 DEF IInv, Ownership, HoldAlike, Holding, Editing, q
  <1> QED
    BY <1>8, <1>9, <1>10, <1>11 DEF IInv, Ownership

\* What a save leaves in the row, when it hits it.
LEMMA SavedRow ==
  ASSUME IInv, NEW r \in Request, requests[r].pc = "write",
         SaveHits(requests[r].plan, entries[requests[r].entry]),
         ~SaveFails(requests[r].plan, entries[requests[r].entry]),
         NEW row, row = SavedEntry(requests[r].plan, requests[r].entity,
                                   entries[requests[r].entry])
  PROVE  row \in EntryRow /\ Exists(row) /\ SameOrigin(row, requests[r].entity)
  <1>1. /\ requests[r] \in RequestState /\ requests[r].entry \in Entry
        /\ entries[requests[r].entry] \in EntryRow
    BY DEF IInv, Typed, Ownership, HoldsOwn, Holding, Editing
  <1>2. row \in EntryRow
    BY <1>1 DEF SavedEntry, Written, EntryRow, RequestState
  <1>3. CASE Exists(entries[requests[r].entry])
    <2>1. /\ SameOrigin(requests[r].entity, entries[requests[r].entry])
          /\ Exists(requests[r].entity)
      BY <1>3 DEF IInv, Ownership, HoldsOwn, Editing
    <2> QED
      BY <1>2, <1>3, <2>1 DEF SavedEntry, Written, SameOrigin, Exists
  <1>4. CASE ~Exists(entries[requests[r].entry])
    <2>1. requests[r].plan = DOMAIN NoEntryRow /\ Exists(requests[r].entity)
      BY <1>4 DEF SaveHits, IInv, Ownership, HoldsOwn, Editing
    <2>2. \A f \in {"row", "user", "task", "type", "started"} : f \in requests[r].plan
      BY <2>1 DEF NoEntryRow
    <2> QED
      BY <1>2, <2>1, <2>2 DEF SavedEntry, Written, SameOrigin, Exists
  <1> QED
    BY <1>3, <1>4

LEMMA WriteKeeps ==
  ASSUME IInv, NEW r \in Request, WriteEntry(r)
  PROVE  IInv'
  <1> DEFINE old == entries[requests[r].entry]
             row == SavedEntry(requests[r].plan, requests[r].entity, old)
  <1>1. PICK q \in RequestState : /\ q.pc \notin Holding \cup {"insert"}
                                  /\ requests' = [requests EXCEPT ![r] = q]
    <2>1. CASE SaveFails(requests[r].plan, old)
      BY <2>1, RowTypes DEF WriteEntry, Ends, Becomes, Idle, Holding, Editing
    <2>2. CASE ~SaveFails(requests[r].plan, old)
      BY <2>2, ProceedsKeeps DEF WriteEntry
    <2> QED
      BY <2>1, <2>2
  <1>2. UNCHANGED clock
    BY DEF WriteEntry
  <1>3. CASE SaveHits(requests[r].plan, old) /\ ~SaveFails(requests[r].plan, old)
    <2>1. /\ entries' = [entries EXCEPT ![requests[r].entry] = row]
          /\ requests[r].pc = "write" /\ requests[r].entry \in Entry /\ HoldsOwn(r)
      BY <1>3 DEF WriteEntry, IInv, Ownership, HoldsOwn, Holding, Editing
    <2>2. row \in EntryRow /\ Exists(row) /\ SameOrigin(row, requests[r].entity)
      BY <1>3, <2>1, SavedRow
    <2>3. /\ Exists(row) /\ row.user = requests[r].user /\ row.task = requests[r].task
          /\ Begun(row) /\ row.row # "none"
      BY <2>1, <2>2 DEF HoldsOwn, Editing, SameOrigin, IInv, TimersBegun, Begun, Exists
    <2> HIDE DEF row, old
    <2>4. ASSUME NEW s \in Request
          PROVE  requests'[s] = IF s = r THEN q ELSE requests[s]
      BY <1>1 DEF IInv, Typed
    <2>5. ASSUME NEW e \in Entry
          PROVE  entries'[e] = IF e = requests[r].entry THEN row ELSE entries[e]
      BY <2>1 DEF IInv, Typed
    <2>6. Typed'
      BY <1>1, <1>2, <2>1, <2>2 DEF IInv, Typed
    <2>7. TimersBegun'
      BY <1>1, <1>2, <2>3, <2>4, <2>5 DEF IInv, TimersBegun, Begun, Holding, Editing
    <2>8. ASSUME NEW s \in Request PROVE HoldsOwn(s)'
      <3>1. CASE s = r
        BY <1>1, <2>4, <3>1 DEF HoldsOwn, Holding, Editing
      <3>2. CASE s # r
        <4>1. HoldsOwn(s) /\ HoldAlike(s, r)
          BY DEF IInv, Ownership
        <4>2. CASE requests[s].entry = requests[r].entry
          BY <2>1, <2>2, <2>3, <2>4, <2>5, <3>2, <4>1, <4>2
          DEF HoldsOwn, HoldAlike, SameOrigin, Holding, Editing
        <4>3. CASE requests[s].entry # requests[r].entry
          BY <2>4, <2>5, <3>2, <4>1, <4>3 DEF HoldsOwn, Holding
        <4> QED
          BY <4>2, <4>3
      <3> QED
        BY <3>1, <3>2
    <2>9. \A s, t \in Request : HoldAlike(s, t)'
      BY <1>1, <2>4 DEF IInv, Ownership, HoldAlike, Holding, Editing
    <2> QED
      BY <2>6, <2>7, <2>8, <2>9 DEF IInv, Ownership
  <1>4. CASE ~(SaveHits(requests[r].plan, old) /\ ~SaveFails(requests[r].plan, old))
    <2>1. UNCHANGED entries
      BY <1>4 DEF WriteEntry
    <2> QED
      BY <1>1, <1>2, <2>1, ReleaseKeeps
  <1> QED
    BY <1>3, <1>4

\* A row that no request but r holds, or that is gone.
LEMMA InsertKeeps ==
  ASSUME IInv, NEW r \in Request, NEW e \in Entry, InsertEntry(r, e)
  PROVE  IInv'
  <1>1. PICK q \in RequestState : /\ q.pc \notin Holding \cup {"insert"}
                                  /\ requests' = [requests EXCEPT ![r] = q]
    BY ProceedsKeeps DEF InsertEntry
  <1>2. /\ requests[r].pc = "insert" /\ entries[e].row = "none" /\ UNCHANGED clock
        /\ entries' = [entries EXCEPT ![e] = requests[r].entity]
    BY DEF InsertEntry
  <1>3. requests[r].entity \in EntryRow /\ Begun(requests[r].entity)
    BY <1>2 DEF IInv, Typed, RequestState, TimersBegun
  <1>4. ASSUME NEW s \in Request
        PROVE  requests'[s] = IF s = r THEN q ELSE requests[s]
    BY <1>1 DEF IInv, Typed
  <1>5. ASSUME NEW f \in Entry
        PROVE  entries'[f] = IF f = e THEN requests[r].entity ELSE entries[f]
    BY <1>2 DEF IInv, Typed
  <1>6. \A s \in Request : requests[s].pc \in Holding => requests[s].entry # e
    BY <1>2 DEF IInv, Ownership, HoldsOwn
  <1>7. Typed'
    BY <1>1, <1>2, <1>3 DEF IInv, Typed
  <1>8. TimersBegun'
    BY <1>1, <1>2, <1>3, <1>4, <1>5 DEF IInv, TimersBegun, Begun, Holding, Editing
  <1>9. \A s \in Request : HoldsOwn(s)'
    BY <1>1, <1>4, <1>5, <1>6 DEF IInv, Ownership, HoldsOwn, Holding, Editing
  <1>10. \A s, t \in Request : HoldAlike(s, t)'
    BY <1>1, <1>4 DEF IInv, Ownership, HoldAlike, Holding, Editing
  <1> QED
    BY <1>7, <1>8, <1>9, <1>10 DEF IInv, Ownership

LEMMA RemoveKeeps ==
  ASSUME IInv, NEW r \in Request, RemoveEntry(r)
  PROVE  IInv'
  <1> DEFINE gone == [NoEntryRow EXCEPT !.row = "removed"]
  <1>1. PICK q \in RequestState : /\ q.pc \notin Holding \cup {"insert"}
                                  /\ requests' = [requests EXCEPT ![r] = q]
    BY ProceedsKeeps DEF RemoveEntry
  <1>2. UNCHANGED clock
    BY DEF RemoveEntry
  <1>3. CASE ~Exists(entries[requests[r].entry])
    BY <1>1, <1>2, <1>3, ReleaseKeeps DEF RemoveEntry
  <1>4. CASE Exists(entries[requests[r].entry])
    <2>1. gone \in EntryRow
      BY RowTypes
    <2>2. gone.row = "removed"
      BY DEF NoEntryRow
    <2>3. ~Exists(gone) /\ gone.row # "none"
      BY <2>2 DEF Exists
    <2>4. entries' = [entries EXCEPT ![requests[r].entry] = gone]
      BY <1>4 DEF RemoveEntry
    <2> HIDE DEF gone
    <2>5. ASSUME NEW s \in Request
          PROVE  requests'[s] = IF s = r THEN q ELSE requests[s]
      BY <1>1 DEF IInv, Typed
    <2>6. ASSUME NEW e \in Entry
          PROVE  entries'[e] = IF e = requests[r].entry THEN gone ELSE entries[e]
      BY <2>4 DEF IInv, Typed
    <2>7. Typed'
      BY <1>1, <1>2, <2>1, <2>4 DEF IInv, Typed
    <2>8. TimersBegun'
      BY <1>1, <1>2, <2>3, <2>5, <2>6 DEF IInv, TimersBegun, Begun, Holding, Editing
    <2>9. \A s \in Request : HoldsOwn(s)'
      BY <1>1, <2>3, <2>5, <2>6 DEF IInv, Ownership, HoldsOwn, Holding, Editing
    <2>10. \A s, t \in Request : HoldAlike(s, t)'
      BY <1>1, <2>5 DEF IInv, Ownership, HoldAlike, Holding, Editing
    <2> QED
      BY <2>7, <2>8, <2>9, <2>10 DEF IInv, Ownership
  <1> QED
    BY <1>3, <1>4

\* The statements that do not touch time_entries.
LEMMA OtherStatementsKeep ==
  ASSUME IInv, NEW r \in Request,
         \/ \E t \in Task : LoadTask(r, t)
         \/ SumEntries(r) \/ StoreTotal(r) \/ SelectTask(r) \/ WriteTask(r) \/ Abort(r)
  PROVE  IInv'
  <1>1. requests[r] \in RequestState
    BY DEF IInv, Typed
  <1>2. Idle \in RequestState /\ Idle.pc = "idle"
    BY RowTypes DEF Idle
  <1>3. UNCHANGED <<entries, clock>>
    BY DEF SumEntries, StoreTotal, LoadTask, SelectTask, WriteTask, Abort
  <1>4. \E q \in RequestState : q.pc \notin Holding \cup {"insert"}
                                    /\ requests' = [requests EXCEPT ![r] = q]
    <2>1. CASE SumEntries(r)
      <3> DEFINE q == [requests[r] EXCEPT !.pc = "store"]
      <3>1. q \in RequestState /\ q.pc = "store"
        BY <1>1 DEF RequestState, PC
      <3> QED
        BY <2>1, <3>1 DEF SumEntries, Becomes, Holding, Editing
    <2>2. ASSUME NEW t \in Task, LoadTask(r, t)
          PROVE  \E q \in RequestState : q.pc \notin Holding \cup {"insert"}
                                    /\ requests' = [requests EXCEPT ![r] = q]
      <3> DEFINE q == [Idle EXCEPT !.kind = "taskSave", !.pc = "taskSelect", !.task = t]
      <3>1. q \in RequestState /\ q.pc = "taskSelect"
        BY <1>2 DEF RequestState, PC, Kind
      <3> QED
        BY <2>2, <3>1 DEF LoadTask, Becomes, Holding, Editing
    <2>3. CASE SelectTask(r)
      <3> DEFINE differs == sums[r] # totals[requests[r].task]
                 q == [requests[r] EXCEPT !.pc = "taskWrite", !.writesTotal = differs]
      <3>1. q \in RequestState /\ q.pc = "taskWrite"
        BY <1>1 DEF RequestState, PC
      <3> QED
        BY <2>3, <3>1 DEF SelectTask, Becomes, Holding, Editing
    <2>4. CASE StoreTotal(r) \/ WriteTask(r) \/ Abort(r)
      BY <1>2, <2>4 DEF StoreTotal, WriteTask, Abort, Ends, Becomes, Holding, Editing
    <2> QED
      BY <2>1, <2>2, <2>3, <2>4
  <1> QED
    BY <1>3, <1>4, ReleaseKeeps

LEMMA TickKeeps == ASSUME IInv, Tick PROVE IInv'
  <1>1. clock' = clock + 1 /\ clock \in Nat /\ UNCHANGED <<entries, requests>>
    BY DEF Tick, IInv, Typed
  <1>2. TimersBegun'
    BY <1>1 DEF IInv, TimersBegun, Begun
  <1> QED
    BY <1>1, <1>2 DEF IInv, Typed, Ownership, HoldsOwn, HoldAlike

LEMMA NextKeeps == IInv /\ [Next]_vars => IInv'
  <1> SUFFICES ASSUME IInv, [Next]_vars PROVE IInv'
    OBVIOUS
  <1>1. CASE Tick
    BY <1>1, TickKeeps
  <1>2. ASSUME NEW r \in Request, Step(r) PROVE IInv'
    <2>1. ASSUME NEW u \in User, NEW t \in Task, NEW s \in Durations, BeginCreate(r, u, t, s)
          PROVE  IInv'
      BY <2>1, BeginCreateKeeps
    <2>2. ASSUME NEW u \in User, NEW t \in Task, FindNoRunning(r, u, t) PROVE IInv'
      BY <2>2, FindNoRunningKeeps
    <2>3. ASSUME NEW e \in Entry, InsertEntry(r, e) PROVE IInv'
      BY <2>3, InsertKeeps
    <2>4. ASSUME NEW u \in User, NEW e \in Entry, NEW s \in Durations \cup {entries[e].duration},
                 LoadToUpdate(r, u, e, s) \/ LoadToDelete(r, u, e) \/ FindRunning(r, u, e)
          PROVE  IInv'
      BY <2>4, HandlerLoadsKeep
    <2>5. CASE SelectEntry(r)
      BY <2>5, SelectKeeps
    <2>6. CASE WriteEntry(r)
      BY <2>6, WriteKeeps
    <2>7. CASE RemoveEntry(r)
      BY <2>7, RemoveKeeps
    <2>8. CASE SumEntries(r) \/ StoreTotal(r) \/ SelectTask(r) \/ WriteTask(r) \/ Abort(r)
      BY <2>8, OtherStatementsKeep
    <2>9. ASSUME NEW t \in Task, LoadTask(r, t) PROVE IInv'
      BY <2>9, OtherStatementsKeep
    <2> QED
      BY <1>2, <2>1, <2>2, <2>3, <2>4, <2>5, <2>6, <2>7, <2>8, <2>9 DEF Step
  <1>3. CASE UNCHANGED vars
    BY <1>3 DEF vars, IInv, Typed, TimersBegun, Begun, Ownership, HoldsOwn, HoldAlike
  <1> QED
    BY <1>1, <1>2, <1>3 DEF Next

------------------------------------------------------------------------------

\* A step that changes a row that is there is a write or a removal by a request
\* that holds the row and knows whose it is.
LEMMA ChangeByHolder ==
  ASSUME IInv, [Next]_vars, NEW e \in Entry, entries[e]' # entries[e], Exists(entries[e])
  PROVE  \E r \in Request : /\ requests[r].pc \in Holding /\ requests[r].entry = e
                            /\ WriteEntry(r) \/ RemoveEntry(r)
  <1>1. entries' # entries
    OBVIOUS
  <1>2. PICK r \in Request :
            (\E f \in Entry : InsertEntry(r, f)) \/ WriteEntry(r) \/ RemoveEntry(r)
    BY <1>1 DEF Next, Tick, Step, vars, BeginCreate, FindNoRunning, LoadToUpdate, LoadToDelete,
                FindRunning, SelectEntry, SumEntries, StoreTotal, LoadTask, SelectTask,
                WriteTask, Abort
  <1>3. ASSUME NEW f \in Entry, InsertEntry(r, f) PROVE FALSE
    BY <1>3 DEF InsertEntry, IInv, Typed, Exists
  <1>4. CASE WriteEntry(r)
    <2>1. requests[r].pc \in Holding /\ requests[r].entry = e
      BY <1>4 DEF WriteEntry, IInv, Typed, Holding, Editing
    <2> QED
      BY <1>4, <2>1
  <1>5. CASE RemoveEntry(r)
    <2>1. requests[r].pc \in Holding /\ requests[r].entry = e
      BY <1>5 DEF RemoveEntry, IInv, Typed, Holding
    <2> QED
      BY <1>5, <2>1
  <1> QED
    BY <1>2, <1>3, <1>4, <1>5

\* A write leaves user and task of a row as they were; a removal leaves no row.
LEMMA ChangeKeepsOwner ==
  ASSUME IInv, NEW r \in Request, WriteEntry(r) \/ RemoveEntry(r),
         NEW e \in Entry, requests[r].entry = e, entries'[e] # entries[e],
         Exists(entries[e]), Exists(entries'[e])
  PROVE  entries'[e].user = entries[e].user /\ entries'[e].task = entries[e].task
  <1>1. CASE WriteEntry(r)
    <2> DEFINE row == SavedEntry(requests[r].plan, requests[r].entity, entries[e])
    <2>1. /\ SaveHits(requests[r].plan, entries[e]) /\ ~SaveFails(requests[r].plan, entries[e])
          /\ entries'[e] = row /\ requests[r].pc = "write"
      BY <1>1 DEF WriteEntry, IInv, Typed
    <2>2. SameOrigin(row, requests[r].entity)
      BY <2>1, SavedRow
    <2>3. SameOrigin(requests[r].entity, entries[e])
      BY <2>1 DEF IInv, Ownership, HoldsOwn, Editing
    <2> QED
      BY <2>1, <2>2, <2>3 DEF SameOrigin
  <1>2. CASE RemoveEntry(r)
    <2> DEFINE gone == [NoEntryRow EXCEPT !.row = "removed"]
    <2>1. gone.row = "removed"
      BY DEF NoEntryRow
    <2>2. entries'[e] = gone
      <3> HIDE DEF gone
      <3> QED
        BY <1>2 DEF RemoveEntry, IInv, Typed, gone
    <2> QED
      BY <2>1, <2>2 DEF Exists
  <1> QED
    BY <1>1, <1>2

\* However many requests interleave and wherever they die, every change of a
\* row of time_entries is made by a request of the user the entry belongs to,
\* and none gives the entry to another user or task.
THEOREM OnlyItsUser == Spec => OnlyItsUserChanges
  <1> DEFINE Owned == \A e \in Entry : entries[e]' # entries[e] /\ Exists(entries[e]) =>
        /\ \E r \in Request : /\ requests[r].entry = e /\ requests[r].pc # "idle"
                              /\ requests[r].user = entries[e].user
        /\ Exists(entries[e])' => /\ entries[e].user' = entries[e].user
                                  /\ entries[e].task' = entries[e].task
  <1>1. IInv /\ [Next]_vars => [Owned]_vars
    <2> SUFFICES ASSUME IInv, [Next]_vars,
                        NEW e \in Entry, entries[e]' # entries[e], Exists(entries[e])
                 PROVE  /\ \E r \in Request : /\ requests[r].entry = e
                                              /\ requests[r].pc # "idle"
                                              /\ requests[r].user = entries[e].user
                        /\ Exists(entries[e])' => /\ entries[e].user' = entries[e].user
                                                  /\ entries[e].task' = entries[e].task
      OBVIOUS
    <2>1. PICK r \in Request : /\ requests[r].pc \in Holding /\ requests[r].entry = e
                               /\ WriteEntry(r) \/ RemoveEntry(r)
      BY ChangeByHolder
    <2>2. requests[r].pc # "idle" /\ requests[r].user = entries[e].user
      BY <2>1 DEF IInv, Ownership, HoldsOwn, Holding, Editing
    <2>3. Exists(entries[e])' => /\ entries[e].user' = entries[e].user
                                 /\ entries[e].task' = entries[e].task
      BY <2>1, ChangeKeepsOwner
    <2> QED
      BY <2>1, <2>2, <2>3
  <1> QED
    BY InitIInv, NextKeeps, <1>1, PTL DEF Spec, OnlyItsUserChanges

\* Rows and requests keep their types, and no timer begins after the present:
\* the seconds stopTimer computes are never negative.
THEOREM DurationsAreNatural == Spec => [](Typed /\ TimersBegun)
  <1>1. IInv => Typed /\ TimersBegun
    BY DEF IInv
  <1> QED
    BY InitIInv, NextKeeps, <1>1, PTL DEF Spec
------------------------------------------------------------------------------
(* One timer per user.  As long as no two requests of a user have been in    *)
(* flight together, the one that is may rely on what it found: that no timer *)
(* runs, or that the row it holds is there and as it was loaded.             *)

Found(q) ==
    /\ q.pc = "insert" /\ q.entity.type = "timer" => RunningTimers(q.user) = {}
    /\ q.pc \in Editing =>
          /\ Exists(entries[q.entry])
          /\ q.entity.ended = Never => entries[q.entry].ended = Never
          /\ entries[q.entry].ended # Never => q.entity.ended = entries[q.entry].ended

Solo(u) ==
    u \notin overlapped =>
        /\ \A r, s \in Request : requests[r].user = u /\ requests[s].user = u => r = s
        /\ \A e, f \in RunningTimers(u) : e = f
        /\ \A r \in Request : requests[r].user = u => Found(requests[r])

Inserting == \A r \in Request :
    requests[r].pc = "insert" => requests[r].entity.user = requests[r].user /\ requests[r].user \in User

SoloInv == Inserting /\ \A u \in User : Solo(u)

\* A step of r that turns its record into q, as every step of a request does.
Turns(r, q) ==
    /\ requests' = [requests EXCEPT ![r] = q]
    /\ overlapped \subseteq overlapped'
    /\ Concerns(q) \cap UNION {Concerns(requests[s]) : s \in Request \ {r}} \subseteq overlapped'

LEMMA TurnedAlone ==
  ASSUME IInv, NEW r \in Request, NEW q, Turns(r, q), NEW u \in User, Solo(u), u \notin overlapped'
  PROVE  /\ \A s, x \in Request : requests'[s].user = u /\ requests'[x].user = u => s = x
         /\ u \notin overlapped
         /\ \A s \in Request : requests'[s] = IF s = r THEN q ELSE requests[s]
  <1>1. \A s \in Request : requests'[s] = IF s = r THEN q ELSE requests[s]
    BY DEF Turns, IInv, Typed
  <1>2. u \notin overlapped
    BY DEF Turns
  <1>3. \A s \in Request : s # r /\ requests[s].user = u => q.user # u
    <2> SUFFICES ASSUME NEW s \in Request, s # r, requests[s].user = u, q.user = u PROVE FALSE
      OBVIOUS
    <2>1. u \in Concerns(q) /\ u \in Concerns(requests[s])
      BY ConstantsAssumption DEF Concerns
    <2> QED
      BY <2>1 DEF Turns
  <1> QED
    BY <1>1, <1>2, <1>3 DEF Solo

\* The rows stay as they are.
LEMMA TurnsSolo ==
  ASSUME IInv, SoloInv, NEW r \in Request, NEW q, Turns(r, q), UNCHANGED entries, Found(q),
         q.pc = "insert" => q.entity.user = q.user /\ q.user \in User
  PROVE  SoloInv'
  <1>1. Inserting'
    BY DEF SoloInv, Inserting, Turns, IInv, Typed
  <1>2. ASSUME NEW u \in User PROVE Solo(u)'
    <2> SUFFICES ASSUME u \notin overlapped'
                 PROVE  /\ \A s, x \in Request : requests'[s].user = u /\ requests'[x].user = u => s = x
                        /\ \A e, f \in RunningTimers(u)' : e = f
                        /\ \A s \in Request : requests'[s].user = u => Found(requests[s])'
      BY DEF Solo
    <2>1. RunningTimers(u)' = RunningTimers(u)
      BY DEF RunningTimers
    <2>2. \A x : RunningTimers(x)' = RunningTimers(x)
      BY DEF RunningTimers
    <2>3. \A s \in Request : Found(requests[s])' <=> IF s = r THEN Found(q) ELSE Found(requests[s])
      BY <2>2, TurnedAlone DEF SoloInv, Found
    <2> QED
      BY <2>1, <2>3, TurnedAlone DEF SoloInv, Solo
  <1> QED
    BY <1>1, <1>2 DEF SoloInv

\* r is done with the table: no timer of u starts, and no row that another
\* request of u holds changes.
LEMMA ReleaseSolo ==
  ASSUME IInv, SoloInv, NEW r \in Request, NEW q, Turns(r, q), q.pc \notin Editing \cup {"insert"},
         NEW u \in User,
         u \notin overlapped => RunningTimers(u)' \subseteq RunningTimers(u),
         \A s \in Request \ {r} : requests[s].user = u /\ requests[s].pc \in Editing =>
             entries'[requests[s].entry] = entries[requests[s].entry]
  PROVE  Solo(u)'
  <1> SUFFICES ASSUME u \notin overlapped'
               PROVE  /\ \A s, x \in Request : requests'[s].user = u /\ requests'[x].user = u => s = x
                      /\ \A e, f \in RunningTimers(u)' : e = f
                      /\ \A s \in Request : requests'[s].user = u => Found(requests[s])'
    BY DEF Solo
  <1>1. /\ u \notin overlapped /\ Solo(u)
        /\ \A s \in Request : requests'[s] = IF s = r THEN q ELSE requests[s]
        /\ \A s, x \in Request : requests'[s].user = u /\ requests'[x].user = u => s = x
    BY TurnedAlone DEF SoloInv
  <1>2. \A e, f \in RunningTimers(u)' : e = f
    BY <1>1 DEF Solo
  <1>3. ASSUME NEW s \in Request, requests'[s].user = u PROVE Found(requests[s])'
    <2>1. CASE s = r
      BY <1>1, <2>1 DEF Found
    <2>2. CASE s # r
      <3>1. requests'[s] = requests[s] /\ Found(requests[s])
        BY <1>1, <1>3, <2>2 DEF Solo
      <3> QED
        BY <1>1, <1>3, <2>2, <3>1 DEF Found
    <2> QED
      BY <2>1, <2>2
  <1> QED
    BY <1>1, <1>2, <1>3
LEMMA BecomesTurns ==
  ASSUME NEW r \in Request, NEW q, Becomes(r, q)
  PROVE  Turns(r, q)
  BY DEF Becomes, Turns

LEMMA IdleFound == Found(Idle) /\ Idle.pc = "idle"
  BY DEF Found, Idle, Editing

\* What the handlers find before their first statement.
LEMMA BeginsSolo ==
  ASSUME IInv, SoloInv, NEW r \in Request, NEW u \in User,
         \/ \E t \in Task, s \in Durations : BeginCreate(r, u, t, s)
         \/ \E t \in Task : FindNoRunning(r, u, t)
         \/ \E e \in Entry :
               \/ \E s \in Durations \cup {entries[e].duration} : LoadToUpdate(r, u, e, s)
               \/ LoadToDelete(r, u, e)
               \/ FindRunning(r, u, e)
  PROVE  SoloInv'
  <1>1. ASSUME NEW t \in Task, NEW s \in Durations, BeginCreate(r, u, t, s) PROVE SoloInv'
    <2> DEFINE q == [Idle EXCEPT !.kind = "create", !.pc = "insert", !.user = u, !.task = t,
                                 !.entity = NewEntry(u, t, "manual", s, Never)]
    <2>1. /\ q.pc = "insert" /\ q.user = u /\ q.entity.user = u /\ q.entity.type = "manual"
          /\ Becomes(r, q) /\ UNCHANGED entries
      BY <1>1 DEF BeginCreate, Idle, NewEntry
    <2> HIDE DEF q
    <2> QED
      BY <2>1, BecomesTurns, TurnsSolo DEF Found, Editing
  <1>2. ASSUME NEW t \in Task, FindNoRunning(r, u, t) PROVE SoloInv'
    <2> DEFINE q == [Idle EXCEPT !.kind = "start", !.pc = "insert", !.user = u, !.task = t,
                                 !.entity = NewEntry(u, t, "timer", 0, clock)]
    <2>1. /\ q.pc = "insert" /\ q.user = u /\ q.entity.user = u /\ RunningTimers(u) = {}
          /\ Becomes(r, q) /\ UNCHANGED entries
      BY <1>2 DEF FindNoRunning, MayStart, Idle, NewEntry
    <2> HIDE DEF q
    <2> QED
      BY <2>1, BecomesTurns, TurnsSolo DEF Found, Editing
  <1>3. ASSUME NEW e \in Entry, NEW s \in Durations \cup {entries[e].duration}, LoadToUpdate(r, u, e, s)
        PROVE  SoloInv'
    <2> DEFINE q == [Idle EXCEPT !.kind = "update", !.pc = "select", !.user = u,
                                 !.task = entries[e].task, !.entry = e,
                                 !.entity = [entries[e] EXCEPT !.duration = s]]
    <2>1. entries[e] \in EntryRow
      BY DEF IInv, Typed
    <2>2. /\ q.pc = "select" /\ q.entry = e /\ q.entity.ended = entries[e].ended /\ Exists(entries[e])
          /\ Becomes(r, q) /\ UNCHANGED entries
      BY <1>3, <2>1 DEF LoadToUpdate, OwnEntry, Idle, EntryRow
    <2> HIDE DEF q
    <2> QED
      BY <2>2, BecomesTurns, TurnsSolo DEF Found, Editing
  <1>4. ASSUME NEW e \in Entry, LoadToDelete(r, u, e) PROVE SoloInv'
    <2> DEFINE q == [Idle EXCEPT !.kind = "delete", !.pc = "remove", !.user = u,
                                 !.task = entries[e].task, !.entry = e]
    <2>1. q.pc = "remove" /\ Becomes(r, q) /\ UNCHANGED entries
      BY <1>4 DEF LoadToDelete, Idle
    <2> HIDE DEF q
    <2> QED
      BY <2>1, BecomesTurns, TurnsSolo DEF Found, Editing
  <1>5. ASSUME NEW e \in Entry, FindRunning(r, u, e) PROVE SoloInv'
    <2> DEFINE q == [Idle EXCEPT !.kind = "stop", !.pc = "select", !.user = u,
                                 !.task = entries[e].task, !.entry = e,
                                 !.entity = StoppedTimer(entries[e], clock)]
    <2>1. entries[e] \in EntryRow /\ clock # Never
      BY ConstantsAssumption DEF IInv, Typed
    <2>2. /\ q.pc = "select" /\ q.entry = e /\ q.entity.ended = clock /\ entries[e].ended = Never
          /\ Exists(entries[e])
          /\ Becomes(r, q) /\ UNCHANGED entries
      BY <1>5, <2>1 DEF FindRunning, RunningTimers, StoppedTimer, Idle, EntryRow
    <2> HIDE DEF q
    <2>3. Found(q) /\ q.pc # "insert"
      BY <2>1, <2>2 DEF Found
    <2> QED
      BY <2>2, <2>3, BecomesTurns, TurnsSolo
  <1> QED
    BY <1>1, <1>2, <1>3, <1>4, <1>5

\* The statements that do not change time_entries.
LEMMA ReadsSolo ==
  ASSUME IInv, SoloInv, NEW r \in Request,
         \/ \E t \in Task : LoadTask(r, t)
         \/ SelectEntry(r) \/ SumEntries(r) \/ StoreTotal(r) \/ SelectTask(r) \/ WriteTask(r) \/ Abort(r)
  PROVE  SoloInv'
  <1>1. UNCHANGED entries /\ requests[r] \in RequestState
    BY DEF LoadTask, SelectEntry, SumEntries, StoreTotal, SelectTask, WriteTask, Abort, IInv, Typed
  <1>2. CASE SelectEntry(r)
    <2> DEFINE plan == SavePlan(requests[r].entity, entries[requests[r].entry])
               q == [requests[r] EXCEPT !.pc = "write", !.plan = plan]
    <2>1. requests[r].pc = "select" /\ Becomes(r, q) /\ UNCHANGED <<entries>>
      BY <1>2 DEF SelectEntry
    <2> HIDE DEF plan
    <2>2. /\ q.pc = "write" /\ q.user = requests[r].user /\ q.task = requests[r].task
          /\ q.entry = requests[r].entry /\ q.entity = requests[r].entity
      BY <1>1 DEF RequestState
    <2> HIDE DEF q
    <2>3. ASSUME NEW u \in User PROVE Solo(u)'
      <3> SUFFICES ASSUME u \notin overlapped'
                   PROVE  /\ \A s, x \in Request : requests'[s].user = u /\ requests'[x].user = u => s = x
                          /\ \A e, f \in RunningTimers(u)' : e = f
                          /\ \A s \in Request : requests'[s].user = u => Found(requests[s])'
        BY DEF Solo
      <3>1. /\ u \notin overlapped /\ Solo(u)
            /\ \A s \in Request : requests'[s] = IF s = r THEN q ELSE requests[s]
            /\ \A s, x \in Request : requests'[s].user = u /\ requests'[x].user = u => s = x
        BY <2>1, BecomesTurns, TurnedAlone DEF SoloInv
      <3>2. RunningTimers(u)' = RunningTimers(u)
        BY <2>1 DEF RunningTimers
      <3>3. \A x : RunningTimers(x)' = RunningTimers(x)
        BY <2>1 DEF RunningTimers
      <3>4. ASSUME NEW s \in Request, requests'[s].user = u PROVE Found(requests[s])'
        <4>1. Found(requests[s])
          BY <2>2, <3>1, <3>4 DEF Solo
        <4> QED
          BY <2>1, <2>2, <3>1, <3>3, <4>1 DEF Found, Editing
      <3> QED
        BY <3>1, <3>2, <3>4 DEF Solo
    <2>4. Inserting'
      BY <2>1, <2>2 DEF SoloInv, Inserting, Becomes, IInv, Typed
    <2> QED
      BY <2>3, <2>4 DEF SoloInv
  <1>3. ASSUME NEW q, Becomes(r, q), q.pc \notin Editing \cup {"insert"} PROVE SoloInv'
    <2>1. Found(q)
      BY <1>3 DEF Found
    <2> QED
      BY <1>1, <1>3, <2>1, BecomesTurns, TurnsSolo
  <1>4. CASE SumEntries(r)
    <2> DEFINE q == [requests[r] EXCEPT !.pc = "store"]
    <2>1. q.pc = "store"
      BY <1>1 DEF RequestState
    <2> QED
      BY <1>3, <1>4, <2>1 DEF SumEntries, Editing
  <1>5. ASSUME NEW t \in Task, LoadTask(r, t) PROVE SoloInv'
    <2> DEFINE q == [Idle EXCEPT !.kind = "taskSave", !.pc = "taskSelect", !.task = t]
    <2>1. q.pc = "taskSelect"
      BY DEF Idle
    <2> QED
      BY <1>3, <1>5, <2>1 DEF LoadTask, Editing
  <1>6. CASE SelectTask(r)
    <2> DEFINE differs == sums[r] # totals[requests[r].task]
               q == [requests[r] EXCEPT !.pc = "taskWrite", !.writesTotal = differs]
    <2>1. q.pc = "taskWrite"
      BY <1>1 DEF RequestState
    <2>2. Becomes(r, q)
      BY <1>6 DEF SelectTask
    <2> HIDE DEF q
    <2> QED
      BY <1>3, <2>1, <2>2 DEF Editing
  <1>7. CASE StoreTotal(r) \/ WriteTask(r)
    BY <1>3, <1>7, IdleFound DEF StoreTotal, WriteTask, Ends, Editing
  <1>8. CASE Abort(r)
    <2>1. Turns(r, Idle)
      BY <1>8 DEF Abort, Turns, Concerns, Idle
    <2> QED
      BY <1>1, <2>1, IdleFound, TurnsSolo
  <1> QED
    BY <1>2, <1>4, <1>5, <1>6, <1>7, <1>8
\* The statement that changed the entry is done.
LEMMA ProceedsTurns ==
  ASSUME IInv, NEW r \in Request, Proceeds(r) \/ Ends(r)
  PROVE  \E q : Turns(r, q) /\ q.pc \notin Editing \cup {"insert"}
  <1>1. requests[r] \in RequestState
    BY DEF IInv, Typed
  <1>2. CASE Ends(r)
    BY <1>2, BecomesTurns, IdleFound DEF Ends, Editing
  <1>3. CASE ~Ends(r)
    <2> DEFINE q == [requests[r] EXCEPT !.pc = "sum", !.plan = {}, !.entity = NoEntryRow]
    <2>1. q.pc = "sum"
      BY <1>1 DEF RequestState
    <2>2. Becomes(r, q)
      BY <1>3 DEF Proceeds
    <2> HIDE DEF q
    <2> QED
      BY <2>1, <2>2, BecomesTurns DEF Editing
  <1> QED
    BY <1>2, <1>3

LEMMA ReleaseInserting ==
  ASSUME IInv, SoloInv, NEW r \in Request, NEW q, Turns(r, q), q.pc \notin Editing \cup {"insert"}
  PROVE  Inserting'
  BY DEF SoloInv, Inserting, Turns, IInv, Typed

LEMMA InsertSolo ==
  ASSUME IInv, SoloInv, NEW r \in Request, NEW e \in Entry, InsertEntry(r, e)
  PROVE  SoloInv'
  <1> DEFINE v == requests[r].user
             new == requests[r].entity
  <1>1. /\ requests[r].pc = "insert" /\ entries[e].row = "none"
        /\ \A f \in Entry : entries'[f] = IF f = e THEN new ELSE entries[f]
        /\ new.user = v /\ v \in User
    BY DEF InsertEntry, IInv, Typed, SoloInv, Inserting
  <1>2. PICK q : Turns(r, q) /\ q.pc \notin Editing \cup {"insert"}
    BY ProceedsTurns DEF InsertEntry
  <1>3. ASSUME NEW u \in User PROVE Solo(u)'
    <2>1. \A s \in Request \ {r} : requests[s].pc \in Editing =>
             entries'[requests[s].entry] = entries[requests[s].entry]
      BY <1>1 DEF IInv, Ownership, HoldsOwn, Holding
    <2>2. CASE u # v \/ new.type # "timer"
      <3>1. RunningTimers(u)' \subseteq RunningTimers(u)
        BY <1>1, <2>2 DEF RunningTimers
      <3> QED
        BY <1>2, <2>1, <3>1, ReleaseSolo
    <2>3. CASE u = v /\ new.type = "timer"
      <3> SUFFICES ASSUME u \notin overlapped'
                   PROVE  /\ \A s, x \in Request : requests'[s].user = u /\ requests'[x].user = u => s = x
                          /\ \A f, g \in RunningTimers(u)' : f = g
                          /\ \A s \in Request : requests'[s].user = u => Found(requests[s])'
        BY DEF Solo
      <3>1. /\ u \notin overlapped /\ Solo(u)
            /\ \A s \in Request : requests'[s] = IF s = r THEN q ELSE requests[s]
            /\ \A s, x \in Request : requests'[s].user = u /\ requests'[x].user = u => s = x
        BY <1>2, TurnedAlone DEF SoloInv
      <3>2. RunningTimers(u) = {}
        BY <1>1, <2>3, <3>1 DEF Solo, Found
      <3>3. RunningTimers(u)' \subseteq {e}
        BY <1>1, <3>2 DEF RunningTimers
      <3>4. \A s \in Request : requests'[s].user = u => s = r
        BY <2>3, <3>1 DEF Solo
      <3>5. \A s \in Request : requests'[s].user = u => Found(requests[s])'
        BY <1>2, <3>1, <3>4 DEF Found
      <3> QED
        BY <3>1, <3>3, <3>5
    <2> QED
      BY <2>2, <2>3
  <1> QED
    BY <1>2, <1>3, ReleaseInserting DEF SoloInv

\* A write of an entry, and a removal.
LEMMA ChangeSolo ==
  ASSUME IInv, SoloInv, NEW r \in Request, WriteEntry(r) \/ RemoveEntry(r)
  PROVE  SoloInv'
  <1> DEFINE e == requests[r].entry
             v == requests[r].user
             old == entries[e]
  <1>1. /\ requests[r].pc \in Holding /\ e \in Entry /\ old \in EntryRow /\ (Exists(old) => old.user = v)
        /\ \A f \in Entry : f # e => entries'[f] = entries[f]
    BY DEF WriteEntry, RemoveEntry, IInv, Typed, Ownership, HoldsOwn, Holding, Editing
  <1>2. PICK q : Turns(r, q) /\ q.pc \notin Editing \cup {"insert"}
    BY ProceedsTurns DEF WriteEntry, RemoveEntry
  <1>3. Exists(entries'[e]) => \/ entries'[e] = old
                               \/ /\ requests[r].pc = "write" /\ entries'[e].user = v
                                  /\ entries'[e].ended \in {requests[r].entity.ended, old.ended}
                                  /\ Exists(old) => entries'[e].type = old.type
    <2>1. CASE WriteEntry(r) /\ entries' # entries
      <3> DEFINE row == SavedEntry(requests[r].plan, requests[r].entity, old)
      <3>1. /\ SaveHits(requests[r].plan, old) /\ ~SaveFails(requests[r].plan, old)
            /\ entries'[e] = row /\ requests[r].pc = "write"
        BY <1>1, <2>1 DEF WriteEntry, IInv, Typed
      <3>2. SameOrigin(row, requests[r].entity)
        BY <3>1, SavedRow
      <3>3. requests[r].entity.user = v /\ (Exists(old) => SameOrigin(requests[r].entity, old))
        BY <3>1 DEF IInv, Ownership, HoldsOwn, Editing
      <3>4. row.ended \in {requests[r].entity.ended, old.ended}
        BY DEF SavedEntry, Written
      <3> QED
        BY <3>1, <3>2, <3>3, <3>4 DEF SameOrigin
    <2>2. CASE RemoveEntry(r) /\ entries' # entries
      <3> DEFINE gone == [NoEntryRow EXCEPT !.row = "removed"]
      <3>1. gone.row = "removed"
        BY DEF NoEntryRow
      <3> HIDE DEF gone
      <3>2. entries'[e] = gone
        BY <1>1, <2>2 DEF RemoveEntry, IInv, Typed, gone
      <3> QED
        BY <3>1, <3>2 DEF Exists
    <2> QED
      BY <2>1, <2>2
  <1>4. ASSUME NEW u \in User PROVE Solo(u)'
    <2>1. ASSUME u # v PROVE RunningTimers(u)' \subseteq RunningTimers(u)
      BY <1>1, <1>3, <2>1 DEF RunningTimers
    <2>2. ASSUME u = v, u \notin overlapped PROVE RunningTimers(u)' \subseteq RunningTimers(u)
      <3>1. requests[r].pc = "write" => /\ Exists(old)
                                        /\ requests[r].entity.ended = Never => old.ended = Never
        BY <2>2 DEF SoloInv, Solo, Found, Editing
      <3> QED
        BY <1>1, <1>3, <2>2, <3>1 DEF RunningTimers
    <2>3. ASSUME NEW s \in Request \ {r}, requests[s].user = u, requests[s].pc \in Editing, u \notin overlapped
          PROVE  entries'[requests[s].entry] = entries[requests[s].entry]
      <3>1. requests[s].entry \in Entry
        BY <2>3 DEF IInv, Ownership, HoldsOwn, Holding
      <3>2. CASE requests[s].entry = e
        <4>1. v = u
          BY <1>1, <2>3, <3>2 DEF IInv, Ownership, HoldAlike, Holding
        <4> QED
          BY <2>3, <4>1 DEF SoloInv, Solo
      <3> QED
        BY <1>1, <3>1, <3>2
    <2>4. CASE u \in overlapped
      BY <1>2, <2>4 DEF Turns, Solo
    <2>5. CASE u \notin overlapped
      BY <1>2, <2>1, <2>2, <2>3, <2>5, ReleaseSolo
    <2> QED
      BY <2>4, <2>5
  <1> QED
    BY <1>2, <1>4, ReleaseInserting DEF SoloInv

LEMMA NextSolo == IInv /\ SoloInv /\ [Next]_vars => SoloInv'
  <1> SUFFICES ASSUME IInv, SoloInv, [Next]_vars PROVE SoloInv'
    OBVIOUS
  <1>1. ASSUME NEW r \in Request, Step(r) PROVE SoloInv'
    <2>1. ASSUME NEW e \in Entry, InsertEntry(r, e) PROVE SoloInv'
      BY <2>1, InsertSolo
    <2>2. CASE WriteEntry(r) \/ RemoveEntry(r)
      BY <2>2, ChangeSolo
    <2>3. CASE \/ \E t \in Task : LoadTask(r, t)
               \/ SelectEntry(r) \/ SumEntries(r) \/ StoreTotal(r) \/ SelectTask(r) \/ WriteTask(r)
               \/ Abort(r)
      BY <2>3, ReadsSolo
    <2>4. CASE \E u \in User :
                  \/ \E t \in Task, s \in Durations : BeginCreate(r, u, t, s)
                  \/ \E t \in Task : FindNoRunning(r, u, t)
                  \/ \E e \in Entry :
                        \/ \E s \in Durations \cup {entries[e].duration} : LoadToUpdate(r, u, e, s)
                        \/ LoadToDelete(r, u, e)
                        \/ FindRunning(r, u, e)
      BY <2>4, BeginsSolo
    <2> QED
      BY <1>1, <2>1, <2>2, <2>3, <2>4 DEF Step
  <1>2. CASE UNCHANGED <<entries, requests, overlapped>>
    <2>1. \A u : RunningTimers(u)' = RunningTimers(u)
      BY <1>2 DEF RunningTimers
    <2>2. \A r \in Request : Found(requests[r])' <=> Found(requests[r])
      BY <1>2, <2>1 DEF Found
    <2>3. Inserting'
      BY <1>2 DEF SoloInv, Inserting
    <2>4. \A u \in User : Solo(u)' <=> Solo(u)
      BY <1>2, <2>1, <2>2 DEF Solo
    <2> QED
      BY <2>3, <2>4 DEF SoloInv
  <1> QED
    BY <1>1, <1>2 DEF Next, Tick, vars

\* startTimer looks for a running timer before it inserts one and nothing else
\* keeps a second away: it holds for every user no two of whose requests were
\* in flight together, wherever they died and whatever others did.
THEOREM OneTimer == Spec => []OneTimerPerUser
  <1>1. Init => SoloInv
    <2> SUFFICES ASSUME Init PROVE SoloInv
      OBVIOUS
    <2>1. \A r \in Request : requests[r] = Idle /\ Idle.pc = "idle" /\ Idle.user = NoUser
      BY DEF Init, Idle
    <2>2. \A u : RunningTimers(u) = {}
      BY DEF Init, RunningTimers, NoEntryRow, Exists
    <2> QED
      BY <2>1, <2>2, ConstantsAssumption DEF SoloInv, Inserting, Solo
  <1>2. SoloInv => OneTimerPerUser
    <2> SUFFICES ASSUME SoloInv, NEW u \in User \ overlapped
                 PROVE  Cardinality(RunningTimers(u)) <= 1
      BY DEF OneTimerPerUser
    <2>1. \A e, f \in RunningTimers(u) : e = f
      BY DEF SoloInv, Solo
    <2>2. CASE RunningTimers(u) = {}
      BY <2>2, FS_EmptySet
    <2>3. CASE RunningTimers(u) # {}
      <3>1. PICK e : RunningTimers(u) = {e}
        BY <2>1, <2>3
      <3>2. Cardinality({e}) = 1
        BY FS_Singleton
      <3> QED
        BY <3>1, <3>2
    <2> QED
      BY <2>2, <2>3
  <1> QED
    BY InitIInv, NextKeeps, NextSolo, <1>1, <1>2, PTL DEF Spec
------------------------------------------------------------------------------
(* What was stopped or deleted stays so for whoever's requests do not overlap:  *)
(* the row a request of such a user writes is as it was loaded (Solo), but for  *)
(* the edit.                                                                    *)

HaveUsers ==
    /\ \A e \in Entry : Exists(entries[e]) => entries[e].user \in User
    /\ \A r \in Request : requests[r].pc \in Holding => requests[r].user \in User

\* A request that holds no entry keeps to those it has.
LEMMA UsersBecome ==
  ASSUME IInv, HaveUsers, NEW r \in Request, NEW q,
         requests' = [requests EXCEPT ![r] = q], q.pc \in Holding => q.user \in User,
         \A e \in Entry : Exists(entries'[e]) => \/ entries'[e] = entries[e]
                                                 \/ entries'[e].user \in User
  PROVE  HaveUsers'
  <1>1. \A s \in Request : requests'[s] = IF s = r THEN q ELSE requests[s]
    BY DEF IInv, Typed
  <1> QED
    BY <1>1 DEF HaveUsers

LEMMA NextUsers ==
  ASSUME IInv, SoloInv, HaveUsers, [Next]_vars
  PROVE  HaveUsers'
  <1>1. ASSUME NEW r \in Request, Step(r) PROVE HaveUsers'
    <2>1. requests[r] \in RequestState
      BY DEF IInv, Typed
    <2>2. ASSUME Proceeds(r) \/ Ends(r)
          PROVE  \E q : requests' = [requests EXCEPT ![r] = q] /\ q.pc \notin Holding
      <3>1. CASE Ends(r)
        <4>1. requests' = [requests EXCEPT ![r] = Idle]
          BY <3>1 DEF Ends, Becomes
        <4> QED
          BY <4>1, IdleFound DEF Holding, Editing
      <3>2. CASE ~Ends(r)
        <4> DEFINE q == [requests[r] EXCEPT !.pc = "sum", !.plan = {}, !.entity = NoEntryRow]
        <4>1. q.pc = "sum" /\ requests' = [requests EXCEPT ![r] = q]
          BY <2>1, <2>2, <3>2 DEF Proceeds, Becomes, RequestState
        <4> HIDE DEF q
        <4> QED
          BY <4>1 DEF Holding, Editing
      <3> QED
        BY <3>1, <3>2
    <2>3. ASSUME NEW e \in Entry, InsertEntry(r, e) PROVE HaveUsers'
      <3>1. /\ \A f \in Entry : entries'[f] = entries[f] \/ entries'[f] = requests[r].entity
            /\ requests[r].entity.user \in User
        BY <2>3 DEF InsertEntry, IInv, Typed, SoloInv, Inserting
      <3> QED
        BY <2>2, <2>3, <3>1, UsersBecome DEF InsertEntry
    <2>4. CASE WriteEntry(r)
      <3> DEFINE f == requests[r].entry
      <3>1. \A e \in Entry : e # f => entries'[e] = entries[e]
        BY <2>4 DEF WriteEntry, IInv, Typed
      <3>2. CASE entries' # entries
        <4> DEFINE row == SavedEntry(requests[r].plan, requests[r].entity, entries[f])
        <4>1. /\ requests[r].pc = "write" /\ f \in Entry
              /\ SaveHits(requests[r].plan, entries[f]) /\ ~SaveFails(requests[r].plan, entries[f])
              /\ entries'[f] = row
          BY <2>4, <3>2 DEF WriteEntry, IInv, Typed, Ownership, HoldsOwn, Holding, Editing
        <4>2. row.user = requests[r].entity.user /\ requests[r].entity.user = requests[r].user
          BY <4>1, SavedRow DEF SameOrigin, IInv, Ownership, HoldsOwn, Editing
        <4>3. requests[r].user \in User
          BY <4>1 DEF HaveUsers, Holding, Editing
        <4> HIDE DEF row
        <4>4. \A e \in Entry : entries'[e] = entries[e] \/ entries'[e].user \in User
          BY <3>1, <4>1, <4>2, <4>3
        <4> QED
          BY <2>2, <2>4, <4>4, UsersBecome DEF WriteEntry
      <3> QED
        BY <2>2, <2>4, <3>2, UsersBecome DEF WriteEntry
    <2>5. CASE RemoveEntry(r)
      <3> DEFINE gone == [NoEntryRow EXCEPT !.row = "removed"]
      <3>1. ~Exists(gone)
        BY DEF NoEntryRow, Exists
      <3> HIDE DEF gone
      <3>2. \A e \in Entry : entries'[e] = entries[e] \/ entries'[e] = gone
        BY <2>5 DEF RemoveEntry, IInv, Typed, gone
      <3> QED
        BY <2>2, <2>5, <3>1, <3>2, UsersBecome DEF RemoveEntry
    <2>6. ASSUME NEW q, Becomes(r, q), q.pc \in Holding => q.user \in User, UNCHANGED entries
          PROVE  HaveUsers'
      BY <2>6, UsersBecome DEF Becomes
    <2>7. CASE StoreTotal(r) \/ WriteTask(r) \/ Abort(r)
      <3>1. requests' = [requests EXCEPT ![r] = Idle] /\ UNCHANGED entries
        BY <2>7 DEF StoreTotal, WriteTask, Abort, Ends, Becomes
      <3> QED
        BY <3>1, IdleFound, UsersBecome DEF Holding, Editing
    <2>8. CASE SumEntries(r)
      <3> DEFINE q == [requests[r] EXCEPT !.pc = "store"]
      <3>1. q.pc = "store" /\ Becomes(r, q) /\ UNCHANGED entries
        BY <2>1, <2>8 DEF SumEntries, RequestState
      <3> HIDE DEF q
      <3> QED
        BY <2>6, <3>1 DEF Holding, Editing
    <2>9. CASE SelectTask(r)
      <3> DEFINE differs == sums[r] # totals[requests[r].task]
                 q == [requests[r] EXCEPT !.pc = "taskWrite", !.writesTotal = differs]
      <3>1. Becomes(r, q) /\ UNCHANGED entries
        BY <2>9 DEF SelectTask
      <3>2. q.pc = "taskWrite"
        BY <2>1 DEF RequestState
      <3> HIDE DEF q
      <3> QED
        BY <2>6, <3>1, <3>2 DEF Holding, Editing
    <2>10. CASE SelectEntry(r)
      <3> DEFINE plan == SavePlan(requests[r].entity, entries[requests[r].entry])
                 q == [requests[r] EXCEPT !.pc = "write", !.plan = plan]
      <3>1. Becomes(r, q) /\ UNCHANGED entries /\ requests[r].user \in User
        BY <2>10 DEF SelectEntry, HaveUsers, Holding, Editing
      <3> HIDE DEF plan
      <3>2. q.user = requests[r].user
        BY <2>1 DEF RequestState
      <3> HIDE DEF q
      <3> QED
        BY <2>6, <3>1, <3>2
    <2>11. ASSUME NEW t \in Task, LoadTask(r, t) PROVE HaveUsers'
      <3> DEFINE q == [Idle EXCEPT !.kind = "taskSave", !.pc = "taskSelect", !.task = t]
      <3>1. q.pc = "taskSelect" /\ Becomes(r, q) /\ UNCHANGED entries
        BY <2>11 DEF LoadTask, Idle
      <3> HIDE DEF q
      <3> QED
        BY <2>6, <3>1 DEF Holding, Editing
    <2>12. ASSUME NEW u \in User,
                  \/ \E t \in Task, s \in Durations : BeginCreate(r, u, t, s)
                  \/ \E t \in Task : FindNoRunning(r, u, t)
                  \/ \E e \in Entry :
                        \/ \E s \in Durations \cup {entries[e].duration} : LoadToUpdate(r, u, e, s)
                        \/ LoadToDelete(r, u, e)
                        \/ FindRunning(r, u, e)
           PROVE  HaveUsers'
      <3>1. \A q : Becomes(r, q) /\ q.user = u /\ UNCHANGED entries => HaveUsers'
        BY <2>6
      <3>2. ASSUME NEW t \in Task, NEW s \in Durations, BeginCreate(r, u, t, s) PROVE HaveUsers'
        <4> DEFINE new == NewEntry(u, t, "manual", s, Never)
                   q == [Idle EXCEPT !.kind = "create", !.pc = "insert", !.user = u, !.task = t,
                                     !.entity = new]
        <4>1. Becomes(r, q) /\ UNCHANGED entries
          BY <3>2 DEF BeginCreate
        <4> HIDE DEF new
        <4>2. q.user = u
          BY DEF Idle
        <4> HIDE DEF q
        <4> QED
          BY <3>1, <4>1, <4>2
      <3>3. ASSUME NEW t \in Task, FindNoRunning(r, u, t) PROVE HaveUsers'
        <4> DEFINE new == NewEntry(u, t, "timer", 0, clock)
                   q == [Idle EXCEPT !.kind = "start", !.pc = "insert", !.user = u, !.task = t,
                                     !.entity = new]
        <4>1. Becomes(r, q) /\ UNCHANGED entries
          BY <3>3 DEF FindNoRunning
        <4> HIDE DEF new
        <4>2. q.user = u
          BY DEF Idle
        <4> HIDE DEF q
        <4> QED
          BY <3>1, <4>1, <4>2
      <3>4. ASSUME NEW e \in Entry, NEW s \in Durations \cup {entries[e].duration}, LoadToUpdate(r, u, e, s)
            PROVE  HaveUsers'
        <4> DEFINE new == [entries[e] EXCEPT !.duration = s]
                   q == [Idle EXCEPT !.kind = "update", !.pc = "select", !.user = u,
                                     !.task = entries[e].task, !.entry = e, !.entity = new]
        <4>1. Becomes(r, q) /\ UNCHANGED entries
          BY <3>4 DEF LoadToUpdate
        <4> HIDE DEF new
        <4>2. q.user = u
          BY DEF Idle
        <4> HIDE DEF q
        <4> QED
          BY <3>1, <4>1, <4>2
      <3>5. ASSUME NEW e \in Entry, LoadToDelete(r, u, e) PROVE HaveUsers'
        <4> DEFINE q == [Idle EXCEPT !.kind = "delete", !.pc = "remove", !.user = u,
                                     !.task = entries[e].task, !.entry = e]
        <4>1. Becomes(r, q) /\ UNCHANGED entries
          BY <3>5 DEF LoadToDelete
        <4>2. q.user = u
          BY DEF Idle
        <4> HIDE DEF q
        <4> QED
          BY <3>1, <4>1, <4>2
      <3>6. ASSUME NEW e \in Entry, FindRunning(r, u, e) PROVE HaveUsers'
        <4> DEFINE new == StoppedTimer(entries[e], clock)
                   q == [Idle EXCEPT !.kind = "stop", !.pc = "select", !.user = u,
                                     !.task = entries[e].task, !.entry = e, !.entity = new]
        <4>1. Becomes(r, q) /\ UNCHANGED entries
          BY <3>6 DEF FindRunning
        <4> HIDE DEF new
        <4>2. q.user = u
          BY DEF Idle
        <4> HIDE DEF q
        <4> QED
          BY <3>1, <4>1, <4>2
      <3> QED
        BY <2>12, <3>2, <3>3, <3>4, <3>5, <3>6
    <2> QED
      BY <1>1, <2>3, <2>4, <2>5, <2>7, <2>8, <2>9, <2>10, <2>11, <2>12 DEF Step
  <1>2. CASE UNCHANGED <<entries, requests>>
    BY <1>2 DEF HaveUsers
  <1> QED
    BY <1>1, <1>2 DEF Next, Tick, vars

\* update, stopTimer and delete: as long as the requests of a user do not overlap
\* no whole-row save starts a stopped timer again or brings a deleted entry back.
THEOREM StoppedIsForGood == Spec => StoppedForGood
  <1> DEFINE Stays(e) ==
        /\ /\ Exists(entries[e]) /\ entries[e].ended # Never /\ Exists(entries[e])'
           /\ entries[e].user \notin overlapped'
           => entries[e].ended' = entries[e].ended
        /\ entries[e].row = "removed" /\ Exists(entries[e])' =>
              \E r \in Request : requests[r].entry = e /\ requests[r].user \in overlapped
  <1>1. Init => SoloInv /\ HaveUsers
    <2> SUFFICES ASSUME Init PROVE SoloInv /\ HaveUsers
      OBVIOUS
    <2>1. \A r \in Request : requests[r] = Idle /\ Idle.pc = "idle" /\ Idle.user = NoUser
      BY DEF Init, Idle
    <2>2. \A e \in Entry : ~Exists(entries[e])
      BY DEF Init, NoEntryRow, Exists
    <2>3. \A u : RunningTimers(u) = {}
      BY <2>2 DEF RunningTimers
    <2> QED
      BY <2>1, <2>2, <2>3, ConstantsAssumption DEF SoloInv, Inserting, Solo, HaveUsers, Holding, Editing
  <1>2. ASSUME IInv, SoloInv, HaveUsers, [Next]_vars, NEW e \in Entry PROVE Stays(e)
    <2>1. CASE entries'[e] = entries[e]
      BY <2>1 DEF Exists
    <2>2. ASSUME NEW r \in Request, WriteEntry(r), entries'[e] # entries[e] PROVE Stays(e)
      <3> DEFINE v == requests[r].user
      <3>1. /\ requests[r].pc = "write" /\ requests[r].entry = e /\ v \in User
            /\ SaveHits(requests[r].plan, entries[e]) /\ ~SaveFails(requests[r].plan, entries[e])
            /\ entries'[e] = SavedEntry(requests[r].plan, requests[r].entity, entries[e])
        BY <1>2, <2>2 DEF WriteEntry, IInv, Typed, HaveUsers, Holding, Editing
      <3>2. entries'[e].ended \in {requests[r].entity.ended, entries[e].ended}
        BY <3>1 DEF SavedEntry, Written
      <3>3. Exists(entries[e]) => entries[e].user = v
        BY <1>2, <3>1 DEF IInv, Ownership, HoldsOwn, Holding, Editing
      <3>4. v \notin overlapped => /\ Exists(entries[e])
                                   /\ entries[e].ended # Never =>
                                         requests[r].entity.ended = entries[e].ended
        BY <1>2, <3>1 DEF SoloInv, Solo, Found, Editing
      <3>5. overlapped \subseteq overlapped'
        BY <1>2, <2>2, ProceedsTurns DEF WriteEntry, Turns
      <3> QED
        BY <3>1, <3>2, <3>3, <3>4, <3>5 DEF Exists
    <2>3. ASSUME NEW r \in Request, NEW f \in Entry, InsertEntry(r, f), entries'[e] # entries[e] PROVE Stays(e)
      <3>1. entries[e].row = "none"
        BY <1>2, <2>3 DEF InsertEntry, IInv, Typed
      <3> QED
        BY <3>1 DEF Exists
    <2>4. ASSUME NEW r \in Request, RemoveEntry(r), entries'[e] # entries[e] PROVE Stays(e)
      <3> DEFINE gone == [NoEntryRow EXCEPT !.row = "removed"]
      <3>1. ~Exists(gone)
        BY DEF NoEntryRow, Exists
      <3> HIDE DEF gone
      <3>2. entries'[e] = gone
        BY <1>2, <2>4 DEF RemoveEntry, IInv, Typed, gone
      <3> QED
        BY <3>1, <3>2 DEF Exists
    <2>5. CASE UNCHANGED entries
      BY <2>1, <2>5
    <2>6. ASSUME entries' # entries
          PROVE  \E r \in Request :
                    WriteEntry(r) \/ RemoveEntry(r) \/ \E f \in Entry : InsertEntry(r, f)
      BY <1>2, <2>6 DEF Next, Step, BeginCreate, FindNoRunning, LoadToUpdate, LoadToDelete, FindRunning,
                        LoadTask, SelectEntry, SumEntries, StoreTotal, SelectTask, WriteTask, Abort, Tick, vars
    <2> QED
      BY <2>1, <2>2, <2>3, <2>4, <2>5, <2>6
  <1>3. IInv /\ SoloInv /\ HaveUsers /\ [Next]_vars => [\A e \in Entry : Stays(e)]_vars
    BY <1>2
  <1>4. [][\A e \in Entry : Stays(e)]_vars => StoppedForGood
    BY DEF StoppedForGood
  <1> QED
    BY InitIInv, NextKeeps, NextSolo, NextUsers, <1>1, <1>3, <1>4, PTL DEF Spec

------------------------------------------------------------------------------
(* Sums.  MapThenSumSet is a recursive function on the subsets of a finite    *)
(* set.  That it is what its equation says, and does not depend on the order  *)
(* in which elements are picked, is shown by minimal counterexamples: strict  *)
(* inclusion of finite sets is well-founded.                                  *)

Pick(s) == CHOOSE x \in s : TRUE
Adds(f, S, g) == g = [s \in SUBSET S |-> IF s = {} THEN 0 ELSE f[Pick(s)] + g[s \ {Pick(s)}]]
Sum(f, S) == (CHOOSE g : Adds(f, S, g))[S]
LEMMA Picked == ASSUME NEW s, s # {} PROVE Pick(s) \in s
  BY DEF Pick

\* Of the sets in C one is smallest: what is shown of a set from what is shown of
\* it without an element holds of all finite sets.
LEMMA Smallest ==
  ASSUME NEW S, IsFiniteSet(S), NEW C, C \subseteq SUBSET S, C # {}
  PROVE \E s \in C : \A x \in s : s \ {x} \notin C
  <1>1. C \subseteq FiniteSubsetsOf(S)
    BY FS_FiniteSubsetsOfFinite
  <1>2. PICK s \in C : \A u \in C : <<u, s>> \notin StrictSubsetOrdering(S)
    <2> DEFINE R == StrictSubsetOrdering(S)
                F == FiniteSubsetsOf(S)
    <2>1. IsWellFoundedOn(R, F)
      BY FS_StrictSubsetOrderingWellFounded
    <2>2. C \subseteq F
      BY <1>1
    <2> HIDE DEF R, F
    <2>3. \E s \in C : \A u \in C : <<u, s>> \notin R
      BY <2>1, <2>2, WFMin
    <2> QED
      BY <2>3 DEF R
  <1>3. ASSUME NEW x \in s PROVE s \ {x} \notin C
    BY <1>2 DEF StrictSubsetOrdering
  <1> QED
    BY <1>3

\* The equation of the fold, at one set.
LEMMA AddsUp ==
  ASSUME NEW f, NEW S, NEW g, Adds(f, S, g), NEW u, u \subseteq S
  PROVE  g[u] = IF u = {} THEN 0 ELSE f[Pick(u)] + g[u \ {Pick(u)}]
  BY DEF Adds

\* Two functions that add up agree where both are defined ...
LEMMA SumsAgree ==
  ASSUME NEW f, NEW S, NEW T, NEW g, NEW h, Adds(f, S, g), Adds(f, T, h),
         NEW U, IsFiniteSet(U), U \subseteq S, U \subseteq T
  PROVE  g[U] = h[U]
  <1> DEFINE C == {s \in SUBSET U : g[s] # h[s]}
  <1>1. SUFFICES ASSUME C # {} PROVE FALSE
    OBVIOUS
  <1>2. PICK s \in C : \A x \in s : s \ {x} \notin C
    <2> HIDE DEF C
    <2> C \subseteq SUBSET U
      BY DEF C
    <2> QED
      BY <1>1, Smallest
  <1>3. g[s] = IF s = {} THEN 0 ELSE f[Pick(s)] + g[s \ {Pick(s)}]
    BY DEF Adds
  <1>4. h[s] = IF s = {} THEN 0 ELSE f[Pick(s)] + h[s \ {Pick(s)}]
    BY DEF Adds
  <1>5. s # {} => g[s \ {Pick(s)}] = h[s \ {Pick(s)}]
    BY <1>2, Picked
  <1> QED
    BY <1>3, <1>4, <1>5

\* ... and there is one.
LEMMA SumExists ==
  ASSUME NEW f, NEW S, IsFiniteSet(S) PROVE \E g : Adds(f, S, g)
  <1> DEFINE C == {s \in SUBSET S : ~ \E g : Adds(f, s, g)}
  <1>1. SUFFICES ASSUME C # {} PROVE FALSE
    OBVIOUS
  <1>2. PICK s \in C : \A x \in s : s \ {x} \notin C
    <2> HIDE DEF C
    <2> C \subseteq SUBSET S
      BY DEF C
    <2> QED
      BY <1>1, Smallest
  <1>3. \A x \in s : \E g : Adds(f, s \ {x}, g)
    BY <1>2
  <1> DEFINE part(x) == CHOOSE g : Adds(f, s \ {x}, g)
              of(u) == part(CHOOSE x \in s : x \notin u)[u]
              g == [u \in SUBSET s |-> IF u = s THEN IF s = {} THEN 0 ELSE f[Pick(s)] + of(s \ {Pick(s)}) ELSE of(u)]
  <1>4. \A x \in s : Adds(f, s \ {x}, part(x))
    BY <1>3
  <1>5. ASSUME NEW u \in SUBSET s, NEW x \in s, x \notin u PROVE of(u) = part(x)[u]
    <2>1. PICK y \in s : y \notin u /\ y = CHOOSE z \in s : z \notin u
      BY <1>5
    <2>2. Adds(f, s \ {x}, part(x)) /\ Adds(f, s \ {y}, part(y))
      BY <1>4
    <2>3. IsFiniteSet(u) /\ u \subseteq s \ {x} /\ u \subseteq s \ {y}
      BY <1>5, <2>1, FS_Subset
    <2> HIDE DEF part
    <2>4. part(x)[u] = part(y)[u]
      BY <2>2, <2>3, SumsAgree
    <2> QED
      BY <2>1, <2>4
  <1>6. ASSUME NEW u \in SUBSET s
        PROVE g[u] = IF u = {} THEN 0 ELSE f[Pick(u)] + g[u \ {Pick(u)}]
    <2>1. CASE u = s
      <3>1. s # {} => s \ {Pick(s)} # s
        BY Picked
      <3> QED
        BY <2>1, <3>1
    <2>2. CASE u # s
      <3>1. PICK x \in s : x \notin u
        BY <2>2
      <3>2. g[u] = part(x)[u]
        BY <2>2, <3>1, <1>5
      <3>3. part(x)[u] = IF u = {} THEN 0 ELSE f[Pick(u)] + part(x)[u \ {Pick(u)}]
        <4>1. Adds(f, s \ {x}, part(x)) /\ u \subseteq s \ {x}
          BY <3>1, <1>4
        <4> HIDE DEF part
        <4> QED
          BY <4>1, AddsUp
      <3>4. u \ {Pick(u)} \in SUBSET s /\ u \ {Pick(u)} # s /\ x \notin u \ {Pick(u)}
        BY <3>1
      <3>5. g[u \ {Pick(u)}] = part(x)[u \ {Pick(u)}]
        BY <3>1, <3>4, <1>5
      <3> QED
        BY <3>2, <3>3, <3>5
    <2> QED
      BY <2>1, <2>2
  <1>7. Adds(f, s, g)
    <2> HIDE DEF g
    <2>1. g = [u \in SUBSET s |-> g[u]]
      BY DEF g
    <2> QED
      BY <1>6, <2>1 DEF Adds
  <1> QED
    BY <1>7

\* Sum is the fold, whose equation follows.
LEMMA SumIs ==
  ASSUME NEW f, NEW S, IsFiniteSet(S), NEW T, T \subseteq S, NEW g, Adds(f, S, g)
  PROVE  Sum(f, T) = g[T]
  <1> DEFINE h == CHOOSE h : Adds(f, T, h)
  <1>1. IsFiniteSet(T)
    BY FS_Subset
  <1>2. Adds(f, T, h)
    BY <1>1, SumExists
  <1>3. Sum(f, T) = h[T]
    BY DEF Sum
  <1> HIDE DEF h
  <1> QED
    BY <1>1, <1>2, <1>3, SumsAgree

LEMMA SumOfNone == ASSUME NEW f PROVE Sum(f, {}) = 0
  <1>1. IsFiniteSet({})
    BY FS_EmptySet
  <1>2. PICK g : Adds(f, {}, g)
    BY <1>1, SumExists
  <1> QED
    BY <1>1, <1>2, SumIs, AddsUp

LEMMA SumPicks ==
  ASSUME NEW f, NEW S, IsFiniteSet(S), S # {}
  PROVE  Sum(f, S) = f[Pick(S)] + Sum(f, S \ {Pick(S)})
  <1>1. PICK g : Adds(f, S, g)
    BY SumExists
  <1>2. Sum(f, S) = g[S] /\ Sum(f, S \ {Pick(S)}) = g[S \ {Pick(S)}]
    BY <1>1, SumIs
  <1> QED
    BY <1>1, <1>2, AddsUp

LEMMA SumIsNat ==
  ASSUME NEW f, NEW S, IsFiniteSet(S), \A x \in S : f[x] \in Nat
  PROVE  Sum(f, S) \in Nat
  <1> DEFINE C == {s \in SUBSET S : Sum(f, s) \notin Nat}
  <1>1. SUFFICES ASSUME C # {} PROVE FALSE
    OBVIOUS
  <1>2. PICK s \in C : \A x \in s : s \ {x} \notin C
    <2> HIDE DEF C
    <2> C \subseteq SUBSET S
      BY DEF C
    <2> QED
      BY <1>1, Smallest
  <1>3. s # {}
    BY SumOfNone
  <1>4. Pick(s) \in s
    BY <1>3, Picked
  <1>5. Sum(f, s \ {Pick(s)}) \in Nat
    BY <1>2, <1>4
  <1>6. IsFiniteSet(s)
    BY FS_Subset
  <1>7. Sum(f, s) = f[Pick(s)] + Sum(f, s \ {Pick(s)})
    BY <1>3, <1>6, SumPicks
  <1>8. f[Pick(s)] \in Nat
    BY <1>4
  <1> QED
    BY <1>5, <1>7, <1>8

\* Any element may be added last, not only the one CHOOSE picks.
LEMMA SumSplits ==
  ASSUME NEW f, NEW S, IsFiniteSet(S), \A x \in S : f[x] \in Nat, NEW y \in S
  PROVE  Sum(f, S) = f[y] + Sum(f, S \ {y})
  <1> DEFINE C == {s \in SUBSET S : \E x \in s : Sum(f, s) # f[x] + Sum(f, s \ {x})}
  <1>1. SUFFICES ASSUME C # {} PROVE FALSE
    OBVIOUS
  <1>2. PICK s \in C : \A x \in s : s \ {x} \notin C
    <2> HIDE DEF C
    <2> C \subseteq SUBSET S
      BY DEF C
    <2> QED
      BY <1>1, Smallest
  <1>3. PICK x \in s : Sum(f, s) # f[x] + Sum(f, s \ {x})
    OBVIOUS
  <1> DEFINE p == Pick(s)
  <1>4. p \in s
    BY Picked
  <1>5. IsFiniteSet(s)
    BY FS_Subset
  <1>6. Sum(f, s) = f[p] + Sum(f, s \ {p})
    BY <1>5, SumPicks
  <1>7. x # p
    BY <1>3, <1>6
  <1>8. Sum(f, s \ {p}) = f[x] + Sum(f, (s \ {p}) \ {x})
    BY <1>2, <1>4, <1>7
  <1>9. Sum(f, s \ {x}) = f[p] + Sum(f, (s \ {x}) \ {p})
    BY <1>2, <1>4, <1>7
  <1>10. (s \ {x}) \ {p} = (s \ {p}) \ {x}
    OBVIOUS
  <1>11. Sum(f, (s \ {p}) \ {x}) \in Nat
    <2>1. IsFiniteSet((s \ {p}) \ {x})
      BY <1>5, FS_Subset
    <2> QED
      BY <2>1, SumIsNat
  <1>12. f[x] \in Nat /\ f[p] \in Nat
    BY <1>4
  <1>13. Sum(f, s \ {x}) = f[p] + Sum(f, (s \ {p}) \ {x})
    BY <1>9, <1>10
  <1> HIDE DEF p, C
  <1> QED
    BY <1>3, <1>6, <1>8, <1>11, <1>12, <1>13

\* The sum is of the elements of the set only.
LEMMA SameSum ==
  ASSUME NEW S, NEW f, NEW h, \A x \in S : f[x] = h[x]
  PROVE  Sum(f, S) = Sum(h, S)
  <1>1. ASSUME NEW s \in SUBSET S, s # {} PROVE f[Pick(s)] = h[Pick(s)]
    BY <1>1, Picked
  <1>2. ASSUME NEW g PROVE Adds(f, S, g) <=> Adds(h, S, g)
    BY <1>1 DEF Adds
  <1> QED
    BY <1>2 DEF Sum

\* The entries of a task in a table of entries, and what they add up to.
EntriesOf(table, t) == {e \in Entry : Exists(table[e]) /\ table[e].task = t}

LoggedIn(table, t) ==
    MapThenSumSet(LAMBDA e : table[e].duration, {e \in Entry : Exists(table[e]) /\ table[e].task = t})

LEMMA TableSum ==
  ASSUME NEW table, NEW t, NEW f, \A e \in EntriesOf(table, t) : f[e] = table[e].duration
  PROVE  LoggedIn(table, t) = Sum(f, EntriesOf(table, t))
  <1> DEFINE d == [e \in Entry |-> table[e].duration]
              S == EntriesOf(table, t)
              adds(g) == g = [s \in SUBSET S |-> IF s = {} THEN 0
                                ELSE table[CHOOSE x \in s : TRUE].duration + g[s \ {CHOOSE x \in s : TRUE}]]
  <1>1. ASSUME NEW g PROVE adds(g) <=> Adds(d, S, g)
    <2>1. ASSUME NEW s \in SUBSET S, s # {}
          PROVE table[CHOOSE x \in s : TRUE].duration = d[Pick(s)]
      <3>1. Pick(s) \in Entry
        BY <2>1, Picked DEF EntriesOf
      <3> QED
        BY <3>1 DEF Pick
    <2> QED
      BY <2>1 DEF Adds, Pick
  <1>2. LoggedIn(table, t) = (CHOOSE g : adds(g))[S]
    BY DEF LoggedIn, MapThenSumSet, MapThenFoldSet, EntriesOf
  <1>3. (CHOOSE g : adds(g))[S] = Sum(d, S)
    <2> HIDE DEF d, S
    <2> QED
      BY <1>1 DEF Sum
  <1>4. \A e \in S : d[e] = f[e]
    BY DEF EntriesOf
  <1> QED
    BY <1>2, <1>3, <1>4, SameSum

\* Logged is that sum, before and after a step.
LEMMA LoggedSum ==
  ASSUME NEW t
  PROVE  /\ \A f : (\A e \in EntriesOf(entries, t) : f[e] = entries[e].duration) =>
                       Logged(t) = Sum(f, EntriesOf(entries, t))
         /\ \A f : (\A e \in EntriesOf(entries', t) : f[e] = entries'[e].duration) =>
                       Logged(t)' = Sum(f, EntriesOf(entries', t))
  <1>1. Logged(t) = LoggedIn(entries, t)
    BY DEF Logged, LoggedIn, MapThenSumSet, MapThenFoldSet
  <1>2. Logged(t)' = LoggedIn(entries', t)
    BY DEF Logged, LoggedIn, MapThenSumSet, MapThenFoldSet
  <1> QED
    BY <1>1, <1>2, TableSum

------------------------------------------------------------------------------
(* The totals.  A task no two of whose requests were in flight together has    *)
(* its total from the one that is, or the total is the sum already.            *)

LoggedEntries == {e \in Entry : Exists(entries[e])}

\* What a request in flight is for, and how far it is.
Shaped(q) ==
    /\ q.pc = "idle" <=> q.task = NoTask
    /\ q.pc = "insert" =>
          /\ q.kind \in {"create", "start"} /\ q.entity.task = q.task
          /\ q.kind = "start" => q.entity.duration = 0
    /\ q.pc \in Editing => q.kind \in {"update", "stop"}
    /\ q.pc = "remove" => q.kind = "delete"

\* The total of the task is right unless the request will yet store it, and what it
\* will store is.
Kept(q, sum, total, logged) ==
    /\ \/ q.pc \in Editing \cup {"taskSelect", "taskWrite"}
       \/ q.pc = "insert" /\ q.kind = "start"
       => total = logged
    /\ q.pc \in {"taskSelect", "taskWrite"} => sum = total
    /\ q.pc = "store" => sum = logged

Settled(t) ==
    t \notin overlapped =>
        /\ \A r, s \in Request : requests[r].task = t /\ requests[s].task = t => r = s
        /\ (\A r \in Request : requests[r].task # t) => totals[t] = Logged(t)
        /\ \A r \in Request : requests[r].task = t => Kept(requests[r], sums[r], totals[t], Logged(t))

Counted ==
    /\ totals \in [Task -> Nat] /\ sums \in [Request -> Nat]
    /\ clock \in 0..MaxClock /\ overlapped \subseteq User \cup Task
    /\ IsFiniteSet(LoggedEntries)
    /\ \A e \in LoggedEntries : entries[e].task \in Task
    /\ \A r \in Request : Shaped(requests[r])

LogInv == Counted /\ \A t \in Task : Settled(t)

LEMMA LoggedIsNat ==
  ASSUME IInv, NEW t, IsFiniteSet(LoggedEntries)
  PROVE  Logged(t) \in Nat
  <1> DEFINE f == [e \in Entry |-> entries[e].duration]
             S == EntriesOf(entries, t)
  <1>1. IsFiniteSet(S)
    <2>1. S \subseteq LoggedEntries
      BY DEF EntriesOf, LoggedEntries
    <2> QED
      BY <2>1, FS_Subset
  <1>2. \A e \in S : f[e] = entries[e].duration /\ f[e] \in Nat
    BY DEF EntriesOf, IInv, Typed, EntryRow
  <1>3. Logged(t) = Sum(f, S)
    <2> HIDE DEF f, S
    <2> QED
      BY <1>2, LoggedSum DEF S
  <1> HIDE DEF f, S
  <1> QED
    BY <1>1, <1>2, <1>3, SumIsNat

LEMMA LoggedSame == ASSUME NEW t, UNCHANGED entries PROVE Logged(t)' = Logged(t)
  <1>1. Logged(t) = LoggedIn(entries, t)
    BY DEF Logged, LoggedIn, MapThenSumSet, MapThenFoldSet
  <1>2. Logged(t)' = LoggedIn(entries', t)
    BY DEF Logged, LoggedIn, MapThenSumSet, MapThenFoldSet
  <1> QED
    BY <1>1, <1>2

\* One row changes, and it counts for t neither before nor after.
LEMMA LoggedElsewhere ==
  ASSUME NEW t, NEW x, \A e \in Entry : e # x => entries'[e] = entries[e],
         x \notin EntriesOf(entries, t), x \notin EntriesOf(entries', t)
  PROVE  Logged(t)' = Logged(t)
  <1> DEFINE f == [e \in Entry |-> entries[e].duration]
             S == EntriesOf(entries, t)
  <1>1. EntriesOf(entries', t) = S
    BY DEF EntriesOf
  <1>2. \A e \in S : e \in Entry /\ e # x
    BY DEF EntriesOf
  <1>3. \A e \in S : f[e] = entries[e].duration /\ f[e] = entries'[e].duration
    BY <1>2
  <1> HIDE DEF f, S
  <1>4. Logged(t) = Sum(f, S)
    BY <1>3, LoggedSum DEF S
  <1>5. Logged(t)' = Sum(f, S)
    BY <1>1, <1>3, LoggedSum
  <1> QED
    BY <1>4, <1>5

\* A row without a duration, as that of a timer that has just been started, adds nothing.
LEMMA LoggedPlusNone ==
  ASSUME IInv, IInv', IsFiniteSet(LoggedEntries), NEW t, NEW x \in Entry, ~Exists(entries[x]),
         \A e \in Entry : e # x => entries'[e] = entries[e],
         entries'[x].duration = 0
  PROVE  Logged(t)' = Logged(t)
  <1> DEFINE f == [e \in Entry |-> entries'[e].duration]
             S == EntriesOf(entries, t)
             T == EntriesOf(entries', t)
  <1>1. IsFiniteSet(S)
    <2>1. S \subseteq LoggedEntries
      BY DEF EntriesOf, LoggedEntries
    <2> QED
      BY <2>1, FS_Subset
  <1>2. x \notin S /\ (T = S \/ T = S \cup {x})
    BY DEF EntriesOf
  <1>3. \A e \in S : f[e] = entries[e].duration
    BY <1>2 DEF EntriesOf
  <1>4. \A e \in T : f[e] = entries'[e].duration /\ f[e] \in Nat
    BY DEF EntriesOf, IInv, Typed, EntryRow
  <1>5. f[x] = 0
    OBVIOUS
  <1> HIDE DEF f, S, T
  <1>6. Logged(t) = Sum(f, S)
    BY <1>3, LoggedSum DEF S
  <1>7. Logged(t)' = Sum(f, T)
    BY <1>4, LoggedSum DEF T
  <1>8. CASE T = S
    BY <1>6, <1>7, <1>8
  <1>9. CASE T = S \cup {x}
    <2>1. IsFiniteSet(T) /\ x \in T /\ T \ {x} = S
      BY <1>1, <1>2, <1>9, FS_AddElement
    <2>2. Sum(f, T) = f[x] + Sum(f, S)
      BY <1>4, <2>1, SumSplits
    <2>3. Sum(f, S) \in Nat
      BY <1>1, <1>4, <2>1, SumIsNat
    <2> QED
      BY <1>5, <1>6, <1>7, <2>2, <2>3
  <1> QED
    BY <1>2, <1>8, <1>9

\* r takes a step and no other request changes.
Advances(r) ==
    /\ \A s \in Request \ {r} : requests'[s] = requests[s] /\ sums'[s] = sums[s]
    /\ overlapped \subseteq overlapped' /\ overlapped' \subseteq User \cup Task
    /\ \A t \in Task, s \in Request \ {r} :
          requests'[r].task = t /\ requests[s].task = t => t \in overlapped'
    /\ Shaped(requests'[r])

\* What a step of r has to keep of a task: what others' requests rely on, or what r does.
KeepsTask(r, t) ==
    /\ requests[r].task # t /\ requests'[r].task # t =>
          totals'[t] = totals[t] /\ Logged(t)' = Logged(t)
    /\ requests'[r].task = t =>
          /\ requests[r].task = t /\ Kept(requests[r], sums[r], totals[t], Logged(t))
             => Kept(requests'[r], sums'[r], totals'[t], Logged(t)')
          /\ requests[r].task # t /\ totals[t] = Logged(t)
             => Kept(requests'[r], sums'[r], totals'[t], Logged(t)')
    /\ /\ requests[r].task = t /\ requests'[r].task # t /\ t \notin overlapped'
       /\ Kept(requests[r], sums[r], totals[t], Logged(t))
       => totals'[t] = Logged(t)'

LEMMA AdvanceSettles ==
  ASSUME NEW r \in Request, Advances(r), NEW t \in Task, Settled(t), KeepsTask(r, t)
  PROVE  Settled(t)'
  <1> SUFFICES ASSUME t \notin overlapped'
               PROVE  /\ \A s, x \in Request : requests'[s].task = t /\ requests'[x].task = t => s = x
                      /\ (\A s \in Request : requests'[s].task # t) => totals'[t] = Logged(t)'
                      /\ \A s \in Request : requests'[s].task = t =>
                            Kept(requests'[s], sums'[s], totals'[t], Logged(t)')
    BY DEF Settled, Kept
  <1>1. /\ \A s, x \in Request : requests[s].task = t /\ requests[x].task = t => s = x
        /\ (\A s \in Request : requests[s].task # t) => totals[t] = Logged(t)
        /\ \A s \in Request : requests[s].task = t => Kept(requests[s], sums[s], totals[t], Logged(t))
    BY DEF Settled, Advances
  <1>2. requests'[r].task = t => \A s \in Request \ {r} : requests[s].task # t
    BY DEF Advances
  <1>3. \A s, x \in Request : requests'[s].task = t /\ requests'[x].task = t => s = x
    BY <1>1, <1>2 DEF Advances
  <1>4. (\A s \in Request : requests'[s].task # t) => totals'[t] = Logged(t)'
    BY <1>1 DEF Advances, KeepsTask
  <1>5. ASSUME NEW s \in Request, requests'[s].task = t
        PROVE  Kept(requests'[s], sums'[s], totals'[t], Logged(t)')
    <2>1. CASE s = r
      BY <1>1, <1>2, <1>5, <2>1 DEF KeepsTask
    <2>2. CASE s # r
      <3>1. requests'[s] = requests[s] /\ sums'[s] = sums[s] /\ requests[s].task = t
        BY <1>5, <2>2 DEF Advances
      <3>2. requests[r].task # t /\ requests'[r].task # t
        BY <1>1, <1>2, <2>2, <3>1
      <3> QED
        BY <1>1, <3>1, <3>2 DEF KeepsTask
    <2> QED
      BY <2>1, <2>2
  <1> QED
    BY <1>3, <1>4, <1>5

\* The new record overlaps those it shares a task with.
LEMMA BecomesAdvances ==
  ASSUME IInv, IInv', LogInv, NEW r \in Request, NEW q, Becomes(r, q), Shaped(q),
         \A s \in Request \ {r} : sums'[s] = sums[s]
  PROVE  Advances(r) /\ requests'[r] = q
  <1>1. \A s \in Request : requests'[s] = IF s = r THEN q ELSE requests[s]
    BY DEF Becomes, IInv, Typed
  <1>2. q \in RequestState
    BY <1>1 DEF IInv, Typed
  <1>3. Concerns(q) \subseteq User \cup Task
    BY <1>2 DEF Concerns, RequestState
  <1>4. overlapped \subseteq overlapped' /\ overlapped' \subseteq User \cup Task
    BY <1>3 DEF Becomes, LogInv, Counted
  <1>5. ASSUME NEW t \in Task, NEW s \in Request \ {r}, q.task = t, requests[s].task = t
        PROVE  t \in overlapped'
    <2>1. t \in Concerns(q) /\ t \in Concerns(requests[s])
      BY <1>5, ConstantsAssumption DEF Concerns
    <2> QED
      BY <2>1 DEF Becomes
  <1> QED
    BY <1>1, <1>4, <1>5 DEF Advances

\* The rows stay as they are.
LEMMA ReadsSettle ==
  ASSUME IInv, IInv', LogInv, NEW r \in Request, Advances(r), UNCHANGED <<entries, clock>>,
         totals' \in [Task -> Nat], sums' \in [Request -> Nat],
         \A t \in Task : Logged(t)' = Logged(t) => KeepsTask(r, t)
  PROVE  LogInv'
  <1>1. \A t : Logged(t)' = Logged(t)
    BY LoggedSame
  <1>2. \A t \in Task : Settled(t)'
    BY <1>1, AdvanceSettles DEF LogInv
  <1>3. Counted'
    <2>1. LoggedEntries' = LoggedEntries
      BY DEF LoggedEntries
    <2>2. IsFiniteSet(LoggedEntries)'
      BY <2>1 DEF LogInv, Counted
    <2>3. \A s \in Request : Shaped(requests[s])'
      <3>1. \A s \in Request : Shaped(requests'[s])
        BY DEF Advances, LogInv, Counted
      <3> QED
        BY <3>1 DEF Shaped, Editing
    <2> QED
      BY <2>1, <2>2, <2>3 DEF LogInv, Counted, Advances, LoggedEntries
  <1> QED
    BY <1>2, <1>3 DEF LogInv

LEMMA IdleShaped == Shaped(Idle) /\ Idle.pc = "idle" /\ Idle.task = NoTask /\ Idle.kind = "none"
  BY DEF Shaped, Idle, Editing

LEMMA BeginsSettle ==
  ASSUME IInv, IInv', LogInv, NEW r \in Request, NEW u \in User,
         \/ \E t \in Task, s \in Durations : BeginCreate(r, u, t, s)
         \/ \E t \in Task : FindNoRunning(r, u, t)
         \/ \E e \in Entry :
               \/ \E s \in Durations \cup {entries[e].duration} : LoadToUpdate(r, u, e, s)
               \/ LoadToDelete(r, u, e)
               \/ FindRunning(r, u, e)
  PROVE  LogInv'
  <1>1. /\ UNCHANGED <<entries, totals, clock, sums>> /\ requests[r].pc = "idle" /\ Shaped(requests[r])
        /\ totals \in [Task -> Nat] /\ sums \in [Request -> Nat] /\ \A t \in Task : t # NoTask
        /\ requests[r].task = NoTask
    BY ConstantsAssumption DEF BeginCreate, FindNoRunning, LoadToUpdate, LoadToDelete, FindRunning,
       LogInv, Counted, Shaped
  <1>2. ASSUME NEW q, Becomes(r, q), Shaped(q), q.pc \in {"insert", "select", "remove"} PROVE LogInv'
    <2>1. Advances(r) /\ requests'[r] = q
      BY <1>1, <1>2, BecomesAdvances
    <2>2. ASSUME NEW t \in Task, Logged(t)' = Logged(t) PROVE KeepsTask(r, t)
      BY <1>1, <1>2, <2>1, <2>2 DEF KeepsTask, Kept, Editing
    <2> QED
      BY <1>1, <2>1, <2>2, ReadsSettle
  <1>3. ASSUME NEW t \in Task, NEW s \in Durations, BeginCreate(r, u, t, s) PROVE LogInv'
    <2> DEFINE new == NewEntry(u, t, "manual", s, Never)
               q == [Idle EXCEPT !.kind = "create", !.pc = "insert", !.user = u, !.task = t, !.entity = new]
    <2>1. new.task = t /\ Becomes(r, q)
      BY <1>3 DEF BeginCreate, NewEntry
    <2> HIDE DEF new
    <2>2. q.pc = "insert" /\ q.task = t /\ q.kind = "create" /\ q.entity = new
      BY DEF Idle
    <2> HIDE DEF q
    <2> QED
      BY <1>1, <1>2, <2>1, <2>2 DEF Shaped, Editing
  <1>4. ASSUME NEW t \in Task, FindNoRunning(r, u, t) PROVE LogInv'
    <2> DEFINE new == NewEntry(u, t, "timer", 0, clock)
               q == [Idle EXCEPT !.kind = "start", !.pc = "insert", !.user = u, !.task = t, !.entity = new]
    <2>1. new.task = t /\ new.duration = 0 /\ Becomes(r, q)
      BY <1>4 DEF FindNoRunning, NewEntry
    <2> HIDE DEF new
    <2>2. q.pc = "insert" /\ q.task = t /\ q.kind = "start" /\ q.entity = new
      BY DEF Idle
    <2> HIDE DEF q
    <2> QED
      BY <1>1, <1>2, <2>1, <2>2 DEF Shaped, Editing
  <1>5. ASSUME NEW e \in Entry, Exists(entries[e]) PROVE entries[e].task \in Task
    BY <1>5 DEF LogInv, Counted, LoggedEntries
  <1>6. ASSUME NEW e \in Entry, NEW s \in Durations \cup {entries[e].duration}, LoadToUpdate(r, u, e, s)
        PROVE  LogInv'
    <2> DEFINE new == [entries[e] EXCEPT !.duration = s]
               q == [Idle EXCEPT !.kind = "update", !.pc = "select", !.user = u,
                                 !.task = entries[e].task, !.entry = e, !.entity = new]
    <2>1. Becomes(r, q) /\ Exists(entries[e])
      BY <1>6 DEF LoadToUpdate, OwnEntry
    <2> HIDE DEF new
    <2>2. q.pc = "select" /\ q.task = entries[e].task /\ q.kind = "update"
      BY DEF Idle
    <2> HIDE DEF q
    <2> QED
      BY <1>1, <1>2, <1>5, <2>1, <2>2 DEF Shaped, Editing
  <1>7. ASSUME NEW e \in Entry, LoadToDelete(r, u, e) PROVE LogInv'
    <2> DEFINE q == [Idle EXCEPT !.kind = "delete", !.pc = "remove", !.user = u,
                                 !.task = entries[e].task, !.entry = e]
    <2>1. Becomes(r, q) /\ Exists(entries[e])
      BY <1>7 DEF LoadToDelete, OwnEntry
    <2>2. q.pc = "remove" /\ q.task = entries[e].task /\ q.kind = "delete"
      BY DEF Idle
    <2> HIDE DEF q
    <2> QED
      BY <1>1, <1>2, <1>5, <2>1, <2>2 DEF Shaped, Editing
  <1>8. ASSUME NEW e \in Entry, FindRunning(r, u, e) PROVE LogInv'
    <2> DEFINE new == StoppedTimer(entries[e], clock)
               q == [Idle EXCEPT !.kind = "stop", !.pc = "select", !.user = u,
                                 !.task = entries[e].task, !.entry = e, !.entity = new]
    <2>1. Becomes(r, q) /\ Exists(entries[e])
      BY <1>8 DEF FindRunning, RunningTimers
    <2> HIDE DEF new
    <2>2. q.pc = "select" /\ q.task = entries[e].task /\ q.kind = "stop"
      BY DEF Idle
    <2> HIDE DEF q
    <2> QED
      BY <1>1, <1>2, <1>5, <2>1, <2>2 DEF Shaped, Editing
  <1> QED
    BY <1>3, <1>4, <1>6, <1>7, <1>8

\* The statements that do not change time_entries.
LEMMA StatementsSettle ==
  ASSUME IInv, IInv', LogInv, NEW r \in Request,
         \/ \E t \in Task : LoadTask(r, t)
         \/ SelectEntry(r) \/ SumEntries(r) \/ StoreTotal(r) \/ SelectTask(r) \/ WriteTask(r) \/ Abort(r)
  PROVE  LogInv'
  <1> DEFINE p == requests[r]
  <1>1. /\ UNCHANGED <<entries, clock>> /\ Shaped(p) /\ p \in RequestState
        /\ totals \in [Task -> Nat] /\ sums \in [Request -> Nat] /\ \A t \in Task : t # NoTask
        /\ p.pc # "idle" => p.task \in Task
    BY ConstantsAssumption DEF LoadTask, SelectEntry, SumEntries, StoreTotal, SelectTask, WriteTask, Abort,
       LogInv, Counted, Shaped, IInv, Typed, RequestState
  <1>2. CASE SelectEntry(r)
    <2> DEFINE plan == SavePlan(p.entity, entries[p.entry])
               q == [p EXCEPT !.pc = "write", !.plan = plan]
    <2>1. p.pc = "select" /\ Becomes(r, q) /\ UNCHANGED <<totals, sums>>
      BY <1>2 DEF SelectEntry
    <2> HIDE DEF plan
    <2>2. q.pc = "write" /\ q.task = p.task /\ q.kind = p.kind
      BY <1>1 DEF RequestState
    <2> HIDE DEF q
    <2>3. Shaped(q)
      BY <1>1, <2>1, <2>2 DEF Shaped, Editing
    <2>4. Advances(r) /\ requests'[r] = q
      BY <2>1, <2>3, BecomesAdvances
    <2>5. ASSUME NEW t \in Task, Logged(t)' = Logged(t) PROVE KeepsTask(r, t)
      BY <2>1, <2>2, <2>4, <2>5 DEF KeepsTask, Kept, Editing
    <2> QED
      BY <1>1, <2>1, <2>4, <2>5, ReadsSettle
  <1>3. CASE SumEntries(r)
    <2> DEFINE q == [p EXCEPT !.pc = "store"]
    <2>1. p.pc = "sum" /\ Becomes(r, q) /\ UNCHANGED totals /\ sums' = [sums EXCEPT ![r] = Logged(p.task)]
      BY <1>3 DEF SumEntries
    <2>2. q.pc = "store" /\ q.task = p.task
      BY <1>1 DEF RequestState
    <2> HIDE DEF q
    <2>3. Shaped(q)
      BY <1>1, <2>1, <2>2 DEF Shaped, Editing
    <2>4. Logged(p.task) \in Nat
      BY LoggedIsNat DEF LogInv, Counted
    <2>5. sums' \in [Request -> Nat] /\ \A s \in Request \ {r} : sums'[s] = sums[s]
      BY <1>1, <2>1, <2>4
    <2>6. Advances(r) /\ requests'[r] = q
      BY <2>1, <2>3, <2>5, BecomesAdvances
    <2>7. ASSUME NEW t \in Task, Logged(t)' = Logged(t) PROVE KeepsTask(r, t)
      <3>1. sums'[r] = Logged(p.task)
        BY <1>1, <2>1
      <3> QED
        BY <2>1, <2>2, <2>6, <2>7, <3>1 DEF KeepsTask, Kept, Editing
    <2> QED
      BY <1>1, <2>1, <2>5, <2>6, <2>7, ReadsSettle
  <1>4. CASE StoreTotal(r)
    <2>1. /\ p.pc = "store" /\ Becomes(r, Idle)
          /\ totals' = [totals EXCEPT ![p.task] = sums[r]] /\ sums' = [sums EXCEPT ![r] = 0]
      BY <1>4 DEF StoreTotal, Ends
    <2>2. sums' \in [Request -> Nat] /\ \A s \in Request \ {r} : sums'[s] = sums[s]
      BY <1>1, <2>1
    <2>3. totals' \in [Task -> Nat]
      BY <1>1, <2>1
    <2>4. Advances(r) /\ requests'[r] = Idle
      BY <2>1, <2>2, IdleShaped, BecomesAdvances
    <2>5. ASSUME NEW t \in Task, Logged(t)' = Logged(t) PROVE KeepsTask(r, t)
      <3>1. totals'[t] = IF p.task = t THEN sums[r] ELSE totals[t]
        BY <1>1, <2>1
      <3> QED
        BY <1>1, <2>1, <2>4, <2>5, <3>1, IdleShaped DEF KeepsTask, Kept
    <2> QED
      BY <1>1, <2>2, <2>3, <2>4, <2>5, ReadsSettle
  <1>5. ASSUME NEW t \in Task, LoadTask(r, t) PROVE LogInv'
    <2> DEFINE q == [Idle EXCEPT !.kind = "taskSave", !.pc = "taskSelect", !.task = t]
    <2>1. p.pc = "idle" /\ Becomes(r, q) /\ UNCHANGED totals /\ sums' = [sums EXCEPT ![r] = totals[t]]
      BY <1>5 DEF LoadTask
    <2>2. q.pc = "taskSelect" /\ q.task = t
      BY DEF Idle
    <2> HIDE DEF q
    <2>3. Shaped(q)
      BY <1>1, <2>2 DEF Shaped, Editing
    <2>4. sums' \in [Request -> Nat] /\ \A s \in Request \ {r} : sums'[s] = sums[s]
      BY <1>1, <2>1
    <2>5. Advances(r) /\ requests'[r] = q
      BY <2>1, <2>3, <2>4, BecomesAdvances
    <2>6. ASSUME NEW x \in Task, Logged(x)' = Logged(x) PROVE KeepsTask(r, x)
      <3>1. sums'[r] = totals[t] /\ p.task = NoTask
        BY <1>1, <2>1 DEF Shaped
      <3> QED
        BY <1>1, <2>1, <2>2, <2>5, <2>6, <3>1 DEF KeepsTask, Kept, Editing
    <2> QED
      BY <1>1, <2>1, <2>4, <2>5, <2>6, ReadsSettle
  <1>6. CASE SelectTask(r)
    <2> DEFINE differs == sums[r] # totals[p.task]
               q == [p EXCEPT !.pc = "taskWrite", !.writesTotal = differs]
    <2>1. p.pc = "taskSelect" /\ Becomes(r, q) /\ UNCHANGED <<totals, sums>>
      BY <1>6 DEF SelectTask
    <2> HIDE DEF differs
    <2>2. q.pc = "taskWrite" /\ q.task = p.task
      BY <1>1 DEF RequestState
    <2> HIDE DEF q
    <2>3. Shaped(q)
      BY <1>1, <2>1, <2>2 DEF Shaped, Editing
    <2>4. Advances(r) /\ requests'[r] = q
      BY <2>1, <2>3, BecomesAdvances
    <2>5. ASSUME NEW t \in Task, Logged(t)' = Logged(t) PROVE KeepsTask(r, t)
      BY <2>1, <2>2, <2>4, <2>5 DEF KeepsTask, Kept, Editing
    <2> QED
      BY <1>1, <2>1, <2>4, <2>5, ReadsSettle
  <1>7. CASE WriteTask(r)
    <2>1. /\ p.pc = "taskWrite" /\ Becomes(r, Idle) /\ sums' = [sums EXCEPT ![r] = 0]
          /\ totals' = totals \/ totals' = [totals EXCEPT ![p.task] = sums[r]]
      BY <1>7 DEF WriteTask, Ends
    <2>2. sums' \in [Request -> Nat] /\ \A s \in Request \ {r} : sums'[s] = sums[s]
      BY <1>1, <2>1
    <2>3. totals' \in [Task -> Nat]
      BY <1>1, <2>1
    <2>4. Advances(r) /\ requests'[r] = Idle
      BY <2>1, <2>2, IdleShaped, BecomesAdvances
    <2>5. ASSUME NEW t \in Task, Logged(t)' = Logged(t) PROVE KeepsTask(r, t)
      <3>1. totals'[t] = totals[t] \/ (p.task = t /\ totals'[t] = sums[r])
        BY <1>1, <2>1
      <3> QED
        BY <1>1, <2>1, <2>4, <2>5, <3>1, IdleShaped DEF KeepsTask, Kept
    <2> QED
      BY <1>1, <2>2, <2>3, <2>4, <2>5, ReadsSettle
  <1>8. CASE Abort(r)
    <2>1. /\ p.pc # "idle" /\ requests' = [requests EXCEPT ![r] = Idle] /\ UNCHANGED totals
          /\ sums' = [sums EXCEPT ![r] = 0] /\ overlapped' = overlapped \cup {p.task}
      BY <1>8 DEF Abort
    <2>2. sums' \in [Request -> Nat] /\ \A s \in Request \ {r} : sums'[s] = sums[s]
      BY <1>1, <2>1
    <2>3. /\ requests'[r] = Idle /\ \A s \in Request \ {r} : requests'[s] = requests[s]
      BY <2>1 DEF IInv, Typed
    <2>4. Advances(r)
      BY <1>1, <2>1, <2>2, <2>3, IdleShaped DEF Advances, LogInv, Counted
    <2>5. ASSUME NEW t \in Task, Logged(t)' = Logged(t) PROVE KeepsTask(r, t)
      BY <1>1, <2>1, <2>3, <2>5, IdleShaped DEF KeepsTask, Kept
    <2> QED
      BY <1>1, <2>1, <2>2, <2>4, <2>5, ReadsSettle
  <1> QED
    BY <1>2, <1>3, <1>4, <1>5, <1>6, <1>7, <1>8

\* The record a request goes on with, and its task.
LEMMA ProceedsAdvances ==
  ASSUME IInv, IInv', LogInv, NEW r \in Request, requests[r].pc # "idle",
         \/ Proceeds(r) \/ Ends(r), UNCHANGED sums
  PROVE  /\ Advances(r)
         /\ \/ Ends(r) /\ requests'[r] = Idle
            \/ /\ requests'[r].pc = "sum" /\ requests'[r].task = requests[r].task
               /\ UpdatesTotal(requests[r].kind)
         /\ Proceeds(r) /\ UpdatesTotal(requests[r].kind) => requests'[r].pc = "sum"
  <1> DEFINE p == requests[r]
             q == [p EXCEPT !.pc = "sum", !.plan = {}, !.entity = NoEntryRow]
  <1>1. p \in RequestState /\ Shaped(p)
    BY DEF IInv, Typed, LogInv, Counted
  <1>2. q.pc = "sum" /\ q.task = p.task
    BY <1>1 DEF RequestState
  <1>3. Becomes(r, q) => Advances(r) /\ requests'[r] = q
    <2> HIDE DEF q
    <2>1. Shaped(q)
      BY <1>1, <1>2 DEF Shaped, Editing
    <2> QED
      BY <2>1, BecomesAdvances
  <1>4. Becomes(r, Idle) => Advances(r) /\ requests'[r] = Idle
    BY IdleShaped, BecomesAdvances
  <1>5. Proceeds(r) => IF UpdatesTotal(p.kind) THEN Becomes(r, q) ELSE Ends(r)
    BY DEF Proceeds
  <1> HIDE DEF q
  <1> QED
    BY <1>2, <1>3, <1>4, <1>5 DEF Ends

\* The statements that change a row of the request's task.
LEMMA ChangesSettle ==
  ASSUME IInv, IInv', LogInv, NEW r \in Request, NEW x \in Entry, Advances(r),
         UNCHANGED <<totals, clock, sums>>,
         NEW k \in Task, requests[r].task = k,
         \A e \in Entry : e # x => entries'[e] = entries[e],
         Exists(entries[x]) => entries[x].task = k,
         Exists(entries'[x]) => entries'[x].task = k,
         \/ requests'[r].pc = "sum" /\ requests'[r].task = k
         \/ /\ requests'[r] = Idle
            /\ Kept(requests[r], sums[r], totals[k], Logged(k)) =>
                  totals[k] = Logged(k)'
  PROVE  LogInv'
  <1>1. \A t \in Task : t # NoTask
    BY ConstantsAssumption
  <1>2. ASSUME NEW t \in Task, t # k PROVE Logged(t)' = Logged(t)
    <2>1. x \notin EntriesOf(entries, t) /\ x \notin EntriesOf(entries', t)
      BY <1>2 DEF EntriesOf
    <2> QED
      BY <2>1, LoggedElsewhere
  <1>3. ASSUME NEW t \in Task PROVE KeepsTask(r, t)
    <2>1. CASE requests'[r].pc = "sum" /\ requests'[r].task = k
      BY <1>1, <1>2, <2>1 DEF KeepsTask, Kept, Editing
    <2>2. CASE requests'[r] = Idle
      <3>1. CASE t = k
        BY <1>1, <2>2, <3>1, IdleShaped DEF KeepsTask
      <3>2. CASE t # k
        BY <1>1, <1>2, <2>2, <3>2, IdleShaped DEF KeepsTask
      <3> QED
        BY <3>1, <3>2
    <2> QED
      BY <2>1, <2>2
  <1>4. \A t \in Task : Settled(t)'
    BY <1>3, AdvanceSettles DEF LogInv
  <1>5. IsFiniteSet(LoggedEntries)'
    <2>1. LoggedEntries' \subseteq LoggedEntries \cup {x}
      BY DEF LoggedEntries
    <2>2. IsFiniteSet(LoggedEntries \cup {x})
      BY FS_AddElement DEF LogInv, Counted
    <2> QED
      BY <2>1, <2>2, FS_Subset
  <1>6. \A e \in LoggedEntries' : entries'[e].task \in Task
    BY DEF LoggedEntries, LogInv, Counted
  <1>7. \A s \in Request : Shaped(requests'[s])
    BY DEF Advances, LogInv, Counted
  <1>8. Counted'
    BY <1>5, <1>6, <1>7 DEF Counted, LogInv, Advances, Shaped, Editing
  <1> QED
    BY <1>4, <1>8 DEF LogInv

LEMMA InsertSettles ==
  ASSUME IInv, IInv', LogInv, NEW r \in Request, NEW x \in Entry, InsertEntry(r, x)
  PROVE  LogInv'
  <1> DEFINE p == requests[r]
  <1>1. /\ p.pc = "insert" /\ entries[x].row = "none" /\ Proceeds(r) /\ UNCHANGED <<totals, clock, sums>>
        /\ \A e \in Entry : e # x => entries'[e] = entries[e]
        /\ entries'[x] = p.entity
    BY DEF InsertEntry, IInv, Typed
  <1>2. /\ Shaped(p) /\ p.task \in Task /\ p.kind \in {"create", "start"} /\ p.entity.task = p.task
        /\ p.kind = "start" => p.entity.duration = 0
    BY <1>1 DEF LogInv, Counted, Shaped, IInv, Typed, RequestState
  <1>3. ~Exists(entries[x])
    BY <1>1 DEF Exists
  <1>4. /\ Advances(r)
        /\ \/ requests'[r] = Idle /\ p.kind = "start"
           \/ requests'[r].pc = "sum" /\ requests'[r].task = p.task
    <2>1. UpdatesTotal(p.kind) => requests'[r] # Idle
      BY <1>1, ProceedsAdvances, IdleShaped
    <2>2. p.kind = "create" => UpdatesTotal(p.kind)
      BY DEF UpdatesTotal
    <2> QED
      BY <1>1, <1>2, <2>1, <2>2, ProceedsAdvances
  <1>5. CASE requests'[r] = Idle /\ p.kind = "start"
    <2>1. PICK k \in Task : k = p.task
      BY <1>2
    <2>2. IsFiniteSet(LoggedEntries) /\ entries'[x].duration = 0
      BY <1>1, <1>2, <1>5 DEF LogInv, Counted
    <2>3. Logged(k)' = Logged(k)
      BY <1>1, <1>3, <2>2, LoggedPlusNone
    <2> QED
      BY <1>1, <1>2, <1>3, <1>4, <1>5, <2>1, <2>3, ChangesSettle DEF Kept
  <1>6. CASE requests'[r].pc = "sum" /\ requests'[r].task = p.task
    BY <1>1, <1>2, <1>3, <1>4, <1>6, ChangesSettle
  <1> QED
    BY <1>4, <1>5, <1>6

LEMMA RemoveSettles ==
  ASSUME IInv, IInv', LogInv, NEW r \in Request, RemoveEntry(r)
  PROVE  LogInv'
  <1> DEFINE p == requests[r]
             gone == [NoEntryRow EXCEPT !.row = "removed"]
  <1>1. /\ p.pc = "remove" /\ Proceeds(r) /\ UNCHANGED <<totals, clock, sums>>
        /\ p.entry \in Entry
        /\ Exists(entries[p.entry]) => entries[p.entry].task = p.task
    BY DEF RemoveEntry, IInv, Ownership, HoldsOwn, Holding
  <1>2. p.task \in Task /\ p.kind = "delete"
    BY <1>1 DEF LogInv, Counted, Shaped, IInv, Typed, RequestState
  <1>3. Advances(r) /\ requests'[r].pc = "sum" /\ requests'[r].task = p.task
    <2>1. UpdatesTotal(p.kind)
      BY <1>2 DEF UpdatesTotal
    <2> QED
      BY <1>1, <2>1, ProceedsAdvances, IdleShaped
  <1>4. /\ \A e \in Entry : e # p.entry => entries'[e] = entries[e]
        /\ entries'[p.entry] = entries[p.entry] \/ ~Exists(entries'[p.entry])
    <2>1. ~Exists(gone)
      BY DEF NoEntryRow, Exists
    <2> HIDE DEF gone
    <2>2. \/ entries' = entries
          \/ entries' = [entries EXCEPT ![p.entry] = gone]
      BY DEF RemoveEntry, gone
    <2> QED
      BY <1>1, <2>1, <2>2 DEF IInv, Typed
  <1>5. PICK k \in Task : k = p.task
    BY <1>2
  <1> HIDE DEF gone
  <1> QED
    BY <1>1, <1>3, <1>4, <1>5, ChangesSettle

LEMMA WriteSettles ==
  ASSUME IInv, IInv', LogInv, NEW r \in Request, WriteEntry(r)
  PROVE  LogInv'
  <1> DEFINE p == requests[r]
             old == entries[p.entry]
             row == SavedEntry(p.plan, p.entity, old)
  <1>1. /\ p.pc = "write" /\ UNCHANGED <<totals, clock, sums>> /\ p.entry \in Entry
        /\ Proceeds(r) \/ Ends(r)
        /\ Exists(old) => old.task = p.task
        /\ p.entity.task = p.task
    BY DEF WriteEntry, IInv, Ownership, HoldsOwn, Holding, Editing
  <1>2. p.task \in Task /\ p.kind \in {"update", "stop"}
    BY <1>1 DEF LogInv, Counted, Shaped, IInv, Typed, RequestState, Editing
  <1>3. /\ Advances(r)
        /\ \/ requests'[r] = Idle /\ entries' = entries
           \/ requests'[r].pc = "sum" /\ requests'[r].task = p.task
    <2>1. UpdatesTotal(p.kind)
      BY <1>2 DEF UpdatesTotal
    <2>2. SaveFails(p.plan, old) => entries' = entries
      BY DEF WriteEntry
    <2>3. ~SaveFails(p.plan, old) => Proceeds(r)
      BY DEF WriteEntry
    <2> QED
      BY <1>1, <2>1, <2>2, <2>3, ProceedsAdvances, IdleShaped
  <1>4. /\ \A e \in Entry : e # p.entry => entries'[e] = entries[e]
        /\ Exists(entries'[p.entry]) => entries'[p.entry].task = p.task
    <2>1. CASE entries' = entries
      BY <1>1, <2>1
    <2>2. CASE entries' # entries
      <3>1. /\ entries' = [entries EXCEPT ![p.entry] = row]
            /\ SaveHits(p.plan, old) /\ ~SaveFails(p.plan, old)
        BY <2>2 DEF WriteEntry
      <3>2. row.task = p.entity.task
        BY <1>1, <3>1, SavedRow DEF SameOrigin
      <3> HIDE DEF row
      <3> QED
        BY <1>1, <3>1, <3>2 DEF IInv, Typed
    <2> QED
      BY <2>1, <2>2
  <1>5. PICK k \in Task : k = p.task
    BY <1>2
  <1>6. entries' = entries => Logged(k)' = Logged(k)
    BY LoggedSame
  <1> QED
    BY <1>1, <1>3, <1>4, <1>5, <1>6, ChangesSettle DEF Kept, Editing

LEMMA NextSettles == IInv /\ IInv' /\ LogInv /\ [Next]_vars => LogInv'
  <1> SUFFICES ASSUME IInv, IInv', LogInv, [Next]_vars PROVE LogInv'
    OBVIOUS
  <1>1. ASSUME NEW r \in Request, Step(r) PROVE LogInv'
    <2>1. ASSUME NEW e \in Entry, InsertEntry(r, e) PROVE LogInv'
      BY <2>1, InsertSettles
    <2>2. CASE WriteEntry(r)
      BY <2>2, WriteSettles
    <2>3. CASE RemoveEntry(r)
      BY <2>3, RemoveSettles
    <2>4. CASE \/ \E t \in Task : LoadTask(r, t)
               \/ SelectEntry(r) \/ SumEntries(r) \/ StoreTotal(r) \/ SelectTask(r) \/ WriteTask(r)
               \/ Abort(r)
      BY <2>4, StatementsSettle
    <2>5. CASE \E u \in User :
                  \/ \E t \in Task, s \in Durations : BeginCreate(r, u, t, s)
                  \/ \E t \in Task : FindNoRunning(r, u, t)
                  \/ \E e \in Entry :
                        \/ \E s \in Durations \cup {entries[e].duration} : LoadToUpdate(r, u, e, s)
                        \/ LoadToDelete(r, u, e)
                        \/ FindRunning(r, u, e)
      BY <2>5, BeginsSettle
    <2> QED
      BY <1>1, <2>1, <2>2, <2>3, <2>4, <2>5 DEF Step
  <1>2. CASE UNCHANGED <<entries, totals, requests, sums, overlapped>> /\ clock' \in 0..MaxClock
    <2>1. \A t : Logged(t)' = Logged(t)
      BY <1>2, LoggedSame
    <2>2. ASSUME NEW t \in Task PROVE Settled(t)'
      <3>1. Settled(t)
        BY DEF LogInv
      <3> QED
        BY <1>2, <2>1, <3>1 DEF Settled, Kept
    <2>3. LoggedEntries' = LoggedEntries
      BY <1>2 DEF LoggedEntries
    <2>4. Counted'
      BY <1>2, <2>3 DEF LogInv, Counted, Shaped, Editing
    <2> QED
      BY <2>2, <2>4 DEF LogInv
  <1>3. Tick \/ UNCHANGED vars =>
            UNCHANGED <<entries, totals, requests, sums, overlapped>> /\ clock' \in 0..MaxClock
    BY ConstantsAssumption DEF Tick, vars, LogInv, Counted
  <1> QED
    BY <1>1, <1>2, <1>3 DEF Next

LEMMA InitSettles == Init => LogInv
  <1> SUFFICES ASSUME Init PROVE LogInv
    OBVIOUS
  <1>1. \A e \in Entry : ~Exists(entries[e])
    BY DEF Init, NoEntryRow, Exists
  <1>2. LoggedEntries = {} /\ \A t : EntriesOf(entries, t) = {}
    BY <1>1 DEF LoggedEntries, EntriesOf
  <1>3. \A t : Logged(t) = 0
    <2>1. ASSUME NEW t, NEW f PROVE Logged(t) = Sum(f, {})
      BY <1>2, LoggedSum
    <2> QED
      BY <2>1, SumOfNone
  <1>4. \A r \in Request : requests[r] = Idle
    BY DEF Init
  <1>5. Counted
    BY <1>2, <1>4, IdleShaped, FS_EmptySet, ConstantsAssumption DEF Init, Counted
  <1>6. \A t \in Task : t # NoTask
    BY ConstantsAssumption
  <1>7. \A t \in Task : Settled(t)
    BY <1>3, <1>4, <1>6, IdleShaped DEF Settled, Init
  <1> QED
    BY <1>5, <1>7 DEF LogInv

\* updateTaskTimeLogged: for any number of users, entries and requests at a time,
\* the total of a task is the sum of what was logged on it whenever none of its
\* requests is in flight, as long as no two of them overlapped and none died.
THEOREM LoggedAlwaysSettles == Spec => []LoggedSettles
  <1>1. LogInv => LoggedSettles
    BY DEF LogInv, Settled, LoggedSettles
  <1> QED
    BY InitIInv, NextKeeps, InitSettles, NextSettles, <1>1, PTL DEF Spec

\* Rows, requests, totals and the sums in flight keep their types.
THEOREM TypeCorrect == Spec => []TypeOK
  <1>1. IInv /\ LogInv => TypeOK
    BY DEF IInv, Typed, LogInv, Counted, TypeOK
  <1> QED
    BY InitIInv, NextKeeps, InitSettles, NextSettles, <1>1, PTL DEF Spec
==============================================================================
