--------------------------- MODULE Accounts_proofs ---------------------------
(***************************************************************************)
(* Theorems about Accounts, for any users, addresses, codes, tokens and      *)
(* number of requests in flight.  The invariant says of every request what   *)
(* its handler knows of the rows it has read.                                *)
(***************************************************************************)
EXTENDS Accounts, TLAPS

\* The requests that (will) write columns of a row, and which they may write.
Saving(q) == q.pc \in {"select", "write"} \/ (q.pc = "otpRemove" /\ q.purpose # {})
Carries(q, c) == Saving(q) /\ (q.pc = "select" \/ c \in q.plan)

\* The operations on codes.
Sending == {"send", "forgot"}
Using == {"verify", "reset"}

\* What the statements before a request's pc have fixed.
Shape(q) ==
    /\ Saving(q) \/ q.pc = "issue" => q.user \in User /\ Exists(users[q.user])
    /\ q.pc = "insert" => q.entity.row = "there"
    /\ Saving(q) \/ q.pc = "insert" => q.entity.email \in Email
    /\ q.pc = "select" => q.kind \in DOMAIN Purposes /\ "email" \notin q.purpose
    /\ q.pc = "otpRemove" => q.plan \subseteq q.purpose
    /\ q.pc \in {"otpInsert", "otpUpdate"} => q.kind \in Sending
    /\ q.pc = "otpInsert" => q.email \in Email
    /\ q.pc = "otpUpdate" \/ q.kind \in Using => q.otp \in OtpRow
    /\ q.pc = "mark" => q.kind = "verify" /\ q.email \in Email
    /\ q.pc = "otpRemove" => q.kind \in Using
    /\ q.kind \in Using => q.pc \in {"mark", "otpRemove", "write"}
    /\ q.kind \in Sending => q.pc \in {"otpInsert", "otpUpdate"}
    /\ q.kind = "verify" => q.pc # "write" /\ q.purpose = {} /\ q.plan = {}
    /\ q.kind = "google" => "email" \notin q.plan
    /\ IF q.kind \in Sending \cup Using THEN q.code \in Code ELSE q.code = NoCode

\* A setting a request may write although it is not its purpose is the one the
\* account was last given, unless a later change met the request.
Remembers(q) ==
    \A c \in Setting \ q.purpose :
        Carries(q, c) => q.entity[c] = told[q.user][c] \/ <<q.user, c>> \in overtaken

\* A row that is to count as verified has an address that was proved.
Honest(q) ==
    /\ q.pc = "insert" /\ q.entity.verified => Vouched(q.kind)
    /\ Carries(q, "verified") /\ q.entity.verified =>
          q.kind = "verifyEmail" \/ <<q.user, q.entity.email>> \in proved \/ q.user \in renamed
    /\ Saving(q) =>
          \/ q.entity.email = users[q.user].email \/ q.user \in renamed
          \/ "email" \in q.purpose \cap q.plan

\* No request but a sign-in writes a token.
Sealed(q) ==
    \/ q.pc = "insert"
    \/ Saving(q) /\ "refresh" \in q.plan
    => q.entity.refresh \notin Session

Good(q) == Shape(q) /\ Remembers(q) /\ Honest(q) /\ Sealed(q)

\* The unique index.
EmailsUnique ==
    /\ \A u \in User : Exists(users[u]) => users[u].email \in Email
    /\ \A u, v \in User : Exists(users[u]) /\ Exists(users[v]) /\ users[u].email = users[v].email => u = v

\* Where a code is that no two requests have held.
Codes ==
    /\ \A o \in OtpRow : IF Exists(otps[o]) THEN otps[o].code \in Code /\ otps[o].email \in Email
                         ELSE otps[o].code = NoCode
    /\ \A c \in Code \ exposed :
          /\ \A r, s \in Request : requests[r].code = c /\ requests[s].code = c => r = s
          /\ \A o, p \in OtpRow : otps[o].code = c /\ otps[p].code = c => o = p
          /\ \A o \in OtpRow, r \in Request : otps[o].code = c /\ requests[r].code = c =>
                requests[r].otp = o /\ requests[r].pc \in {"mark", "otpRemove"}
          /\ c \in served => /\ \A o \in OtpRow : otps[o].code # c
                             /\ \A r \in Request : requests[r].code # c
          /\ c \notin servedAgain

Inv ==
    /\ TypeOK /\ EmailsUnique /\ Codes
    /\ SettingsStand /\ VerifiedWasProved
    /\ \A r \in Request : Good(requests[r])

------------------------------------------------------------------------------
(* Types, and steps that only change a request *)

LEMMA Rows ==
  /\ NoUserRow \in UserRow /\ Idle \in RequestState /\ NoOtpRow \in OtpState
  /\ Idle.pc = "idle" /\ Idle.kind = "none" /\ Idle.code = NoCode
  BY DEF NoUserRow, UserRow, Role, Idle, RequestState, PC, Column, NoOtpRow, OtpState, RowState

LEMMA IdleGood == Good(Idle)
  BY DEF Good, Shape, Remembers, Honest, Sealed, Saving, Carries, Idle, Sending, Using

LEMMA InitInv == Init => Inv
  <1> SUFFICES ASSUME Init PROVE Inv
    OBVIOUS
  <1>1. Seeded \in UserRow /\ Seeded.email = AdminEmail /\ Seeded.row = "there"
    BY ConstantsAssumption DEF Seeded, NewUser, NoUserRow, UserRow, Role
  <1>2. TypeOK
    BY <1>1, Rows, ConstantsAssumption DEF Init, TypeOK
  <1>3. EmailsUnique
    BY <1>1, ConstantsAssumption DEF Init, EmailsUnique, Exists, NoUserRow
  <1>4. Codes
    BY Rows, ConstantsAssumption DEF Init, Codes, Exists, NoOtpRow
  <1>5. SettingsStand
    BY DEF Init, SettingsStand
  <1>6. VerifiedWasProved
    BY <1>1 DEF Init, VerifiedWasProved, NoUserRow
  <1>7. \A r \in Request : Good(requests[r])
    BY IdleGood DEF Init
  <1> QED
    BY <1>2, <1>3, <1>4, <1>5, <1>6, <1>7 DEF Inv

LEMMA Becoming ==
  ASSUME TypeOK, NEW r \in Request, NEW q, Becomes(r, q)
  PROVE  /\ \A s \in Request : requests'[s] = IF s = r THEN q ELSE requests[s]
         /\ q \in RequestState => requests' \in [Request -> RequestState]
  BY DEF TypeOK, Becomes

\* A step that leaves tables and histories alone, for a request that has found
\* out what it holds, and holds no code.
LEMMA LoadKeeps ==
  ASSUME Inv, NEW r \in Request, NEW q \in RequestState, Becomes(r, q), Good(q), q.code = NoCode,
         UNCHANGED <<tables, accountHistories, codeHistories>>
  PROVE  Inv'
  <1>1. /\ \A s \in Request : requests'[s] = IF s = r THEN q ELSE requests[s]
        /\ requests' \in [Request -> RequestState]
    BY Becoming DEF Inv
  <1>2. UNCHANGED <<users, otps, told, overtaken, proved, renamed, served, servedAgain, exposed>>
    BY DEF tables, accountHistories, codeHistories
  <1>3. TypeOK'
    BY <1>1, <1>2 DEF Inv, TypeOK
  <1>4. EmailsUnique' /\ SettingsStand' /\ VerifiedWasProved'
    BY <1>2 DEF Inv, EmailsUnique, SettingsStand, VerifiedWasProved
  <1>5. Codes'
    BY <1>1, <1>2, ConstantsAssumption DEF Inv, Codes
  <1>6. \A x : Good(x)' <=> Good(x)
    BY <1>2 DEF Good, Shape, Remembers, Honest, Sealed
  <1>7. \A s \in Request : Good(requests[s])'
    BY <1>1, <1>6 DEF Inv
  <1> QED
    BY <1>3, <1>4, <1>5, <1>7 DEF Inv
\* Handlers that found a user and go on to give it a token, ...
LEMMA SigningGood ==
  ASSUME NEW q \in RequestState, q.pc = "issue", q.user \in User, Exists(users[q.user]),
         q.plan = {}, q.code = NoCode, q.kind \notin Sending \cup Using
  PROVE  Good(q)
  <1>1. Shape(q)
    BY DEF Shape, Saving, Sending, Using
  <1>2. Remembers(q)
    BY DEF Remembers, Saving, Carries
  <1>3. Honest(q)
    BY DEF Honest, Saving, Carries, Setting
  <1>4. Sealed(q)
    BY DEF Sealed, Saving
  <1> QED
    BY <1>1, <1>2, <1>3, <1>4 DEF Good

\* ... that make a row, ...
LEMMA InsertGood ==
  ASSUME NEW q \in RequestState, q.pc = "insert", q.plan = {}, q.code = NoCode, q.kind \notin Sending \cup Using,
         q.entity.row = "there", q.entity.email \in Email, q.entity.refresh \notin Session,
         q.entity.verified => Vouched(q.kind)
  PROVE  Good(q)
  <1>1. Shape(q)
    BY DEF Shape, Saving, Sending, Using
  <1>2. Remembers(q)
    BY DEF Remembers, Saving, Carries
  <1>3. Honest(q)
    BY DEF Honest, Saving, Carries, Setting
  <1>4. Sealed(q)
    BY DEF Sealed, Saving
  <1> QED
    BY <1>1, <1>2, <1>3, <1>4 DEF Good

\* ... and that update columns of a row they have found.
LEMMA UpdateGood ==
  ASSUME NEW q \in RequestState, q.pc = "write", q.code = NoCode, q.kind \notin Sending \cup Using,
         q.user \in User, Exists(users[q.user]),
         q.plan \cap Setting \subseteq q.purpose,
         "refresh" \in q.plan => q.entity.refresh \notin Session,
         "verified" \in q.plan => q.kind = "verifyEmail",
         q.kind = "google" => "email" \notin q.plan,
         q.entity.email \in Email,
         q.entity.email = users[q.user].email \/ "email" \in q.purpose \cap q.plan
  PROVE  Good(q)
  <1>1. Shape(q)
    BY DEF Shape, Saving, Sending, Using
  <1>2. Remembers(q)
    BY DEF Remembers, Saving, Carries
  <1>3. Honest(q)
    BY DEF Honest, Saving, Carries, Setting
  <1>4. Sealed(q)
    BY DEF Sealed, Saving
  <1> QED
    BY <1>1, <1>2, <1>3, <1>4 DEF Good

LEMMA NamedRow ==
  ASSUME NEW row \in UserRow, NEW new \in [email: Email, password: Password, role: Role, active: BOOLEAN],
         NEW purpose
  PROVE  /\ Named(new, row, purpose) \in UserRow
         /\ Named(new, row, purpose).email \in {new.email, row.email}
         /\ \A c \in Column \ (purpose \cap {"email", "password", "role", "active"}) :
               Named(new, row, purpose)[c] = row[c]
  BY DEF Named, UserRow, Column, NoUserRow

LEMMA SignInsKeep ==
  ASSUME Inv, NEW r \in Request, NEW u \in User,
         SignIn(r, u) \/ GoogleFinds(r, u) \/ AppleFinds(r, u) \/ Logout(r, u)
  PROVE  Inv'
  <1>1. /\ users[u] \in UserRow /\ Exists(users[u]) /\ users[u].email \in Email
        /\ UNCHANGED <<tables, accountHistories, codeHistories>>
    BY DEF Inv, TypeOK, EmailsUnique, SignIn, GoogleFinds, AppleFinds, Logout, Visible
  <1>2. ASSUME NEW kind \in {"login", "adminLogin", "social", "google"},
               Becomes(r, [Idle EXCEPT !.kind = kind, !.pc = "issue", !.user = u])
        PROVE  Inv'
    <2> DEFINE q == [Idle EXCEPT !.kind = kind, !.pc = "issue", !.user = u]
    <2>1. /\ q \in RequestState /\ q.pc = "issue" /\ q.user = u /\ q.plan = {}
          /\ q.code = NoCode /\ q.kind = kind
      BY Rows DEF RequestState, PC, Kind, Idle
    <2>2. Becomes(r, q)
      BY <1>2
    <2> HIDE DEF q
    <2>3. Good(q)
      BY <1>1, <2>1, SigningGood DEF Sending, Using
    <2> QED
      BY <1>1, <2>1, <2>2, <2>3, LoadKeeps
  <1>3. CASE SignIn(r, u)
    BY <1>2, <1>3 DEF SignIn
  <1>4. CASE GoogleFinds(r, u)
    <2>1. CASE users[u].google
      BY <1>2, <1>4, <2>1 DEF GoogleFinds
    <2>2. CASE ~users[u].google
      <3> DEFINE entity == [users[u] EXCEPT !.google = TRUE]
                 q == [Idle EXCEPT !.kind = "google", !.pc = "write", !.user = u, !.plan = {"google"},
                                   !.entity = entity]
      <3>1. entity \in UserRow /\ entity.email = users[u].email
        BY <1>1 DEF UserRow
      <3>2. Becomes(r, q)
        BY <1>4, <2>2 DEF GoogleFinds
      <3> HIDE DEF entity
      <3>3. /\ q \in RequestState /\ q.pc = "write" /\ q.user = u /\ q.plan = {"google"}
            /\ q.code = NoCode /\ q.kind = "google" /\ q.entity = entity
        BY <3>1, Rows DEF RequestState, PC, Kind, Idle, Column, NoUserRow
      <3> HIDE DEF q
      <3>4. Good(q)
        BY <1>1, <3>1, <3>3, UpdateGood DEF Sending, Using, Setting
      <3> QED
        BY <1>1, <3>2, <3>3, <3>4, LoadKeeps
    <2> QED
      BY <2>1, <2>2
  <1>5. ASSUME NEW kind \in {"apple", "logout"}, NEW s \in {NoSession, HashedSession},
               Becomes(r, [Idle EXCEPT !.kind = kind, !.pc = "write", !.user = u, !.plan = {"refresh"},
                                       !.entity = [users[u] EXCEPT !.refresh = s]])
        PROVE  Inv'
    <2> DEFINE entity == [users[u] EXCEPT !.refresh = s]
               q == [Idle EXCEPT !.kind = kind, !.pc = "write", !.user = u, !.plan = {"refresh"},
                                 !.entity = entity]
    <2>1. entity \in UserRow /\ entity.email = users[u].email /\ entity.refresh = s
      BY <1>1 DEF UserRow
    <2>2. Becomes(r, q)
      BY <1>5
    <2> HIDE DEF entity
    <2>3. /\ q \in RequestState /\ q.pc = "write" /\ q.user = u /\ q.plan = {"refresh"}
          /\ q.code = NoCode /\ q.kind = kind /\ q.entity = entity
      BY <2>1, Rows DEF RequestState, PC, Kind, Idle, Column, NoUserRow
    <2> HIDE DEF q
    <2>4. Good(q)
      BY <1>1, <2>1, <2>3, UpdateGood, ConstantsAssumption DEF Sending, Using, Setting
    <2> QED
      BY <1>1, <2>2, <2>3, <2>4, LoadKeeps
  <1>6. CASE AppleFinds(r, u)
    BY <1>5, <1>6 DEF AppleFinds
  <1>7. CASE Logout(r, u)
    BY <1>5, <1>7 DEF Logout
  <1> QED
    BY <1>3, <1>4, <1>6, <1>7

LEMMA SignUpsKeep ==
  ASSUME Inv, NEW r \in Request, NEW e \in Email, NEW p \in Password, NEW role \in Role,
         GoogleMisses(r, e) \/ AppleMisses(r, e) \/ Register(r, e, p) \/ AdminCreate(r, e, p, role)
  PROVE  Inv'
  <1>1. UNCHANGED <<tables, accountHistories, codeHistories>>
    BY DEF GoogleMisses, AppleMisses, Register, AdminCreate
  <1>2. ASSUME NEW kind \in {"google", "apple", "register", "adminCreate"}, NEW entity \in UserRow,
               entity.row = "there", entity.email \in Email, entity.refresh \notin Session,
               entity.verified => Vouched(kind), Inserts(r, kind, entity)
        PROVE  Inv'
    <2> DEFINE q == [Idle EXCEPT !.kind = kind, !.pc = "insert", !.entity = entity]
    <2>1. /\ q \in RequestState /\ q.pc = "insert" /\ q.plan = {}
          /\ q.code = NoCode /\ q.kind = kind /\ q.entity = entity
      BY Rows DEF RequestState, PC, Kind, Idle
    <2>2. Becomes(r, q)
      BY <1>2 DEF Inserts
    <2> HIDE DEF q
    <2>3. Good(q)
      BY <1>2, <2>1, InsertGood DEF Sending, Using
    <2> QED
      BY <1>1, <2>1, <2>2, <2>3, LoadKeeps
  <1>3. CASE GoogleMisses(r, e)
    <2> DEFINE row == NewUser(e, NoPassword, "member", TRUE, FALSE, TRUE)
    <2>1. row \in UserRow /\ row.row = "there" /\ row.email = e /\ row.refresh \notin Session
      BY ConstantsAssumption DEF NewUser, NoUserRow, UserRow, Role
    <2>2. Inserts(r, "google", row)
      BY <1>3 DEF GoogleMisses
    <2> HIDE DEF row
    <2> QED
      BY <1>2, <2>1, <2>2 DEF Vouched
  <1>4. CASE AppleMisses(r, e)
    <2> DEFINE new == NewUser(Lower(e), NoPassword, "member", FALSE, FALSE, FALSE)
               row == [new EXCEPT !.refresh = HashedSession]
    <2>1. new \in UserRow /\ new.row = "there" /\ new.email \in Email /\ ~new.verified
      BY ConstantsAssumption DEF NewUser, NoUserRow, UserRow, Role
    <2>2. Inserts(r, "apple", row)
      BY <1>4 DEF AppleMisses
    <2> HIDE DEF new
    <2>3. /\ row \in UserRow /\ row.row = "there" /\ row.email \in Email /\ ~row.verified
          /\ row.refresh \notin Session
      BY <2>1, ConstantsAssumption DEF UserRow
    <2> HIDE DEF row
    <2> QED
      BY <1>2, <2>2, <2>3
  <1>5. CASE Register(r, e, p)
    <2> DEFINE row == NewUser(Lower(e), p, "member", FALSE, TRUE, FALSE)
    <2>1. row \in UserRow /\ row.row = "there" /\ row.email \in Email /\ ~row.verified /\ row.refresh \notin Session
      BY ConstantsAssumption DEF NewUser, NoUserRow, UserRow, Role
    <2>2. Inserts(r, "register", row)
      BY <1>5 DEF Register
    <2> HIDE DEF row
    <2> QED
      BY <1>2, <2>1, <2>2
  <1>6. CASE AdminCreate(r, e, p, role)
    <2> DEFINE row == NewUser(e, p, role, TRUE, FALSE, FALSE)
    <2>1. row \in UserRow /\ row.row = "there" /\ row.email = e /\ row.refresh \notin Session
      BY ConstantsAssumption DEF NewUser, NoUserRow, UserRow, Role
    <2>2. Inserts(r, "adminCreate", row)
      BY <1>6 DEF AdminCreate
    <2> HIDE DEF row
    <2> QED
      BY <1>2, <2>1, <2>2 DEF Vouched
  <1> QED
    BY <1>3, <1>4, <1>5, <1>6
LEMMA UpdatesKeep ==
  ASSUME Inv, NEW r \in Request, NEW kind \in {"changePassword", "update", "remove"}, NEW u \in User,
         Visible(users[u]), NEW entity \in UserRow, NEW purpose \in SUBSET (Setting \ {"verified"}),
         entity.email \in Email, entity.email = users[u].email \/ "email" \in purpose,
         Updates(r, kind, u, entity, purpose),
         UNCHANGED <<tables, accountHistories, codeHistories>>
  PROVE  Inv'
  <1> DEFINE q == [Idle EXCEPT !.kind = kind, !.pc = "write", !.user = u, !.entity = entity,
                               !.plan = purpose, !.purpose = purpose]
  <1>1. /\ q \in RequestState /\ q.pc = "write" /\ q.user = u /\ q.plan = purpose /\ q.purpose = purpose
        /\ q.code = NoCode /\ q.kind = kind /\ q.entity = entity
    BY Rows DEF RequestState, PC, Kind, Idle, Column, NoUserRow, Setting
  <1>2. Becomes(r, q) /\ Exists(users[u])
    BY DEF Updates, Visible
  <1> HIDE DEF q
  <1>3. Good(q)
    BY <1>1, <1>2, UpdateGood DEF Sending, Using, Setting
  <1> QED
    BY <1>1, <1>2, <1>3, LoadKeeps

LEMMA ChangesKeep ==
  ASSUME Inv, NEW r \in Request, NEW u \in User,
         \/ VerifyEmail(r, u) \/ Remove(r, u)
         \/ \E p \in Password : ChangeUserPassword(r, u, p)
         \/ \E new \in [email: Email, password: Password, role: Role, active: BOOLEAN] :
              \E purpose \in SUBSET {"email", "password", "role"} : UpdateUser(r, u, new, purpose)
  PROVE  Inv'
  <1>1. /\ users[u] \in UserRow /\ Visible(users[u]) /\ Exists(users[u]) /\ users[u].email \in Email
        /\ UNCHANGED <<tables, accountHistories, codeHistories>>
    BY DEF Inv, TypeOK, EmailsUnique, VerifyEmail, Remove, ChangeUserPassword, UpdateUser, Visible
  <1>2. CASE VerifyEmail(r, u)
    <2> DEFINE entity == [users[u] EXCEPT !.verified = TRUE, !.link = FALSE]
               q == [Idle EXCEPT !.kind = "verifyEmail", !.pc = "write", !.user = u, !.entity = entity,
                                 !.plan = {"verified", "link"}, !.purpose = {"verified"}]
    <2>1. entity \in UserRow /\ entity.email = users[u].email
      BY <1>1 DEF UserRow
    <2>2. Becomes(r, q)
      BY <1>2 DEF VerifyEmail
    <2> HIDE DEF entity
    <2>3. /\ q \in RequestState /\ q.pc = "write" /\ q.user = u /\ q.plan = {"verified", "link"}
          /\ q.purpose = {"verified"} /\ q.code = NoCode /\ q.kind = "verifyEmail" /\ q.entity = entity
      BY <2>1, Rows DEF RequestState, PC, Kind, Idle, Column, NoUserRow, Setting
    <2> HIDE DEF q
    <2>4. Good(q)
      BY <1>1, <2>1, <2>3, UpdateGood DEF Sending, Using, Setting
    <2> QED
      BY <1>1, <2>2, <2>3, <2>4, LoadKeeps
  <1>3. CASE Remove(r, u)
    <2> DEFINE entity == [users[u] EXCEPT !.deletedAt = "recent"]
    <2>1. entity \in UserRow /\ entity.email = users[u].email
      BY <1>1 DEF UserRow
    <2>2. Updates(r, "remove", u, entity, {"deletedAt"})
      BY <1>3 DEF Remove
    <2> HIDE DEF entity
    <2> QED
      BY <1>1, <2>1, <2>2, UpdatesKeep DEF Setting
  <1>4. ASSUME NEW p \in Password, ChangeUserPassword(r, u, p) PROVE Inv'
    <2> DEFINE entity == [users[u] EXCEPT !.password = p]
    <2>1. entity \in UserRow /\ entity.email = users[u].email
      BY <1>1 DEF UserRow
    <2>2. Updates(r, "changePassword", u, entity, {"password"})
      BY <1>4 DEF ChangeUserPassword
    <2> HIDE DEF entity
    <2> QED
      BY <1>1, <2>1, <2>2, UpdatesKeep DEF Setting
  <1>5. ASSUME NEW new \in [email: Email, password: Password, role: Role, active: BOOLEAN],
               NEW purpose \in SUBSET {"email", "password", "role"}, UpdateUser(r, u, new, purpose)
        PROVE  Inv'
    <2> DEFINE entity == Named(new, users[u], purpose)
    <2>1. /\ entity \in UserRow /\ ("email" \in purpose \/ entity.email = users[u].email)
          /\ entity.email \in Email
      BY <1>1, NamedRow DEF Column, NoUserRow
    <2>2. Updates(r, "update", u, entity, purpose)
      BY <1>5 DEF UpdateUser
    <2> HIDE DEF entity
    <2> QED
      BY <1>1, <2>1, <2>2, UpdatesKeep DEF Setting
  <1> QED
    BY <1>2, <1>3, <1>4, <1>5

\* The saves of a row that was loaded whole: it is as it was, but for the purpose.
LEMMA LoadToSaveKeeps ==
  ASSUME Inv, NEW r \in Request, NEW u \in User,
         NEW new \in [email: Email, password: Password, role: Role, active: BOOLEAN], LoadToSave(r, u, new)
  PROVE  Inv'
  <1>1. PICK kind \in {"profile", "suspend", "adminUpdate"}, purpose \in SUBSET {"role", "active"} :
            Becomes(r, [Idle EXCEPT !.kind = kind, !.pc = "select", !.user = u, !.purpose = purpose,
                                    !.entity = Named(new, users[u], purpose)])
    <2>1. PICK kind \in DOMAIN Purposes : \E purpose \in Purposes[kind] :
              Becomes(r, [Idle EXCEPT !.kind = kind, !.pc = "select", !.user = u, !.purpose = purpose,
                                      !.entity = Named(new, users[u], purpose)])
      BY DEF LoadToSave
    <2>2. kind \in {"profile", "suspend", "adminUpdate"} /\ Purposes[kind] \subseteq SUBSET {"role", "active"}
      BY DEF Purposes
    <2> QED
      BY <2>1, <2>2
  <1>2. /\ users[u] \in UserRow /\ Exists(users[u]) /\ users[u].email \in Email
        /\ UNCHANGED <<tables, accountHistories, codeHistories>>
    BY DEF Inv, TypeOK, EmailsUnique, LoadToSave, Visible
  <1> DEFINE entity == Named(new, users[u], purpose)
             q == [Idle EXCEPT !.kind = kind, !.pc = "select", !.user = u, !.purpose = purpose,
                               !.entity = entity]
  <1>3. entity \in UserRow /\ \A c \in Column \ purpose : entity[c] = users[u][c]
    BY <1>2, NamedRow
  <1>4. Becomes(r, q)
    BY <1>1
  <1> HIDE DEF entity
  <1>5. /\ q \in RequestState /\ q.pc = "select" /\ q.user = u /\ q.plan = {} /\ q.purpose = purpose
        /\ q.code = NoCode /\ q.kind = kind /\ q.entity = entity
    BY <1>3, Rows DEF RequestState, PC, Kind, Idle, Column, NoUserRow, Setting
  <1> HIDE DEF q
  <1>6. {"email", "verified"} \subseteq Column \ purpose /\ Setting \subseteq Column
    BY DEF Column, NoUserRow, Setting
  <1>7. Shape(q)
    BY <1>2, <1>3, <1>5, <1>6 DEF Shape, Saving, Sending, Using, Purposes
  <1>8. Remembers(q)
    BY <1>3, <1>5, <1>6 DEF Remembers, Inv, SettingsStand
  <1>9. Honest(q)
    BY <1>3, <1>5, <1>6 DEF Honest, Carries, Inv, VerifiedWasProved
  <1>10. Sealed(q)
    BY <1>5 DEF Sealed
  <1> QED
    BY <1>2, <1>4, <1>5, <1>7, <1>8, <1>9, <1>10, LoadKeeps DEF Good

LEMMA SelectUserKeeps ==
  ASSUME Inv, NEW r \in Request, SelectUser(r)
  PROVE  Inv'
  <1> DEFINE p == requests[r]
             plan == SavePlan(p.entity, users[p.user]) \ Hidden
             q == [p EXCEPT !.pc = "write", !.plan = plan]
  <1>1. /\ p \in RequestState /\ p.pc = "select" /\ Good(p) /\ Becomes(r, q)
        /\ UNCHANGED <<tables, accountHistories, codeHistories>>
    BY DEF Inv, TypeOK, SelectUser
  <1>2. p.user \in User /\ Exists(users[p.user]) /\ p.entity \in UserRow
    BY <1>1 DEF Good, Shape, Saving, RequestState
  <1>3. /\ plan \subseteq Column /\ "refresh" \notin plan
        /\ "email" \in plan => p.entity.email # users[p.user].email
    BY <1>2 DEF SavePlan, Hidden, UserRow, Column, NoUserRow
  <1> HIDE DEF plan
  <1>4. /\ q \in RequestState /\ q.pc = "write" /\ q.user = p.user /\ q.plan = plan /\ q.purpose = p.purpose
        /\ q.code = p.code /\ q.kind = p.kind /\ q.entity = p.entity /\ q.otp = p.otp
    BY <1>1, <1>3 DEF RequestState, PC
  <1> HIDE DEF p, q
  <1>5. p.kind \notin Sending \cup Using \cup {"google"} /\ "email" \notin p.purpose /\ p.entity.email \in Email
    BY <1>1 DEF Good, Shape, Saving, Sending, Using, Purposes
  <1>6. p.code = NoCode
    BY <1>1, <1>5 DEF Good, Shape
  <1>7. Shape(q)
    BY <1>2, <1>3, <1>4, <1>5, <1>6 DEF Shape, Saving, Sending, Using, Good
  <1>8. Remembers(q)
    BY <1>1, <1>4 DEF Good, Remembers, Carries, Saving
  <1>9. Honest(q)
    BY <1>1, <1>4, <1>5 DEF Good, Honest, Carries, Saving
  <1>10. Sealed(q)
    BY <1>3, <1>4 DEF Sealed
  <1> QED
    BY <1>1, <1>4, <1>6, <1>7, <1>8, <1>9, <1>10, LoadKeeps DEF Good
------------------------------------------------------------------------------
(* One-time codes *)

LEMMA IdleCode ==
  ASSUME Inv, NEW r \in Request, requests[r].pc = "idle"
  PROVE  requests[r].code = NoCode
  BY DEF Inv, Good, Shape, Sending, Using

\* A step that changes no code: the request drops its own, or goes on to remove its row.
LEMMA CodesKept ==
  ASSUME Inv, NEW r \in Request, NEW q,
         \A s \in Request : requests'[s] = IF s = r THEN q ELSE requests[s],
         \/ q.code = NoCode
         \/ q.code = requests[r].code /\ q.otp = requests[r].otp /\ q.pc \in {"mark", "otpRemove"},
         UNCHANGED <<otps, served, servedAgain>>, exposed \subseteq exposed'
  PROVE  Codes'
  <1>1. NoCode \notin Code
    BY ConstantsAssumption
  <1> QED
    BY <1>1 DEF Inv, Codes

\* The requests' part of Inv, when users and accounts stay as they are.
LEMMA OtherGood ==
  ASSUME Inv, NEW r \in Request, NEW q,
         \A s \in Request : requests'[s] = IF s = r THEN q ELSE requests[s], Good(q),
         UNCHANGED <<users, accountHistories>>
  PROVE  /\ \A s \in Request : Good(requests[s])'
         /\ EmailsUnique' /\ SettingsStand' /\ VerifiedWasProved'
  <1>1. UNCHANGED <<told, overtaken, proved, renamed>>
    BY DEF accountHistories
  <1>2. \A x : Good(x)' <=> Good(x)
    BY <1>1 DEF Good, Shape, Remembers, Honest, Sealed
  <1> QED
    BY <1>1, <1>2 DEF Inv, EmailsUnique, SettingsStand, VerifiedWasProved

LEMMA IssueCodeKeeps ==
  ASSUME Inv, NEW r \in Request, NEW e \in Email, NEW c \in Code, IssueCode(r, e, c)
  PROVE  Inv'
  <1>1. /\ requests[r].pc = "idle" /\ Fresh(c)
        /\ UNCHANGED <<users, otps, accountHistories, served, servedAgain, exposed>>
    BY DEF IssueCode, IsIdle, tables, codeHistories
  <1>2. \E q \in RequestState : Becomes(r, q) /\ Good(q) /\ q.code = c /\ q.pc \in {"otpInsert", "otpUpdate"}
    <2>1. PICK kind \in Sending :
             IF CodesOf(e) = {}
             THEN Becomes(r, [Idle EXCEPT !.kind = kind, !.pc = "otpInsert", !.email = e, !.code = c])
             ELSE \E o \in CodesOf(e) :
                     Becomes(r, [Idle EXCEPT !.kind = kind, !.pc = "otpUpdate", !.otp = o, !.code = c])
      BY DEF IssueCode, Sending
    <2>2. ASSUME NEW q \in RequestState, q.pc \in {"otpInsert", "otpUpdate"}, q.kind = kind, q.code = c,
                 q.pc = "otpInsert" => q.email \in Email, q.pc = "otpUpdate" => q.otp \in OtpRow
          PROVE  Good(q)
      BY <2>2 DEF Good, Shape, Remembers, Honest, Sealed, Saving, Carries, Sending, Using
    <2>3. CASE CodesOf(e) = {}
      <3> DEFINE q == [Idle EXCEPT !.kind = kind, !.pc = "otpInsert", !.email = e, !.code = c]
      <3>1. /\ q \in RequestState /\ q.pc = "otpInsert" /\ q.kind = kind /\ q.code = c /\ q.email = e
            /\ Becomes(r, q)
        BY <2>1, <2>3, Rows DEF RequestState, PC, Kind, Idle, Sending
      <3> HIDE DEF q
      <3> QED
        BY <2>2, <3>1
    <2>4. CASE CodesOf(e) # {}
      <3>1. PICK o \in CodesOf(e) :
                Becomes(r, [Idle EXCEPT !.kind = kind, !.pc = "otpUpdate", !.otp = o, !.code = c])
        BY <2>1, <2>4
      <3> DEFINE q == [Idle EXCEPT !.kind = kind, !.pc = "otpUpdate", !.otp = o, !.code = c]
      <3>2. /\ q \in RequestState /\ q.pc = "otpUpdate" /\ q.kind = kind /\ q.code = c /\ q.otp \in OtpRow
            /\ Becomes(r, q)
        BY <3>1, Rows DEF RequestState, PC, Kind, Idle, Sending, CodesOf
      <3> HIDE DEF q
      <3> QED
        BY <2>2, <3>2
    <2> QED
      BY <2>3, <2>4
  <1>3. PICK q \in RequestState : /\ Becomes(r, q) /\ Good(q) /\ q.code = c
                                  /\ q.pc \in {"otpInsert", "otpUpdate"}
    BY <1>2
  <1>4. /\ \A s \in Request : requests'[s] = IF s = r THEN q ELSE requests[s]
        /\ requests' \in [Request -> RequestState]
    BY <1>3, Becoming DEF Inv
  <1>5. TypeOK'
    BY <1>1, <1>4 DEF Inv, TypeOK, accountHistories
  <1>6. Codes'
    <2>1. \A s \in Request : requests[s].code # c
      BY <1>1 DEF Fresh
    <2>2. (\A o \in OtpRow : otps[o].code # c) /\ c \notin served
      BY <1>1 DEF Fresh
    <2> QED
      BY <1>1, <1>3, <1>4, <2>1, <2>2 DEF Inv, Codes
  <1> QED
    BY <1>1, <1>3, <1>4, <1>5, <1>6, OtherGood DEF Inv

\* The statement that stores a code, and the passing of time.
LEMMA StoreCodeKeeps ==
  ASSUME Inv, NEW r \in Request, NEW o \in OtpRow, InsertOtp(r, o) \/ UpdateOtp(r)
  PROVE  Inv'
  <1> DEFINE p == requests[r]
  <1>1. p \in RequestState /\ p.code \in Code /\ p.pc \in {"otpInsert", "otpUpdate"}
    BY DEF Inv, TypeOK, Good, Shape, InsertOtp, UpdateOtp, Sending, Using
  <1>2. /\ \A s \in Request : requests'[s] = IF s = r THEN Idle ELSE requests[s]
        /\ requests' \in [Request -> RequestState]
        /\ UNCHANGED <<users, accountHistories, served, servedAgain, exposed>>
    BY Becoming, Rows DEF InsertOtp, UpdateOtp, Ends, Inv, codeHistories
  <1>3. PICK x \in OtpRow, row \in OtpState :
            /\ otps' = otps \/ otps' = [otps EXCEPT ![x] = row]
            /\ Exists(row) /\ row.code = p.code /\ row.email \in Email
    <2>1. CASE InsertOtp(r, o)
      <3> DEFINE row == [row |-> "there", email |-> p.email, code |-> p.code, expired |-> FALSE]
      <3>1. p.email \in Email
        BY <2>1 DEF InsertOtp, Inv, Good, Shape
      <3>2. row \in OtpState /\ Exists(row) /\ row.code = p.code /\ row.email \in Email
        BY <1>1, <3>1 DEF OtpState, RowState, Exists
      <3>3. otps' = otps \/ otps' = [otps EXCEPT ![o] = row]
        BY <2>1 DEF InsertOtp
      <3> HIDE DEF row
      <3> QED
        BY <3>2, <3>3
    <2>2. CASE UpdateOtp(r)
      <3>1. p.otp \in OtpRow /\ otps[p.otp] \in OtpState
        BY <2>2 DEF UpdateOtp, Inv, TypeOK, Good, Shape
      <3>2. CASE Exists(otps[p.otp])
        <4> DEFINE row == [otps[p.otp] EXCEPT !.code = p.code, !.expired = FALSE]
        <4>1. row \in OtpState /\ Exists(row) /\ row.code = p.code /\ row.email \in Email
          BY <1>1, <3>1, <3>2 DEF OtpState, RowState, Exists, Inv, Codes
        <4>2. otps' = [otps EXCEPT ![p.otp] = row]
          BY <2>2, <3>1, <3>2 DEF UpdateOtp, Inv, TypeOK, OtpState
        <4> HIDE DEF row
        <4> QED
          BY <3>1, <4>1, <4>2
      <3>3. CASE ~Exists(otps[p.otp])
        <4> DEFINE row == [row |-> "there", email |-> CHOOSE m \in Email : TRUE, code |-> p.code, expired |-> FALSE]
        <4>1. row \in OtpState /\ Exists(row) /\ row.code = p.code /\ row.email \in Email
          BY <1>1, ConstantsAssumption DEF OtpState, RowState, Exists, Inv, TypeOK
        <4> QED
          BY <2>2, <3>1, <3>3, <4>1 DEF UpdateOtp
      <3> QED
        BY <3>2, <3>3
    <2> QED
      BY <2>1, <2>2
  <1>4. TypeOK'
    BY <1>2, <1>3 DEF Inv, TypeOK, accountHistories
  <1>5. \A y \in OtpRow : otps'[y] = otps[y] \/ (y = x /\ otps'[y] = row)
    BY <1>3 DEF Inv, TypeOK
  <1>6. Codes'
    <2>1. ASSUME NEW y \in OtpRow
          PROVE  IF Exists(otps'[y]) THEN otps'[y].code \in Code /\ otps'[y].email \in Email
                 ELSE otps'[y].code = NoCode
      BY <1>1, <1>3, <1>5 DEF Inv, Codes
    <2>2. ASSUME NEW c \in Code \ exposed
          PROVE  /\ \A s, t \in Request : requests'[s].code = c /\ requests'[t].code = c => s = t
                 /\ \A y, z \in OtpRow : otps'[y].code = c /\ otps'[z].code = c => y = z
                 /\ \A y \in OtpRow, s \in Request : otps'[y].code = c /\ requests'[s].code = c =>
                       requests'[s].otp = y /\ requests'[s].pc \in {"mark", "otpRemove"}
                 /\ c \in served => /\ \A y \in OtpRow : otps'[y].code # c
                                    /\ \A s \in Request : requests'[s].code # c
                 /\ c \notin servedAgain
      <3>1. Idle.code # c
        BY Rows, ConstantsAssumption
      <3>2. CASE c = p.code
        <4>1. /\ \A y \in OtpRow : otps[y].code # c
              /\ \A s \in Request : s # r => requests[s].code # c
              /\ c \notin served
          BY <1>1, <2>2, <3>2 DEF Inv, Codes
        <4> QED
          BY <1>2, <1>5, <2>2, <3>1, <4>1 DEF Inv, Codes
      <3>3. CASE c # p.code
        <4>1. \A y \in OtpRow : otps'[y].code = c => otps[y].code = c
          BY <1>3, <1>5, <3>3
        <4> QED
          BY <1>2, <2>2, <3>1, <4>1 DEF Inv, Codes
      <3> QED
        BY <3>2, <3>3
    <2> QED
      BY <1>2, <2>1, <2>2 DEF Codes
  <1> QED
    BY <1>2, <1>4, <1>6, OtherGood, IdleGood DEF Inv

LEMMA ExpireKeeps ==
  ASSUME Inv, NEW o \in OtpRow, Expire(o)
  PROVE  Inv'
  <1> DEFINE row == [otps[o] EXCEPT !.expired = TRUE]
  <1>1. /\ otps' = [otps EXCEPT ![o] = row]
        /\ UNCHANGED <<users, requests, told, overtaken, proved, renamed, served, servedAgain, exposed>>
    BY DEF Expire, accountHistories, codeHistories, Inv, TypeOK, OtpState
  <1>2. /\ row \in OtpState /\ row.code = otps[o].code /\ row.email = otps[o].email
        /\ (Exists(row) <=> Exists(otps[o]))
    BY DEF Inv, TypeOK, OtpState, Exists
  <1> HIDE DEF row
  <1>3. \A y \in OtpRow : /\ otps'[y].code = otps[y].code /\ otps'[y].email = otps[y].email
                          /\ (Exists(otps'[y]) <=> Exists(otps[y]))
    BY <1>1, <1>2 DEF Inv, TypeOK
  <1>4. TypeOK'
    BY <1>1, <1>2 DEF Inv, TypeOK
  <1>5. Codes'
    BY <1>1, <1>3 DEF Inv, Codes
  <1>6. \A r \in Request : Good(requests[r])' <=> Good(requests[r])
    BY <1>1 DEF Good, Shape, Remembers, Honest, Sealed
  <1> QED
    BY <1>1, <1>4, <1>5, <1>6 DEF Inv, EmailsUnique, SettingsStand, VerifiedWasProved
\* A request that has found a code, and holds it from now on.
LEMMA HoldKeeps ==
  ASSUME Inv, NEW r \in Request, NEW o \in OtpRow, NEW q \in RequestState,
         requests[r].pc = "idle", Exists(otps[o]), Becomes(r, q), Holds(r, otps[o].code), Good(q),
         q.pc \in {"mark", "otpRemove"}, q.otp = o, q.code = otps[o].code,
         UNCHANGED <<tables, accountHistories>>
  PROVE  Inv'
  <1> DEFINE c == otps[o].code
  <1>1. /\ \A s \in Request : requests'[s] = IF s = r THEN q ELSE requests[s]
        /\ requests' \in [Request -> RequestState]
        /\ UNCHANGED <<users, otps, served, servedAgain, accountHistories>>
        /\ exposed' \in {exposed, exposed \cup {c}}
        /\ c \notin exposed' => \A s \in Request \ {r} : requests[s].code # c
    BY Becoming DEF Inv, Holds, tables
  <1>2. c \in Code
    BY DEF Inv, Codes
  <1>3. TypeOK'
    BY <1>1, <1>2 DEF Inv, TypeOK, accountHistories
  <1>4. Codes'
    BY <1>1, <1>2 DEF Inv, Codes
  <1> QED
    BY <1>1, <1>3, <1>4, OtherGood DEF Inv

LEMMA VerifyCodeKeeps ==
  ASSUME Inv, NEW r \in Request, NEW o \in OtpRow, VerifyCode(r, o)
  PROVE  Inv'
  <1>1. PICK pc \in {"mark", "otpRemove"} :
            Becomes(r, [Idle EXCEPT !.kind = "verify", !.pc = pc,
                                    !.otp = o, !.email = otps[o].email, !.code = otps[o].code])
    BY DEF VerifyCode
  <1>2. /\ requests[r].pc = "idle" /\ Exists(otps[o]) /\ Holds(r, otps[o].code)
        /\ UNCHANGED <<tables, accountHistories>>
    BY DEF VerifyCode, IsIdle
  <1>3. otps[o].code \in Code /\ otps[o].email \in Email
    BY <1>2 DEF Inv, Codes
  <1> DEFINE q == [Idle EXCEPT !.kind = "verify", !.pc = pc,
                               !.otp = o, !.email = otps[o].email, !.code = otps[o].code]
  <1>4. /\ q \in RequestState /\ q.pc = pc /\ q.otp = o /\ q.email = otps[o].email /\ q.code = otps[o].code
        /\ q.kind = "verify" /\ q.plan = {} /\ q.purpose = {} /\ Becomes(r, q)
    BY <1>1, <1>3, Rows DEF RequestState, PC, Kind, Idle
  <1> HIDE DEF q
  <1>5. Good(q)
    BY <1>3, <1>4 DEF Good, Shape, Remembers, Honest, Sealed, Saving, Carries, Sending, Using
  <1> QED
    BY <1>2, <1>4, <1>5, HoldKeeps

LEMMA ResetPasswordKeeps ==
  ASSUME Inv, NEW r \in Request, NEW u \in User, NEW o \in OtpRow, NEW p \in Password,
         ResetPassword(r, u, o, p)
  PROVE  Inv'
  <1> DEFINE request == [Idle EXCEPT !.kind = "reset", !.pc = "otpRemove", !.user = u,
                                     !.otp = o, !.code = otps[o].code]
             entity == [users[u] EXCEPT !.password = p]
             q == [request EXCEPT !.entity = entity, !.plan = {"password"}, !.purpose = {"password"}]
  <1>1. /\ requests[r].pc = "idle" /\ Exists(otps[o]) /\ Holds(r, otps[o].code) /\ Exists(users[u])
        /\ UNCHANGED <<tables, accountHistories>>
        /\ Becomes(r, request) \/ Becomes(r, q)
        /\ users[u].email \in Email
    BY DEF ResetPassword, IsIdle, Visible, Inv, EmailsUnique
  <1>2. otps[o].code \in Code
    BY <1>1 DEF Inv, Codes
  <1>3. /\ request \in RequestState /\ request.pc = "otpRemove" /\ request.otp = o /\ request.user = u
        /\ request.code = otps[o].code /\ request.kind = "reset" /\ request.plan = {} /\ request.purpose = {}
    BY <1>2, Rows DEF RequestState, PC, Kind, Idle
  <1>4. entity \in UserRow /\ entity.email = users[u].email
    BY DEF Inv, TypeOK, UserRow
  <1> HIDE DEF request, entity
  <1>5. /\ q \in RequestState /\ q.pc = "otpRemove" /\ q.otp = o /\ q.user = u
        /\ q.code = otps[o].code /\ q.kind = "reset" /\ q.plan = {"password"} /\ q.purpose = {"password"}
        /\ q.entity = entity
    BY <1>3, <1>4 DEF RequestState, Column, NoUserRow, Setting
  <1>6. CASE Becomes(r, request)
    <2>1. Good(request)
      BY <1>2, <1>3 DEF Good, Shape, Remembers, Honest, Sealed, Saving, Carries, Sending, Using
    <2> QED
      BY <1>1, <1>3, <1>6, <2>1, HoldKeeps
  <1>7. CASE Becomes(r, q)
    <2> HIDE DEF q
    <2>1. Good(q)
      BY <1>1, <1>2, <1>4, <1>5 DEF Good, Shape, Remembers, Honest, Sealed, Saving, Carries, Sending, Using
    <2> QED
      BY <1>1, <1>5, <1>7, <2>1, HoldKeeps
  <1> QED
    BY <1>1, <1>6, <1>7

LEMMA RemoveOtpKeeps ==
  ASSUME Inv, NEW r \in Request, RemoveOtp(r)
  PROVE  Inv'
  <1> DEFINE p == requests[r]
             goneRow == [NoOtpRow EXCEPT !.row = "removed"]
             q == IF p.purpose # {} THEN [p EXCEPT !.pc = "write"] ELSE Idle
  <1>1. /\ p \in RequestState /\ p.pc = "otpRemove" /\ Good(p) /\ p.kind \in Using /\ p.otp \in OtpRow
        /\ p.code \in Code /\ Becomes(r, q) /\ UNCHANGED <<users, accountHistories, exposed>>
    BY DEF Inv, TypeOK, RemoveOtp, Ends, Good, Shape, Serves, codeHistories
  <1>2. goneRow \in OtpState /\ ~Exists(goneRow) /\ goneRow.code = NoCode
    BY DEF NoOtpRow, OtpState, RowState, Exists
  <1> HIDE DEF goneRow
  <1>3. /\ otps' = IF Exists(otps[p.otp]) THEN [otps EXCEPT ![p.otp] = goneRow] ELSE otps
        /\ \A o \in OtpRow : \/ otps'[o] = otps[o] /\ (o = p.otp => ~Exists(otps[o]))
                             \/ o = p.otp /\ otps'[o] = goneRow
    BY <1>1 DEF RemoveOtp, Inv, TypeOK, goneRow
  <1>4. \/ /\ p.kind = "verify" /\ served' = served \cup {p.code}
           /\ servedAgain' = (IF p.code \in served THEN servedAgain \cup {p.code} ELSE servedAgain)
        \/ p.kind = "reset" /\ UNCHANGED <<served, servedAgain>>
    BY <1>1 DEF RemoveOtp, Serves, Using, codeHistories
  <1>5. q \in RequestState /\ Good(q) /\ (q.code = NoCode \/ (q.code = p.code /\ p.kind = "reset"))
    <2>1. CASE p.purpose = {}
      BY <2>1, Rows, IdleGood
    <2>2. CASE p.purpose # {}
      <3>1. /\ q \in RequestState /\ q.pc = "write" /\ q.user = p.user /\ q.plan = p.plan /\ q.purpose = p.purpose
            /\ q.code = p.code /\ q.kind = p.kind /\ q.entity = p.entity /\ q.otp = p.otp
        BY <1>1, <2>2 DEF RequestState, PC
      <3>2. p.kind = "reset"
        BY <1>1, <2>2 DEF Good, Shape, Using
      <3> HIDE DEF q, p
      <3>3. Shape(q)
        BY <1>1, <2>2, <3>1, <3>2 DEF Good, Shape, Saving, Sending, Using
      <3>4. Remembers(q) /\ Honest(q) /\ Sealed(q)
        BY <1>1, <2>2, <3>1 DEF Good, Remembers, Honest, Sealed, Carries, Saving
      <3> QED
        BY <3>1, <3>2, <3>3, <3>4 DEF Good
    <2> QED
      BY <2>1, <2>2
  <1>6. /\ \A s \in Request : requests'[s] = IF s = r THEN q ELSE requests[s]
        /\ requests' \in [Request -> RequestState]
    BY <1>1, <1>5, Becoming DEF Inv
  <1>7. TypeOK'
    BY <1>1, <1>2, <1>3, <1>4, <1>6 DEF Inv, TypeOK, accountHistories
  <1> HIDE DEF q
  <1>8. Codes'
    <2>1. ASSUME NEW y \in OtpRow
          PROVE  IF Exists(otps'[y]) THEN otps'[y].code \in Code /\ otps'[y].email \in Email
                 ELSE otps'[y].code = NoCode
      BY <1>2, <1>3 DEF Inv, Codes
    <2>2. \A y \in OtpRow : \A c \in Code : otps'[y].code = c => otps[y].code = c
      BY <1>2, <1>3, ConstantsAssumption
    <2>3. ASSUME NEW c \in Code \ exposed
          PROVE  /\ \A s, t \in Request : requests'[s].code = c /\ requests'[t].code = c => s = t
                 /\ \A y, z \in OtpRow : otps'[y].code = c /\ otps'[z].code = c => y = z
                 /\ \A y \in OtpRow, s \in Request : otps'[y].code = c /\ requests'[s].code = c =>
                       requests'[s].otp = y /\ requests'[s].pc \in {"mark", "otpRemove"}
                 /\ c \in served' => /\ \A y \in OtpRow : otps'[y].code # c
                                     /\ \A s \in Request : requests'[s].code # c
                 /\ c \notin servedAgain'
      <3>1. NoCode # c
        BY ConstantsAssumption
      <3>2. CASE c = p.code
        <4>1. /\ \A y \in OtpRow : otps[y].code = c => y = p.otp
              /\ \A s \in Request : s # r => requests[s].code # c
              /\ c \notin served /\ c \notin servedAgain
          BY <1>1, <2>3, <3>2 DEF Inv, Codes
        <4>2. \A y \in OtpRow : otps'[y].code # c
          BY <1>2, <1>3, <2>2, <3>1, <4>1 DEF Inv, Codes
        <4>3. c \notin servedAgain'
          BY <1>4, <3>2, <4>1
        <4>4. c \in served' => q.code # c
          BY <1>4, <1>5, <3>1, <4>1
        <4> QED
          BY <1>6, <4>1, <4>2, <4>3, <4>4
      <3>3. CASE c # p.code
        <4>1. q.code # c /\ (c \in served' => c \in served) /\ (c \in servedAgain' => c \in servedAgain)
          BY <1>4, <1>5, <3>1, <3>3
        <4> QED
          BY <1>6, <2>2, <2>3, <4>1 DEF Inv, Codes
      <3> QED
        BY <3>2, <3>3
    <2> QED
      BY <1>1, <2>1, <2>3 DEF Codes
  <1> QED
    BY <1>1, <1>5, <1>6, <1>7, <1>8, OtherGood DEF Inv

LEMMA AbortKeeps ==
  ASSUME Inv, NEW r \in Request, Abort(r)
  PROVE  Inv'
  <1>1. /\ \A s \in Request : requests'[s] = IF s = r THEN Idle ELSE requests[s]
        /\ requests' \in [Request -> RequestState]
        /\ UNCHANGED <<users, otps, accountHistories, served, servedAgain>>
    BY Becoming, Rows DEF Abort, Ends, Inv, tables
  <1>2. exposed \subseteq exposed' /\ exposed' \subseteq Code
    BY DEF Abort, Inv, TypeOK, Good, Shape, Using
  <1>3. TypeOK'
    BY <1>1, <1>2 DEF Inv, TypeOK, accountHistories
  <1>4. Codes'
    BY <1>1, <1>2, Rows, CodesKept
  <1> QED
    BY <1>1, <1>3, <1>4, IdleGood, OtherGood DEF Inv
------------------------------------------------------------------------------
(* Statements on users *)

\* Requests keep what they know when rows stay, addresses change only for
\* those renamed, and what requests remember is still told.
LEMMA SavedRow ==
  ASSUME NEW plan \in SUBSET Column, NEW entity \in UserRow, NEW row \in UserRow
  PROVE  /\ SavedUser(plan, entity, row) \in UserRow
         /\ SavedUser(plan, entity, row).row = row.row
         /\ \A c \in Column \ {"row"} :
               SavedUser(plan, entity, row)[c] = IF c \in plan THEN entity[c] ELSE row[c]
  BY DEF SavedUser, Written, UserRow, Column, NoUserRow

LEMMA Columns == Setting \subseteq Column \ {"row", "refresh"} /\ {"email", "verified", "refresh"} \subseteq Column
  BY DEF Setting, Column, NoUserRow

\* A deliberate change meets every other request that holds an older value.
LEMMA TellKeeps ==
  ASSUME Inv, NEW r \in Request, NEW u \in User, NEW C \in SUBSET Setting, NEW entity \in UserRow,
         Tell(r, u, C, entity)
  PROVE  /\ told' \in [User -> UserRow] /\ overtaken' \subseteq User \X Setting /\ renamed' \subseteq User
         /\ renamed \subseteq renamed' /\ ("email" \in C => u \in renamed')
         /\ \A v \in User, c \in Setting :
               IF v = u /\ c \in C THEN told'[v][c] = entity[c]
               ELSE told'[v][c] = told[v][c] /\ (<<v, c>> \in overtaken => <<v, c>> \in overtaken')
         /\ \A s \in Request \ {r} : Remembers(requests[s]) /\ Shape(requests[s]) =>
               \A c \in Setting \ requests[s].purpose : Carries(requests[s], c) =>
                  \/ requests[s].entity[c] = told'[requests[s].user][c]
                  \/ <<requests[s].user, c>> \in overtaken'
  <1> DEFINE new == SavedUser(C, entity, told[u])
             met == {d \in C : \E q \in Request \ {r} : Stale(requests[q], u, d, entity[d])}
  <1>1. C \subseteq Column /\ told[u] \in UserRow
    BY Columns DEF Inv, TypeOK
  <1>2. new \in UserRow /\ \A c \in Setting : new[c] = IF c \in C THEN entity[c] ELSE told[u][c]
    BY <1>1, SavedRow, Columns
  <1>3. /\ told' = [told EXCEPT ![u] = new]
        /\ overtaken' = {x \in overtaken : x[1] # u \/ x[2] \notin C} \cup {<<u, c>> : c \in met}
        /\ renamed' = IF "email" \in C THEN renamed \cup {u} ELSE renamed
    BY DEF Tell
  <1> HIDE DEF new
  <1>4. told' \in [User -> UserRow] /\ overtaken' \subseteq User \X Setting /\ renamed' \subseteq User
    BY <1>2, <1>3 DEF Inv, TypeOK
  <1>5. renamed \subseteq renamed' /\ ("email" \in C => u \in renamed')
    BY <1>3
  <1>6. ASSUME NEW v \in User, NEW c \in Setting
        PROVE  IF v = u /\ c \in C THEN told'[v][c] = entity[c]
               ELSE told'[v][c] = told[v][c] /\ (<<v, c>> \in overtaken => <<v, c>> \in overtaken')
    BY <1>2, <1>3 DEF Inv, TypeOK
  <1>7. ASSUME NEW s \in Request \ {r}, Remembers(requests[s]), Shape(requests[s]),
               NEW c \in Setting \ requests[s].purpose, Carries(requests[s], c)
        PROVE  \/ requests[s].entity[c] = told'[requests[s].user][c]
               \/ <<requests[s].user, c>> \in overtaken'
    <2> DEFINE q == requests[s]
    <2>1. q.user \in User /\ (q.pc = "select" \/ (q.pc = "write" /\ c \in q.plan))
      BY <1>7 DEF Shape, Carries, Saving
    <2>2. CASE q.user = u /\ c \in C
      <3>1. CASE q.entity[c] = entity[c]
        BY <1>6, <2>2, <3>1
      <3>2. CASE q.entity[c] # entity[c]
        <4>1. Stale(q, u, c, entity[c])
          BY <2>1, <2>2, <3>2 DEF Stale
        <4>2. c \in met
          BY <2>2, <4>1
        <4> QED
          BY <1>3, <2>2, <4>2
      <3> QED
        BY <3>1, <3>2
    <2>3. CASE ~(q.user = u /\ c \in C)
      BY <1>6, <1>7, <2>1, <2>3 DEF Remembers
    <2> QED
      BY <2>2, <2>3
  <1> QED
    BY <1>4, <1>5, <1>6, <1>7
LEMMA IssueTokenKeeps ==
  ASSUME Inv, NEW r \in Request, NEW s \in Session, IssueToken(r, s)
  PROVE  Inv'
  <1> DEFINE u == requests[r].user
             new == [users[u] EXCEPT !.refresh = s]
  <1>1. /\ \A x \in Request : requests'[x] = IF x = r THEN Idle ELSE requests[x]
        /\ requests' \in [Request -> RequestState]
        /\ UNCHANGED <<otps, told, overtaken, proved, renamed, served, servedAgain, exposed>>
    BY Becoming, Rows DEF IssueToken, Ends, Inv, accountHistories, codeHistories
  <1>2. u \in User /\ users[u] \in UserRow /\ users' = [users EXCEPT ![u] = new]
    BY DEF IssueToken, Inv, TypeOK, Good, Shape, UserRow
  <1>3. new \in UserRow /\ \A c \in Column \ {"refresh"} : new[c] = users[u][c]
    BY <1>2 DEF UserRow, Column, NoUserRow
  <1> HIDE DEF new, u
  <1>4. \A v \in User : /\ \A c \in Setting : users'[v][c] = users[v][c]
                        /\ users'[v].row = users[v].row
    BY <1>2, <1>3, Columns DEF Inv, TypeOK, Column, NoUserRow
  <1>5. \A v \in User : /\ users'[v].email = users[v].email /\ users'[v].verified = users[v].verified
                        /\ Exists(users'[v]) <=> Exists(users[v])
    BY <1>4 DEF Setting, Exists
  <1>6. TypeOK'
    BY <1>1, <1>2, <1>3 DEF Inv, TypeOK
  <1>7. EmailsUnique' /\ SettingsStand' /\ VerifiedWasProved'
    BY <1>1, <1>4, <1>5 DEF Inv, EmailsUnique, SettingsStand, VerifiedWasProved
  <1>8. Codes'
    BY <1>1, Rows, CodesKept
  <1>9. ASSUME NEW x \in Request PROVE Good(requests[x])'
    <2>1. CASE x = r
      BY <1>1, <2>1, IdleGood DEF Good, Shape, Remembers, Honest, Sealed, Saving, Carries, Idle
    <2>2. CASE x # r
      <3>1. requests[x] \in RequestState /\ Good(requests[x]) /\ requests'[x] = requests[x]
        BY <1>1, <2>2 DEF Inv, TypeOK
      <3>2. Remembers(requests[x])'
        BY <1>1, <3>1 DEF Good, Remembers
      <3>3. Shape(requests[x])' /\ Honest(requests[x])' /\ Sealed(requests[x])'
        BY <1>1, <1>5, <3>1 DEF Good, Shape, Honest, Sealed, Carries
      <3> QED
        BY <3>2, <3>3 DEF Good
    <2> QED
      BY <2>1, <2>2
  <1> QED
    BY <1>6, <1>7, <1>8, <1>9 DEF Inv

LEMMA InsertUserKeeps ==
  ASSUME Inv, NEW r \in Request, NEW u \in User, InsertUser(r, u)
  PROVE  Inv'
  <1> DEFINE p == requests[r]
  <1>1. /\ p \in RequestState /\ p.pc = "insert" /\ Good(p) /\ ~Exists(users[u])
        /\ UNCHANGED <<otps, overtaken, renamed, served, servedAgain, exposed>>
    BY DEF InsertUser, Inv, TypeOK, codeHistories
  <1>2. CASE Taken(p.entity.email, u)
    <2>1. Becomes(r, Idle) /\ UNCHANGED <<users, accountHistories>>
      BY <1>2 DEF InsertUser, Ends, accountHistories
    <2>2. /\ \A x \in Request : requests'[x] = IF x = r THEN Idle ELSE requests[x]
          /\ requests' \in [Request -> RequestState]
      BY <2>1, Becoming, Rows DEF Inv
    <2>3. TypeOK'
      BY <1>1, <2>1, <2>2 DEF Inv, TypeOK, accountHistories
    <2>4. Codes'
      BY <1>1, <2>2, Rows, CodesKept
    <2> QED
      BY <2>1, <2>2, <2>3, <2>4, IdleGood, OtherGood DEF Inv
  <1>3. CASE ~Taken(p.entity.email, u)
    <2> DEFINE next == [Idle EXCEPT !.kind = p.kind, !.pc = "issue", !.user = u]
               q == IF p.kind = "google" THEN next ELSE Idle
    <2>1. /\ users' = [users EXCEPT ![u] = p.entity] /\ told' = [told EXCEPT ![u] = p.entity]
          /\ proved' = IF Vouched(p.kind) THEN proved \cup {<<u, p.entity.email>>} ELSE proved
          /\ Becomes(r, q)
      BY <1>3 DEF InsertUser, Ends
    <2>2. /\ p.entity \in UserRow /\ p.entity.row = "there" /\ p.entity.email \in Email
          /\ p.entity.verified => Vouched(p.kind)
      BY <1>1 DEF RequestState, Good, Shape, Honest
    <2>3. /\ next \in RequestState /\ next.pc = "issue" /\ next.user = u /\ next.code = NoCode
          /\ next.kind = p.kind /\ next.plan = {}
      BY <1>1, Rows DEF RequestState, PC, Idle
    <2>4. /\ q \in RequestState /\ q.code = NoCode
          /\ \/ q = Idle
             \/ q.pc = "issue" /\ q.user = u /\ q.kind = "google" /\ q.plan = {}
      BY <2>3, Rows
    <2> HIDE DEF next, q
    <2>5. /\ \A x \in Request : requests'[x] = IF x = r THEN q ELSE requests[x]
          /\ requests' \in [Request -> RequestState]
      BY <2>1, <2>4, Becoming DEF Inv
    <2>6. \A v \in User : /\ users'[v] = IF v = u THEN p.entity ELSE users[v]
                          /\ told'[v] = IF v = u THEN p.entity ELSE told[v]
      BY <2>1 DEF Inv, TypeOK
    <2>7. TypeOK'
      BY <1>1, <2>1, <2>2, <2>5 DEF Inv, TypeOK
    <2>8. EmailsUnique'
      BY <1>3, <2>2, <2>6 DEF Inv, EmailsUnique, Taken, Exists
    <2>9. SettingsStand'
      BY <1>1, <2>6 DEF Inv, SettingsStand
    <2>10. VerifiedWasProved'
      BY <1>1, <2>1, <2>2, <2>6 DEF Inv, VerifiedWasProved
    <2>11. Codes'
      BY <1>1, <2>4, <2>5, CodesKept
    <2>12. ASSUME NEW x \in Request PROVE Good(requests[x])'
      <3>1. CASE x = r
        <4>1. Exists(users'[u])
          BY <2>2, <2>6 DEF Exists
        <4>2. CASE q = Idle
          BY <2>5, <3>1, <4>2 DEF Good, Shape, Remembers, Honest, Sealed, Saving, Carries, Idle, Sending, Using
        <4>3. CASE q # Idle
          BY <2>4, <2>5, <3>1, <4>1, <4>3 DEF Good, Shape, Remembers, Honest, Sealed, Saving, Carries, Sending, Using
        <4> QED
          BY <4>2, <4>3
      <3>2. CASE x # r
        <4>1. requests[x] \in RequestState /\ Good(requests[x]) /\ requests'[x] = requests[x]
          BY <2>5, <3>2 DEF Inv, TypeOK
        <4>2. Saving(requests[x]) \/ requests[x].pc = "issue" => requests[x].user \in User \ {u}
          BY <1>1, <4>1 DEF Good, Shape
        <4>3. Remembers(requests[x])'
          BY <1>1, <2>6, <4>1, <4>2 DEF Good, Remembers, Carries
        <4>4. Shape(requests[x])'
          BY <2>6, <4>1, <4>2 DEF Good, Shape
        <4>5. Honest(requests[x])'
          BY <1>1, <2>1, <2>6, <4>1, <4>2 DEF Good, Honest, Carries
        <4>6. Sealed(requests[x])'
          BY <4>1 DEF Good, Sealed
        <4> QED
          BY <4>3, <4>4, <4>5, <4>6 DEF Good
      <3> QED
        BY <3>1, <3>2
    <2> QED
      BY <2>7, <2>8, <2>9, <2>10, <2>11, <2>12 DEF Inv
  <1> QED
    BY <1>2, <1>3
\* The settings C of u change on purpose, in row and history alike; whatever
\* else of the row changes was remembered.  The request goes on as q.
Changes(r, u, C, entity, new, q) ==
    /\ u \in User /\ Exists(users[u]) /\ C \subseteq Setting /\ entity \in UserRow /\ new \in UserRow
    /\ users' = [users EXCEPT ![u] = new] /\ new.row = users[u].row /\ Tell(r, u, C, entity)
    /\ \A c \in C : new[c] = entity[c]
    /\ \A c \in Setting \ C : new[c] = users[u][c] \/ new[c] = told[u][c] \/ <<u, c>> \in overtaken
    /\ new.email = users[u].email \/ (new.email \in Email /\ ~Taken(new.email, u) /\ u \in renamed')
    /\ new.verified => <<u, new.email>> \in proved' \/ u \in renamed'
    /\ proved \subseteq proved' /\ proved' \subseteq User \X Email
    /\ Becomes(r, q) /\ q \in RequestState
    /\ \/ q = Idle
       \/ q.pc = "issue" /\ q.user = u /\ q.plan = {} /\ q.kind \notin Sending \cup Using /\ q.code = NoCode
       \/ /\ q.pc = "otpRemove" /\ q.kind = "verify" /\ q.plan = {} /\ q.purpose = {}
          /\ q.otp \in OtpRow /\ q.code \in Code
    /\ UNCHANGED otps
    /\ served' \subseteq Code /\ servedAgain' \subseteq Code /\ exposed' \subseteq Code

LEMMA ChangeKeeps ==
  ASSUME Inv, NEW r \in Request, NEW u, NEW C, NEW entity, NEW new, NEW q,
         Changes(r, u, C, entity, new, q), Codes'
  PROVE  Inv'
  <1> USE DEF Changes
  <1>1. /\ \A x \in Request : requests'[x] = IF x = r THEN q ELSE requests[x]
        /\ requests' \in [Request -> RequestState]
    BY Becoming DEF Inv
  <1>2. /\ told' \in [User -> UserRow] /\ overtaken' \subseteq User \X Setting /\ renamed' \subseteq User
        /\ renamed \subseteq renamed'
        /\ \A v \in User, c \in Setting :
              IF v = u /\ c \in C THEN told'[v][c] = entity[c]
              ELSE told'[v][c] = told[v][c] /\ (<<v, c>> \in overtaken => <<v, c>> \in overtaken')
        /\ \A s \in Request \ {r} : Remembers(requests[s]) /\ Shape(requests[s]) =>
              \A c \in Setting \ requests[s].purpose : Carries(requests[s], c) =>
                 \/ requests[s].entity[c] = told'[requests[s].user][c]
                 \/ <<requests[s].user, c>> \in overtaken'
    BY TellKeeps
  <1>3. \A v \in User : users'[v] = IF v = u THEN new ELSE users[v]
    BY DEF Inv, TypeOK
  <1>4. TypeOK'
    BY <1>1, <1>2 DEF Inv, TypeOK
  <1>5. EmailsUnique'
    BY <1>3 DEF Inv, EmailsUnique, Taken, Exists
  <1>6. SettingsStand'
    <2> SUFFICES ASSUME NEW v \in User, NEW c \in Setting
                 PROVE  users'[v][c] = told'[v][c] \/ <<v, c>> \in overtaken'
      BY DEF SettingsStand
    <2>1. users[v][c] = told[v][c] \/ <<v, c>> \in overtaken
      BY DEF Inv, SettingsStand
    <2>2. CASE v = u /\ c \in C
      BY <1>2, <1>3, <2>2
    <2>3. CASE v = u /\ c \notin C
      BY <1>2, <1>3, <2>1, <2>3
    <2>4. CASE v # u
      BY <1>2, <1>3, <2>1, <2>4
    <2> QED
      BY <2>2, <2>3, <2>4
  <1>7. VerifiedWasProved'
    BY <1>2, <1>3 DEF Inv, VerifiedWasProved
  <1>8. \A v \in User : Exists(users[v]) =>
            Exists(users'[v]) /\ (users'[v].email = users[v].email \/ v \in renamed')
    BY <1>3 DEF Exists
  <1>9. ASSUME NEW x \in Request PROVE Good(requests[x])'
    <2>1. CASE x = r
      <3>1. Exists(users'[u])
        BY <1>8
      <3>2. CASE q = Idle
        BY <1>1, <2>1, <3>2 DEF Good, Shape, Remembers, Honest, Sealed, Saving, Carries, Idle, Sending, Using
      <3>3. CASE q.pc = "issue" /\ q.user = u /\ q.plan = {} /\ q.kind \notin Sending \cup Using /\ q.code = NoCode
        BY <1>1, <2>1, <3>1, <3>3 DEF Good, Shape, Remembers, Honest, Sealed, Saving, Carries, Sending, Using
      <3>4. CASE /\ q.pc = "otpRemove" /\ q.kind = "verify" /\ q.plan = {} /\ q.purpose = {}
                 /\ q.otp \in OtpRow /\ q.code \in Code
        BY <1>1, <2>1, <3>4 DEF Good, Shape, Remembers, Honest, Sealed, Saving, Carries, Sending, Using
      <3> QED
        BY <3>2, <3>3, <3>4
    <2>2. CASE x # r
      <3>1. requests[x] \in RequestState /\ Good(requests[x]) /\ requests'[x] = requests[x]
        BY <1>1, <2>2 DEF Inv, TypeOK
      <3>2. Remembers(requests[x])'
        BY <1>2, <2>2, <3>1 DEF Good, Remembers, Carries
      <3>3. Shape(requests[x])'
        BY <1>8, <3>1 DEF Good, Shape
      <3>4. Honest(requests[x])'
        BY <1>2, <1>8, <3>1 DEF Good, Shape, Honest, Carries
      <3>5. Sealed(requests[x])'
        BY <3>1 DEF Good, Sealed
      <3> QED
        BY <3>2, <3>3, <3>4, <3>5 DEF Good
    <2> QED
      BY <2>1, <2>2
  <1> QED
    BY <1>4, <1>5, <1>6, <1>7, <1>9 DEF Inv

LEMMA MarkVerifiedKeeps ==
  ASSUME Inv, NEW r \in Request, MarkVerified(r)
  PROVE  Inv'
  <1> DEFINE p == requests[r]
             holders == {u \in User : Exists(users[u]) /\ users[u].email = p.email}
             q == [p EXCEPT !.pc = "otpRemove"]
             ver(row) == [row EXCEPT !.verified = TRUE]
  <1>1. /\ p \in RequestState /\ p.pc = "mark" /\ Good(p) /\ p.kind = "verify" /\ p.email \in Email
        /\ p.otp \in OtpRow /\ p.code \in Code /\ p.purpose = {} /\ Becomes(r, q)
        /\ users' = [u \in User |-> IF u \in holders THEN ver(users[u]) ELSE users[u]]
        /\ IF holders = {} THEN UNCHANGED <<told, overtaken, renamed>>
           ELSE \E u \in holders : Tell(r, u, {"verified"}, ver(users[u]))
        /\ proved' = proved \cup (holders \X {p.email})
        /\ UNCHANGED <<otps, served, servedAgain, exposed>>
    BY DEF MarkVerified, Inv, TypeOK, Good, Shape, Using, codeHistories
  <1>2. /\ q \in RequestState /\ q.pc = "otpRemove" /\ q.kind = "verify" /\ q.purpose = {} /\ q.plan = p.plan
        /\ q.otp = p.otp /\ q.code = p.code
    BY <1>1 DEF RequestState, PC
  <1>3. \A u, v \in holders : u = v
    BY DEF Inv, EmailsUnique
  <1> HIDE DEF q
  <1>4. /\ \A x \in Request : requests'[x] = IF x = r THEN q ELSE requests[x]
        /\ requests' \in [Request -> RequestState]
    BY <1>1, <1>2, Becoming DEF Inv
  <1>5. Codes'
    BY <1>1, <1>2, <1>4, CodesKept
  <1>6. CASE holders = {}
    <2>1. UNCHANGED <<users, told, overtaken, renamed, proved>>
      BY <1>1, <1>6 DEF Inv, TypeOK
    <2>2. Good(q)
      BY <1>1, <1>2 DEF Good, Shape, Remembers, Honest, Sealed, Saving, Carries, Sending, Using
    <2>3. TypeOK'
      BY <1>1, <1>4, <2>1 DEF Inv, TypeOK
    <2> QED
      BY <1>4, <1>5, <2>1, <2>2, <2>3, OtherGood DEF Inv, accountHistories
  <1>7. ASSUME NEW u \in holders, Tell(r, u, {"verified"}, ver(users[u])) PROVE Inv'
    <2> DEFINE entity == ver(users[u])
    <2>1. u \in User /\ Exists(users[u]) /\ users[u] \in UserRow /\ users[u].email = p.email /\ u \in holders
      BY DEF Inv, TypeOK
    <2>2. /\ entity \in UserRow /\ entity.row = users[u].row /\ entity["verified"] = TRUE
          /\ entity.email = users[u].email /\ \A c \in Setting \ {"verified"} : entity[c] = users[u][c]
      BY <2>1 DEF UserRow, Setting
    <2>3. users' = [users EXCEPT ![u] = entity]
      <3>1. users \in [User -> UserRow] /\ \A v \in User : v \in holders <=> v = u
        BY <1>3, <2>1 DEF Inv, TypeOK
      <3> HIDE DEF holders
      <3> QED
        BY <1>1, <3>1
    <2>4. <<u, entity.email>> \in proved'
      BY <1>1, <2>1, <2>2
    <2>5. proved \subseteq proved' /\ proved' \subseteq User \X Email
      BY <1>1 DEF Inv, TypeOK
    <2>6. /\ q.plan = {} /\ q.otp \in OtpRow /\ q.code \in Code
          /\ served' \subseteq Code /\ servedAgain' \subseteq Code /\ exposed' \subseteq Code
      BY <1>1, <1>2 DEF Good, Shape, Inv, TypeOK
    <2>7. Tell(r, u, {"verified"}, entity) /\ {"verified"} \in SUBSET Setting
      BY <1>7 DEF Setting
    <2>8. PICK new, next : new = entity /\ next = q
      OBVIOUS
    <2>9. Changes(r, u, {"verified"}, new, new, next)
      <3>1. Tell(r, u, {"verified"}, new) /\ Becomes(r, next)
        BY <1>1, <2>7, <2>8 DEF Tell, Becomes
      <3> HIDE DEF entity, holders, p
      <3> QED
        BY <1>1, <1>2, <2>1, <2>2, <2>3, <2>4, <2>5, <2>6, <2>7, <2>8, <3>1 DEF Changes
    <2> QED
      BY <1>5, <2>9, ChangeKeeps
  <1> QED
    BY <1>1, <1>6, <1>7
\* The statement of an UPDATE or of a save.
LEMMA WriteUserKeeps ==
  ASSUME Inv, NEW r \in Request, WriteUser(r)
  PROVE  Inv'
  <1> DEFINE p == requests[r]
             u == p.user
             done == p.plan \cap p.purpose
             new == SavedUser(p.plan, p.entity, users[u])
  <1>1. /\ p \in RequestState /\ p.pc = "write" /\ Good(p) /\ UNCHANGED otps
        /\ u \in User /\ Exists(users[u]) /\ users[u] \in UserRow
        /\ p.entity \in UserRow /\ p.entity.email \in Email
    BY DEF WriteUser, Inv, TypeOK, Good, Shape, Saving, RequestState
  <1>2. CASE "email" \in p.plan /\ Taken(p.entity.email, u)
    <2>1. Becomes(r, Idle) /\ UNCHANGED <<users, accountHistories, served, servedAgain, exposed>>
      BY <1>2 DEF WriteUser, Ends, codeHistories
    <2>2. /\ \A x \in Request : requests'[x] = IF x = r THEN Idle ELSE requests[x]
          /\ requests' \in [Request -> RequestState]
      BY <2>1, Becoming, Rows DEF Inv
    <2>3. TypeOK'
      BY <1>1, <2>1, <2>2 DEF Inv, TypeOK, accountHistories
    <2>4. Codes'
      BY <1>1, <2>1, <2>2, Rows, CodesKept
    <2> QED
      BY <2>1, <2>2, <2>3, <2>4, IdleGood, OtherGood DEF Inv
  <1>3. CASE ~("email" \in p.plan /\ Taken(p.entity.email, u))
    <2> DEFINE next == [Idle EXCEPT !.kind = p.kind, !.pc = "issue", !.user = u]
               q == IF p.kind = "google" THEN next ELSE Idle
    <2>1. /\ users' = [users EXCEPT ![u] = new] /\ Tell(r, u, done, p.entity)
          /\ proved' = IF p.kind = "verifyEmail" THEN proved \cup {<<u, p.entity.email>>} ELSE proved
          /\ Becomes(r, q)
          /\ IF p.kind = "reset" THEN Serves(p.code) ELSE UNCHANGED codeHistories
      BY <1>1, <1>3 DEF WriteUser, Ends, Inv, TypeOK
    <2>2. /\ p.plan \subseteq Column /\ done \in SUBSET Setting /\ done \subseteq p.plan
          /\ new \in UserRow /\ new.row = users[u].row
          /\ \A c \in Column \ {"row"} : new[c] = IF c \in p.plan THEN p.entity[c] ELSE users[u][c]
      <3>1. p.plan \in SUBSET Column /\ done \in SUBSET Setting /\ done \subseteq p.plan
        BY <1>1 DEF RequestState
      <3> HIDE DEF p, u, done
      <3> QED
        BY <1>1, <3>1, SavedRow
    <2>3. /\ next \in RequestState /\ next.pc = "issue" /\ next.user = u /\ next.code = NoCode
          /\ next.kind = p.kind /\ next.plan = {}
      BY <1>1, Rows DEF RequestState, PC, Idle
    <2>4. /\ q \in RequestState /\ q.code = NoCode
          /\ \/ q = Idle
             \/ q.pc = "issue" /\ q.user = u /\ q.kind \notin Sending \cup Using /\ q.plan = {}
      BY <2>3, Rows DEF Sending, Using
    <2> HIDE DEF next, q, new
    <2>5. /\ \A x \in Request : requests'[x] = IF x = r THEN q ELSE requests[x]
          /\ requests' \in [Request -> RequestState]
      BY <2>1, <2>4, Becoming DEF Inv
    <2>6. /\ \A c \in done : new[c] = p.entity[c]
          /\ \A c \in Setting \ done : \/ new[c] = users[u][c] \/ new[c] = told[u][c]
                                       \/ <<u, c>> \in overtaken
      BY <1>1, <2>2, Columns DEF Good, Remembers, Carries, Saving
    <2>7. renamed \subseteq renamed' /\ ("email" \in done => u \in renamed')
      BY <2>1 DEF Tell
    <2>8. /\ new.email = users[u].email \/ (new.email \in Email /\ ~Taken(new.email, u) /\ u \in renamed')
          /\ new.email = p.entity.email \/ new.email = users[u].email
          /\ p.entity.email = users[u].email \/ u \in renamed'
      BY <1>1, <1>3, <2>2, <2>7, Columns DEF Good, Honest, Saving
    <2>9. new.verified => <<u, new.email>> \in proved' \/ u \in renamed'
      <3>1. CASE "verified" \in p.plan
        <4>1. new.verified = p.entity.verified
          BY <2>2, <3>1, Columns
        <4>2. p.entity.verified => p.kind = "verifyEmail" \/ <<u, p.entity.email>> \in proved \/ u \in renamed
          BY <1>1, <3>1 DEF Good, Honest, Carries, Saving
        <4> QED
          BY <2>1, <2>7, <2>8, <4>1, <4>2
      <3>2. CASE "verified" \notin p.plan
        <4>1. new.verified = users[u].verified
          BY <2>2, <3>2, Columns
        <4> QED
          BY <1>1, <2>1, <2>7, <2>8, <4>1 DEF Inv, VerifiedWasProved
      <3> QED
        BY <3>1, <3>2
    <2>10. proved \subseteq proved' /\ proved' \subseteq User \X Email
      BY <1>1, <2>1 DEF Inv, TypeOK
    <2>11. /\ Codes'
           /\ served' \subseteq Code /\ servedAgain' \subseteq Code /\ exposed' \subseteq Code
      <3>1. CASE p.kind = "reset"
        <4>1. /\ served' = served \cup {p.code} /\ UNCHANGED exposed /\ p.code \in Code
              /\ servedAgain' = IF p.code \in served THEN servedAgain \cup {p.code} ELSE servedAgain
          BY <1>1, <2>1, <3>1 DEF Serves, Good, Shape, Using
        <4>2. ASSUME NEW c \in Code \ exposed
              PROVE  /\ \A s, t \in Request : requests'[s].code = c /\ requests'[t].code = c => s = t
                     /\ \A y, z \in OtpRow : otps'[y].code = c /\ otps'[z].code = c => y = z
                     /\ \A y \in OtpRow, s \in Request : otps'[y].code = c /\ requests'[s].code = c =>
                           requests'[s].otp = y /\ requests'[s].pc \in {"mark", "otpRemove"}
                     /\ c \in served' => /\ \A y \in OtpRow : otps'[y].code # c
                                         /\ \A s \in Request : requests'[s].code # c
                     /\ c \notin servedAgain'
          <5>1. NoCode # c
            BY ConstantsAssumption
          <5>2. CASE c = p.code
            <6>1. \A y \in OtpRow : otps[y].code # c
              BY <1>1, <4>2, <5>2 DEF Inv, Codes
            <6>2. c \notin served /\ c \notin servedAgain /\ \A s \in Request : requests[s].code = c => s = r
              BY <4>2, <5>2 DEF Inv, Codes
            <6> QED
              BY <1>1, <2>4, <2>5, <4>1, <5>1, <5>2, <6>1, <6>2
          <5>3. CASE c # p.code
            BY <1>1, <2>4, <2>5, <4>1, <4>2, <5>1, <5>3 DEF Inv, Codes
          <5> QED
            BY <5>2, <5>3
        <4>3. Codes'
          BY <1>1, <4>1, <4>2 DEF Inv, Codes
        <4> QED
          BY <4>1, <4>3 DEF Inv, TypeOK
      <3>2. CASE p.kind # "reset"
        <4>1. UNCHANGED <<served, servedAgain, exposed>>
          BY <2>1, <3>2 DEF codeHistories
        <4> QED
          BY <1>1, <2>4, <2>5, <4>1, CodesKept DEF Inv, TypeOK
      <3> QED
        BY <3>1, <3>2
    <2>12. PICK v, C, entity, row, next_q :
              v = u /\ C = done /\ entity = p.entity /\ row = new /\ next_q = q
      OBVIOUS
    <2>13. Tell(r, v, C, entity) /\ Becomes(r, next_q)
      BY <2>1, <2>12 DEF Tell, Becomes
    <2>14. ~Taken(new.email, u) => ~Taken(row.email, v)
      BY <2>12 DEF Taken
    <2>15. /\ Exists(users[v]) /\ v \in User /\ C \in SUBSET Setting /\ entity \in UserRow /\ row \in UserRow
           /\ users' = [users EXCEPT ![v] = row] /\ row.row = users[v].row
           /\ \A c \in C : row[c] = entity[c]
           /\ \A c \in Setting \ C : \/ row[c] = users[v][c] \/ row[c] = told[v][c]
                                    \/ <<v, c>> \in overtaken
      BY <1>1, <2>1, <2>2, <2>6, <2>12
    <2>16. /\ row.email = users[v].email \/ (row.email \in Email /\ ~Taken(row.email, v) /\ v \in renamed')
           /\ row.verified => <<v, row.email>> \in proved' \/ v \in renamed'
      BY <2>8, <2>9, <2>12, <2>14
    <2>17. /\ next_q = Idle \/ (next_q.pc = "issue" /\ next_q.user = v /\ next_q.plan = {}
                                 /\ next_q.kind \notin Sending \cup Using /\ next_q.code = NoCode)
           /\ next_q \in RequestState /\ UNCHANGED otps
      BY <1>1, <2>4, <2>12
    <2>18. Changes(r, v, C, entity, row, next_q)
      <3> HIDE DEF u, done, p
      <3> QED
        BY <2>10, <2>11, <2>13, <2>15, <2>16, <2>17 DEF Changes
    <2> QED
      BY <2>11, <2>18, ChangeKeeps
  <1> QED
    BY <1>2, <1>3
------------------------------------------------------------------------------
(* The theorems *)

LEMMA NextKeeps == Inv /\ [Next]_vars => Inv'
  <1> SUFFICES ASSUME Inv, [Next]_vars PROVE Inv'
    OBVIOUS
  <1>1. CASE UNCHANGED vars
    <2>1. /\ UNCHANGED <<users, otps, requests, told, overtaken, proved, renamed>>
          /\ UNCHANGED <<served, servedAgain, exposed>>
      BY <1>1 DEF vars, tables, accountHistories, codeHistories
    <2>2. TypeOK' /\ EmailsUnique' /\ Codes' /\ SettingsStand' /\ VerifiedWasProved'
      BY <2>1 DEF Inv, TypeOK, EmailsUnique, Codes, SettingsStand, VerifiedWasProved
    <2>3. \A r \in Request : Good(requests[r])'
      BY <2>1 DEF Inv, Good, Shape, Remembers, Honest, Sealed
    <2> QED
      BY <2>2, <2>3 DEF Inv
  <1>2. ASSUME NEW o \in OtpRow, Expire(o) PROVE Inv'
    BY <1>2, ExpireKeeps
  <1>3. ASSUME NEW r \in Request, Step(r) PROVE Inv'
    <2>1. ASSUME NEW u \in User,
                 \/ SignIn(r, u) \/ GoogleFinds(r, u) \/ AppleFinds(r, u) \/ Logout(r, u)
                 \/ InsertUser(r, u) \/ VerifyEmail(r, u) \/ Remove(r, u)
          PROVE  Inv'
      BY <2>1, SignInsKeep, InsertUserKeeps, ChangesKeep
    <2>2. ASSUME NEW s \in Session, IssueToken(r, s) PROVE Inv'
      BY <2>2, IssueTokenKeeps
    <2>3. ASSUME NEW e \in Email, GoogleMisses(r, e) \/ AppleMisses(r, e) PROVE Inv'
      BY <2>3, SignUpsKeep, ConstantsAssumption DEF Role
    <2>4. ASSUME NEW e \in Email, NEW p \in Password, NEW role \in Role,
                 Register(r, e, p) \/ AdminCreate(r, e, p, role)
          PROVE  Inv'
      BY <2>4, SignUpsKeep
    <2>5. ASSUME NEW u \in User, NEW p \in Password, ChangeUserPassword(r, u, p) PROVE Inv'
      BY <2>5, ChangesKeep
    <2>6. ASSUME NEW u \in User, NEW new \in [email: Email, password: Password, role: Role, active: BOOLEAN],
                 \/ \E purpose \in SUBSET {"email", "password", "role"} : UpdateUser(r, u, new, purpose)
                 \/ LoadToSave(r, u, new)
          PROVE  Inv'
      BY <2>6, ChangesKeep, LoadToSaveKeeps
    <2>7. CASE SelectUser(r) \/ WriteUser(r) \/ MarkVerified(r) \/ RemoveOtp(r) \/ Abort(r)
      BY <2>7, SelectUserKeeps, WriteUserKeeps, MarkVerifiedKeeps, RemoveOtpKeeps, AbortKeeps
    <2>8. ASSUME NEW e \in Email, NEW c \in Code, IssueCode(r, e, c) PROVE Inv'
      BY <2>8, IssueCodeKeeps
    <2>9. ASSUME NEW o \in OtpRow, InsertOtp(r, o) \/ VerifyCode(r, o) PROVE Inv'
      BY <2>9, StoreCodeKeeps, VerifyCodeKeeps
    <2>10. CASE UpdateOtp(r)
      <3>1. requests[r].otp \in OtpRow
        BY <2>10 DEF UpdateOtp, Inv, Good, Shape
      <3> QED
        BY <2>10, <3>1, StoreCodeKeeps
    <2>11. ASSUME NEW u \in User, NEW o \in OtpRow, NEW p \in Password, ResetPassword(r, u, o, p) PROVE Inv'
      BY <2>11, ResetPasswordKeeps
    <2>12. CASE \E e \in Email, p \in Password : Register(r, e, p)
      BY <2>4, <2>12 DEF Role
    <2> QED
      BY <1>3, <2>1, <2>2, <2>3, <2>4, <2>5, <2>6, <2>7, <2>8, <2>9, <2>10, <2>11, <2>12 DEF Step
  <1> QED
    BY <1>1, <1>2, <1>3 DEF Next

LEMMA InvHolds == Spec => []Inv
  BY InitInv, NextKeeps, PTL DEF Spec

\* Every row and every request keeps to its type.
THEOREM TypeCorrect == Spec => []TypeOK
  <1>1. Inv => TypeOK
    BY DEF Inv
  <1> QED
    BY <1>1, InvHolds, PTL

\* changeUserPassword, resetPassword, updateUser, suspendUser, deleteUser and
\* the verifications, in any overlap with saves of whole users: a setting is
\* lost only to a save that had loaded the user before it was set.
THEOREM SettingsAlwaysStand == Spec => []SettingsStand
  <1>1. Inv => SettingsStand
    BY DEF Inv
  <1> QED
    BY <1>1, InvHolds, PTL

\* otp.verify and resetPassword: a code serves a second time only when two
\* requests had read its row before either removed it, or a request died.
THEOREM CodesAlwaysServeOnce == Spec => []CodesServeOnce
  <1>1. Inv => CodesServeOnce
    BY DEF Inv, TypeOK, Codes, CodesServeOnce
  <1> QED
    BY <1>1, InvHolds, PTL

\* register, googleLogin, verifyEmail, verify and the administrator's createUser
\* mark an address as verified only for somebody who was shown to hold it.
THEOREM VerifiedWasAlwaysProved == Spec => []VerifiedWasProved
  <1>1. Inv => VerifiedWasProved
    BY DEF Inv
  <1> QED
    BY <1>1, InvHolds, PTL

\* The statements that write users.
LEMMA WritesOfUsers ==
  ASSUME NEW r \in Request, Step(r)
  PROVE  \/ UNCHANGED users
         \/ \E s \in Session : IssueToken(r, s)
         \/ \E u \in User : InsertUser(r, u)
         \/ MarkVerified(r) \/ WriteUser(r)
  BY DEF Step, SignIn, GoogleFinds, AppleFinds, Logout, VerifyEmail, Remove, GoogleMisses, AppleMisses,
         Register, AdminCreate, ChangeUserPassword, UpdateUser, LoadToSave, SelectUser, IssueCode,
         InsertOtp, VerifyCode, UpdateOtp, ResetPassword, RemoveOtp, Abort, tables

\* logout, refreshAccessToken and every save of a user: a refresh token starts
\* to be accepted only when a sign-in stores it, or when a save that loaded its
\* user before the deletion undoes the deletion.
THEOREM SessionsOpenBySignIn == Spec => OnlySignInsOpenSessions
  <1> DEFINE Opens(r) == /\ requests'[r] # requests[r]
                         /\ \/ requests[r].pc = "issue"
                            \/ requests[r].pc = "write" /\ "deletedAt" \in requests[r].plan
             A == \A s \in Session : MayRefresh(s) = {} /\ MayRefresh(s)' # {} =>
                     \E r \in Request : Opens(r)
  <1>1. ASSUME Inv, Next PROVE A
    <2> SUFFICES ASSUME NEW s \in Session, NEW u \in User, Visible(users[u])', users'[u].refresh = s,
                        ~(Visible(users[u]) /\ users[u].refresh = s)
                 PROVE  \E r \in Request : Opens(r)
      BY DEF MayRefresh
    <2>1. CASE \E o \in OtpRow : Expire(o)
      BY <2>1 DEF Expire
    <2>2. ASSUME NEW r \in Request, Step(r) PROVE Opens(r)
      <3>1. CASE UNCHANGED users
        BY <3>1
      <3>2. ASSUME NEW t \in Session, IssueToken(r, t) PROVE Opens(r)
        BY <1>1, <3>2, Becoming, Rows DEF IssueToken, Ends, Inv
      <3>3. ASSUME NEW v \in User, InsertUser(r, v) PROVE Opens(r)
        BY <1>1, <3>3 DEF InsertUser, Inv, TypeOK, Good, Sealed
      <3>4. CASE MarkVerified(r)
        BY <1>1, <3>4 DEF MarkVerified, Inv, TypeOK, UserRow, Visible, Exists
      <3>5. CASE WriteUser(r)
        <4> DEFINE p == requests[r]
        <4>1. /\ p \in RequestState /\ p.pc = "write" /\ Good(p)
              /\ p.user \in User /\ users[p.user] \in UserRow /\ p.entity \in UserRow
          BY <1>1, <3>5 DEF WriteUser, Inv, TypeOK, Good, Shape, Saving, RequestState
        <4>2. u = p.user /\ users'[u] = SavedUser(p.plan, p.entity, users[u])
          BY <1>1, <3>5, <4>1 DEF WriteUser, Inv, TypeOK
        <4>3. /\ users'[u].row = users[u].row
              /\ users'[u].refresh = IF "refresh" \in p.plan THEN p.entity.refresh ELSE users[u].refresh
              /\ users'[u].deletedAt = IF "deletedAt" \in p.plan THEN p.entity.deletedAt ELSE users[u].deletedAt
          BY <4>2 DEF SavedUser, Written
        <4>4. "refresh" \notin p.plan
          BY <4>1, <4>3 DEF Good, Sealed, Saving
        <4>5. "deletedAt" \in p.plan
          BY <4>3, <4>4 DEF Visible, Exists
        <4>6. requests'[r] # p
          <5>1. \E q \in {Idle, [Idle EXCEPT !.kind = p.kind, !.pc = "issue", !.user = p.user]} :
                   Becomes(r, q) /\ q.pc # "write"
            BY <3>5 DEF WriteUser, Ends, Idle
          <5> QED
            BY <1>1, <4>1, <5>1, Becoming, Rows DEF Inv
        <4> QED
          BY <4>1, <4>5, <4>6
      <3> QED
        BY <2>2, <3>1, <3>2, <3>3, <3>4, <3>5, WritesOfUsers
    <2> QED
      BY <1>1, <2>1, <2>2 DEF Next
  <1>2. Inv /\ [Next]_vars => [A]_vars
    BY <1>1
  <1>3. OnlySignInsOpenSessions <=> [][A]_vars
    BY DEF OnlySignInsOpenSessions
  <1> QED
    BY <1>2, <1>3, InvHolds, PTL DEF Spec
==============================================================================
