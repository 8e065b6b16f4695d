------------------------------ MODULE Accounts ------------------------------
(***************************************************************************)
(* Accounts, sign-in and one-time codes: auth.service.ts, otp.service.ts,   *)
(* user.service.ts and the users of admin.service.ts.                       *)
(*                                                                          *)
(* A handler is one or two lookups, and then statements on one row of       *)
(* users and one of otp.  An UPDATE of named columns and the statement of   *)
(* save(entity) are both "write plan from entity": the plan of an UPDATE is *)
(* fixed by the code, that of save by a SELECT.  What is refused before it  *)
(* changed anything is left out: wrong passwords and codes, unknown users,  *)
(* and the operations that always fail (changePassword and the social       *)
(* sign-up of auth.service.ts, createUser of user.service.ts; README 2.2).  *)
(* Names, photos and preferences are not told apart.                        *)
(*                                                                          *)
(* A code is named by its issue, a refresh token by its text.               *)
(*                                                                          *)
(* A definition named X_fault, before X, is a plausible error in the code X *)
(* models; no definition uses it.                                           *)
(***************************************************************************)
EXTENDS TypeOrm

CONSTANTS
    User, OtpRow,    \* ids: rows of users and of otp
    Email, Password,
    Lower(_),        \* toLowerCase().trim() of an address
    Code, Session,
    Request,         \* slots for requests in flight
    Admin, AdminEmail, AdminPassword,   \* the account the seeder makes
    CanAbort,        \* may a request die between two statements
    NoUser, NoOtp, NoEmail, NoPassword, NoCode, NoSession,
    HashedSession    \* what appleLogin stores: no token ever equals it

ASSUME ConstantsAssumption ==
    /\ \A e \in Email : Lower(e) \in Email
    /\ CanAbort \in BOOLEAN
    /\ Admin \in User /\ AdminEmail \in Email /\ AdminPassword \in Password
    /\ NoUser \notin User /\ NoOtp \notin OtpRow /\ NoEmail \notin Email
    /\ NoPassword \notin Password /\ NoCode \notin Code
    /\ NoSession \notin Session /\ HashedSession \notin Session \cup {NoSession}

VARIABLES
    users,      \* the table users
    otps,       \* the table otp
    requests,   \* what each request in flight is about to do and has read
    \* histories, which no action reads
    told,       \* the account as its last deliberate changes made it
    overtaken,  \* <<u, c>>: such a change met a save that had loaded an older value
    proved,     \* <<u, e>>: u was shown to hold address e
    renamed,    \* users whose address was changed
    served, servedAgain,   \* codes that have verified or reset once, and again
    exposed     \* codes two requests held at once, or one that died

tables == <<users, otps>>
codeHistories == <<served, servedAgain, exposed>>
accountHistories == <<told, overtaken, proved, renamed>>
vars == <<tables, requests, accountHistories, codeHistories>>

------------------------------------------------------------------------------
(* Rows and requests in flight *)

Role == {"member", "admin"}

UserRow == [row: {"none", "there"}, email: Email \cup {NoEmail},
            password: Password \cup {NoPassword}, role: Role, active: BOOLEAN,
            verified: BOOLEAN, link: BOOLEAN, google: BOOLEAN,
            deletedAt: {"null", "recent"}, refresh: Session \cup {NoSession, HashedSession}]

NoUserRow == [row |-> "none", email |-> NoEmail, password |-> NoPassword, role |-> "member",
              active |-> TRUE, verified |-> FALSE, link |-> FALSE, google |-> FALSE,
              deletedAt |-> "null", refresh |-> NoSession]

Column == DOMAIN NoUserRow

\* Columns a user or an administrator sets on purpose.
Setting == {"email", "password", "role", "active", "verified", "deletedAt"}

\* refresh_token has select: false, so that no entity holds it.
Hidden_none == {}
Hidden == {"refresh"}

OtpState == [row: RowState, email: Email \cup {NoEmail}, code: Code \cup {NoCode}, expired: BOOLEAN]
NoOtpRow == [row |-> "none", email |-> NoEmail, code |-> NoCode, expired |-> FALSE]

Kind == {"login", "adminLogin", "social", "google", "apple", "logout",
         "register", "adminCreate", "verifyEmail", "changePassword", "update", "remove",
         "profile", "suspend", "adminUpdate", "send", "forgot", "verify", "reset"}

PC == {"idle", "insert", "issue", "select", "write", "otpInsert", "otpUpdate", "otpRemove", "mark"}

RequestState ==
    [kind: Kind \cup {"none"}, pc: PC, user: User \cup {NoUser}, entity: UserRow,
     plan: SUBSET Column, purpose: SUBSET Setting, otp: OtpRow \cup {NoOtp},
     email: Email \cup {NoEmail}, code: Code \cup {NoCode}]

Idle == [kind |-> "none", pc |-> "idle", user |-> NoUser, entity |-> NoUserRow,
         plan |-> {}, purpose |-> {}, otp |-> NoOtp, email |-> NoEmail, code |-> NoCode]

TypeOK ==
    /\ users \in [User -> UserRow]
    /\ otps \in [OtpRow -> OtpState]
    /\ requests \in [Request -> RequestState]
    /\ told \in [User -> UserRow]
    /\ overtaken \subseteq User \X Setting
    /\ proved \subseteq User \X Email
    /\ renamed \subseteq User
    /\ served \subseteq Code /\ servedAgain \subseteq Code /\ exposed \subseteq Code

\* A row as register, createUser of the administrator and googleLogin make it.
NewUser(e, p, role, verified, link, google) ==
    [NoUserRow EXCEPT !.row = "there", !.email = e, !.password = p, !.role = role,
                      !.verified = verified, !.link = link, !.google = google]

Seeded == NewUser(AdminEmail, AdminPassword, "admin", TRUE, FALSE, FALSE)

Init ==
    /\ users = [u \in User |-> IF u = Admin THEN Seeded ELSE NoUserRow]
    /\ otps = [o \in OtpRow |-> NoOtpRow]
    /\ requests = [r \in Request |-> Idle]
    /\ told = users
    /\ proved = {<<Admin, AdminEmail>>}
    /\ overtaken = {} /\ renamed = {}
    /\ served = {} /\ servedAgain = {} /\ exposed = {}

Becomes(r, q) == requests' = [requests EXCEPT ![r] = q]
Ends(r) == Becomes(r, Idle)

IsIdle(r) == requests[r].pc = "idle"

\* The unique index on email does not look at deleted_at.
Taken(e, u) == \E v \in User \ {u} : Exists(users[v]) /\ users[v].email = e

\* What findOne({ email }) returns.
Found(e) == {u \in User : Visible(users[u]) /\ users[u].email = e}

\* UPDATE of the columns of purpose.
Updates(r, kind, u, entity, purpose) ==
    Becomes(r, [Idle EXCEPT !.kind = kind, !.pc = "write", !.user = u, !.entity = entity,
                            !.plan = purpose, !.purpose = purpose])

Inserts(r, kind, entity) ==
    Becomes(r, [Idle EXCEPT !.kind = kind, !.pc = "insert", !.entity = entity])

------------------------------------------------------------------------------
(* Sign-in *)

\* What a provider says of a token.  Only Google's answer carries a mark of
\* its own that the address is verified.
Identity == [provider: {"google", "kakao", "naver"}, email: Email, verified: BOOLEAN]

Confirms(id, e) == id.email = e /\ (id.provider = "google" => id.verified)

MayLogin(row) == row.password # NoPassword /\ row.active
MayAdminLogin(row) == row.password # NoPassword /\ row.role = "admin" /\ row.active
MaySocialLogin(row) == row.active /\ \E id \in Identity : Confirms(id, row.email)

SignIn(r, u) ==
    /\ IsIdle(r) /\ Visible(users[u])
    /\ \E kind \in {"login", "adminLogin", "social"} :
          /\ CASE kind = "login" -> MayLogin(users[u])
               [] kind = "adminLogin" -> MayAdminLogin(users[u])
               [] OTHER -> MaySocialLogin(users[u])
          /\ Becomes(r, [Idle EXCEPT !.kind = kind, !.pc = "issue", !.user = u])
    /\ UNCHANGED <<tables, accountHistories, codeHistories>>

\* googleLogin of a known address, which it links first ...
GoogleFinds(r, u) ==
    /\ IsIdle(r) /\ Visible(users[u])
    /\ IF users[u].google
       THEN Becomes(r, [Idle EXCEPT !.kind = "google", !.pc = "issue", !.user = u])
       ELSE Becomes(r, [Idle EXCEPT !.kind = "google", !.pc = "write", !.user = u, !.plan = {"google"},
                                    !.entity = [users[u] EXCEPT !.google = TRUE]])
    /\ UNCHANGED <<tables, accountHistories, codeHistories>>

\* ... and of a new one.
GoogleMisses(r, e) ==
    /\ IsIdle(r) /\ Found(e) = {}
    /\ Inserts(r, "google", NewUser(e, NoPassword, "member", TRUE, FALSE, TRUE))
    /\ UNCHANGED <<tables, accountHistories, codeHistories>>

\* appleLogin stores a hash of the token where refreshAccessToken compares
\* with the token.  Its sign-up is one transaction; the password is a hash of
\* the empty string, which no sign-in may send.
AppleFinds(r, u) ==
    /\ IsIdle(r) /\ Visible(users[u])
    /\ Becomes(r, [Idle EXCEPT !.kind = "apple", !.pc = "write", !.user = u, !.plan = {"refresh"},
                               !.entity = [users[u] EXCEPT !.refresh = HashedSession]])
    /\ UNCHANGED <<tables, accountHistories, codeHistories>>

AppleMisses(r, e) ==
    /\ IsIdle(r) /\ Found(e) = {}
    /\ Inserts(r, "apple", [NewUser(Lower(e), NoPassword, "member", FALSE, FALSE, FALSE)
                               EXCEPT !.refresh = HashedSession])
    /\ UNCHANGED <<tables, accountHistories, codeHistories>>

\* The one refresh token of the user becomes s.  Tokens carry the user's id
\* and the second of their making: two sign-ins of a user may get the same.
IssueToken(r, s) ==
    LET q == requests[r]
    IN /\ q.pc = "issue" /\ \A v \in User \ {q.user} : users[v].refresh # s
       /\ users' = [users EXCEPT ![q.user].refresh = s]
       /\ Ends(r)
       /\ UNCHANGED <<otps, accountHistories, codeHistories>>

Logout(r, u) ==
    /\ IsIdle(r) /\ Exists(users[u])
    /\ Becomes(r, [Idle EXCEPT !.kind = "logout", !.pc = "write", !.user = u, !.plan = {"refresh"},
                               !.entity = [users[u] EXCEPT !.refresh = NoSession]])
    /\ UNCHANGED <<tables, accountHistories, codeHistories>>

\* Whom refreshAccessToken gives a new access token for s.
MayRefresh(s) == {u \in User : Visible(users[u]) /\ users[u].refresh = s}

------------------------------------------------------------------------------
(* Accounts are made and changed *)

Register_verified(r, e, p) ==
    /\ IsIdle(r) /\ Found(e) = {}
    /\ Inserts(r, "register", NewUser(Lower(e), p, "member", TRUE, TRUE, FALSE))
    /\ UNCHANGED <<tables, accountHistories, codeHistories>>
Register(r, e, p) ==
    /\ IsIdle(r) /\ Found(e) = {}
    /\ Inserts(r, "register", NewUser(Lower(e), p, "member", FALSE, TRUE, FALSE))
    /\ UNCHANGED <<tables, accountHistories, codeHistories>>

AdminCreate(r, e, p, role) ==
    /\ IsIdle(r) /\ Found(e) = {}
    /\ Inserts(r, "adminCreate", NewUser(e, p, role, TRUE, FALSE, FALSE))
    /\ UNCHANGED <<tables, accountHistories, codeHistories>>

\* Google and an administrator vouch for the address; registering does not.
Vouched(kind) == kind \in {"google", "adminCreate"}

\* A second row with the address fails, also when the first is in the trash.
InsertUser(r, u) ==
    LET q == requests[r]
    IN /\ q.pc = "insert" /\ ~Exists(users[u])
       /\ IF Taken(q.entity.email, u)
          THEN Ends(r) /\ UNCHANGED <<users, told, proved>>
          ELSE /\ users' = [users EXCEPT ![u] = q.entity]
               /\ told' = [told EXCEPT ![u] = q.entity]
               /\ proved' = IF Vouched(q.kind) THEN proved \cup {<<u, q.entity.email>>} ELSE proved
               /\ IF q.kind = "google"
                  THEN Becomes(r, [Idle EXCEPT !.kind = q.kind, !.pc = "issue", !.user = u])
                  ELSE Ends(r)
       /\ UNCHANGED <<otps, overtaken, renamed, codeHistories>>

\* The link that register mailed.
VerifyEmail(r, u) ==
    /\ IsIdle(r) /\ Visible(users[u]) /\ users[u].link
    /\ Becomes(r, [Idle EXCEPT !.kind = "verifyEmail", !.pc = "write", !.user = u,
                               !.entity = [users[u] EXCEPT !.verified = TRUE, !.link = FALSE],
                               !.plan = {"verified", "link"}, !.purpose = {"verified"}])
    /\ UNCHANGED <<tables, accountHistories, codeHistories>>

ChangeUserPassword(r, u, p) ==
    /\ IsIdle(r) /\ Visible(users[u])
    /\ users[u].password \notin {NoPassword, p}
    /\ Updates(r, "changePassword", u, [users[u] EXCEPT !.password = p], {"password"})
    /\ UNCHANGED <<tables, accountHistories, codeHistories>>

\* PATCH /users/:id takes any of three columns.
Named(new, row, purpose) ==
    [row EXCEPT !.email = IF "email" \in purpose THEN new.email ELSE @,
                !.password = IF "password" \in purpose THEN new.password ELSE @,
                !.role = IF "role" \in purpose THEN new.role ELSE @,
                !.active = IF "active" \in purpose THEN new.active ELSE @]

UpdateUser_allThree(r, u, new, purpose) ==
    /\ IsIdle(r) /\ Visible(users[u]) /\ purpose # {}
    /\ Becomes(r, [Idle EXCEPT !.kind = "update", !.pc = "write", !.user = u, !.purpose = purpose,
                               !.entity = Named(new, users[u], {"email", "password", "role"}),
                               !.plan = {"email", "password", "role"}])
    /\ UNCHANGED <<tables, accountHistories, codeHistories>>
UpdateUser(r, u, new, purpose) ==
    /\ IsIdle(r) /\ Visible(users[u]) /\ purpose # {}
    /\ Updates(r, "update", u, Named(new, users[u], purpose), purpose)
    /\ UNCHANGED <<tables, accountHistories, codeHistories>>

\* BaseService.remove, and the administrator's deleteUser, which spares
\* administrators: both only set deleted_at.
Remove(r, u) ==
    /\ IsIdle(r) /\ Visible(users[u])
    /\ Updates(r, "remove", u, [users[u] EXCEPT !.deletedAt = "recent"], {"deletedAt"})
    /\ UNCHANGED <<tables, accountHistories, codeHistories>>

\* What the saves of a loaded row change on purpose: updateProfile and
\* updatePreferences no setting, suspendUser and activateUser is_active, the
\* administrator's updateUser any of two.
Purposes == [profile |-> {{}}, suspend |-> {{"active"}}, adminUpdate |-> SUBSET {"role", "active"}]

LoadToSave(r, u, new) ==
    /\ IsIdle(r) /\ Visible(users[u])
    /\ \E kind \in DOMAIN Purposes : \E purpose \in Purposes[kind] :
          Becomes(r, [Idle EXCEPT !.kind = kind, !.pc = "select", !.user = u, !.purpose = purpose,
                                  !.entity = Named(new, users[u], purpose)])
    /\ UNCHANGED <<tables, accountHistories, codeHistories>>

SelectUser(r) ==
    LET q == requests[r]
    IN /\ q.pc = "select"
       /\ Becomes(r, [q EXCEPT !.pc = "write",
                               !.plan = SavePlan(q.entity, users[q.user]) \ Hidden])
       /\ UNCHANGED <<tables, accountHistories, codeHistories>>

SavedUser(plan, entity, row) ==
    LET saved(c) == Written(c, plan, entity, row)
    IN [row |-> row.row, email |-> saved("email"), password |-> saved("password"),
        role |-> saved("role"), active |-> saved("active"), verified |-> saved("verified"),
        link |-> saved("link"), google |-> saved("google"), deletedAt |-> saved("deletedAt"),
        refresh |-> saved("refresh")]

\* Does q hold a value of c for u, other than v, that it may still write
\* although c is none of its business?
Stale(q, u, c, v) ==
    /\ q.user = u /\ c \notin q.purpose /\ q.entity[c] # v
    /\ q.pc = "select" \/ (q.pc = "write" /\ c \in q.plan)

\* The settings C of u change on purpose, to those of entity.
Tell(r, u, C, entity) ==
    /\ told' = [told EXCEPT ![u] = SavedUser(C, entity, @)]
    /\ overtaken' = {x \in overtaken : x[1] # u \/ x[2] \notin C} \cup
           {<<u, c>> : c \in {d \in C : \E q \in Request \ {r} : Stale(requests[q], u, d, entity[d])}}
    /\ renamed' = IF "email" \in C THEN renamed \cup {u} ELSE renamed

------------------------------------------------------------------------------
(* One-time codes: one row per address, shared by both flows *)

CodesOf(e) == {o \in OtpRow : Exists(otps[o]) /\ otps[o].email = e}

\* Another draw of generateUniqueOTP.
Fresh(c) == /\ \A o \in OtpRow : otps[o].code # c
            /\ \A q \in Request : requests[q].code # c
            /\ c \notin served \cup exposed

\* otp.send, for whoever asks, and forgotPassword, for a known address.
IssueCode(r, e, c) ==
    /\ IsIdle(r) /\ Fresh(c)
    /\ \E kind \in {"send", "forgot"} :
          /\ kind = "forgot" => Found(e) # {}
          /\ IF CodesOf(e) = {}
             THEN Becomes(r, [Idle EXCEPT !.kind = kind, !.pc = "otpInsert", !.email = e, !.code = c])
             ELSE \E o \in CodesOf(e) :
                     Becomes(r, [Idle EXCEPT !.kind = kind, !.pc = "otpUpdate", !.otp = o, !.code = c])
    /\ UNCHANGED <<tables, accountHistories, codeHistories>>

\* The unique index on email refuses a second row.
InsertOtp(r, o) ==
    LET q == requests[r]
    IN /\ q.pc = "otpInsert" /\ ~Exists(otps[o]) /\ \A x \in Request : requests[x].otp # o
       /\ otps' = IF CodesOf(q.email) # {} THEN otps
                  ELSE [otps EXCEPT ![o] = [row |-> "there", email |-> q.email, code |-> q.code,
                                            expired |-> FALSE]]
       /\ Ends(r)
       /\ UNCHANGED <<users, accountHistories, codeHistories>>

\* An UPDATE by id: a row that a reset removed meanwhile is not made again.
UpdateOtp(r) ==
    LET q == requests[r]
    IN /\ q.pc = "otpUpdate"
       /\ otps' = IF Exists(otps[q.otp])
                  THEN [otps EXCEPT ![q.otp].code = q.code, ![q.otp].expired = FALSE] ELSE otps
       /\ Ends(r)
       /\ UNCHANGED <<users, accountHistories, codeHistories>>

\* Two minutes pass.
Expire(o) ==
    /\ Exists(otps[o]) /\ ~otps[o].expired
    /\ otps' = [otps EXCEPT ![o].expired = TRUE]
    /\ UNCHANGED <<users, requests, accountHistories, codeHistories>>

\* r has found the code c.
Holds(r, c) ==
    /\ exposed' = IF \E q \in Request \ {r} : requests[q].code = c THEN exposed \cup {c} ELSE exposed
    /\ UNCHANGED <<served, servedAgain>>

Serves(c) ==
    /\ served' = served \cup {c}
    /\ servedAgain' = IF c \in served THEN servedAgain \cup {c} ELSE servedAgain
    /\ UNCHANGED exposed

\* otp.verify, with the code that is stored.
VerifyCode(r, o) ==
    /\ IsIdle(r) /\ Exists(otps[o]) /\ ~otps[o].expired
    /\ LET unverified == \E u \in Found(otps[o].email) : ~users[u].verified
       IN Becomes(r, [Idle EXCEPT !.kind = "verify", !.pc = IF unverified THEN "mark" ELSE "otpRemove",
                                  !.otp = o, !.email = otps[o].email, !.code = otps[o].code])
    /\ Holds(r, otps[o].code)
    /\ UNCHANGED <<tables, accountHistories>>

\* resetPassword, likewise; an expired code is only removed.
ResetPassword(r, u, o, p) ==
    LET request == [Idle EXCEPT !.kind = "reset", !.pc = "otpRemove", !.user = u,
                                !.otp = o, !.code = otps[o].code]
    IN /\ IsIdle(r) /\ Visible(users[u])
       /\ Exists(otps[o]) /\ otps[o].email = users[u].email
       /\ IF otps[o].expired THEN Becomes(r, request)
          ELSE Becomes(r, [request EXCEPT !.entity = [users[u] EXCEPT !.password = p],
                                          !.plan = {"password"}, !.purpose = {"password"}])
       /\ Holds(r, otps[o].code)
       /\ UNCHANGED <<tables, accountHistories>>

\* An UPDATE where the address is the one of the code.
MarkVerified(r) ==
    LET q == requests[r]
        holders == {u \in User : Exists(users[u]) /\ users[u].email = q.email}
        verified(row) == [row EXCEPT !.verified = TRUE]
    IN /\ q.pc = "mark"
       /\ users' = [u \in User |-> IF u \in holders THEN verified(users[u]) ELSE users[u]]
       /\ IF holders = {} THEN UNCHANGED <<told, overtaken, renamed>>
          ELSE \E u \in holders : Tell(r, u, {"verified"}, verified(users[u]))
       /\ proved' = proved \cup (holders \X {q.email})
       /\ Becomes(r, [q EXCEPT !.pc = "otpRemove"])
       /\ UNCHANGED <<otps, codeHistories>>

\* The code is used up, and a reset goes on to store the password.
RemoveOtp_verifyOnly(r) ==
    LET q == requests[r]
    IN /\ q.pc = "otpRemove"
       /\ otps' = IF q.kind = "verify"
                  THEN [otps EXCEPT ![q.otp] = [NoOtpRow EXCEPT !.row = "removed"]] ELSE otps
       /\ IF q.purpose # {} THEN Becomes(r, [q EXCEPT !.pc = "write"]) ELSE Ends(r)
       /\ IF q.kind = "verify" THEN Serves(q.code) ELSE UNCHANGED codeHistories
       /\ UNCHANGED <<users, accountHistories>>
RemoveOtp(r) ==
    LET q == requests[r]
    IN /\ q.pc = "otpRemove"
       /\ otps' = IF Exists(otps[q.otp])
                  THEN [otps EXCEPT ![q.otp] = [NoOtpRow EXCEPT !.row = "removed"]] ELSE otps
       /\ IF q.purpose # {} THEN Becomes(r, [q EXCEPT !.pc = "write"]) ELSE Ends(r)
       /\ IF q.kind = "verify" THEN Serves(q.code) ELSE UNCHANGED codeHistories
       /\ UNCHANGED <<users, accountHistories>>

------------------------------------------------------------------------------
(* The statement of a save or an UPDATE *)

WriteUser(r) ==
    LET q == requests[r]
        u == q.user
        done == q.plan \cap q.purpose
    IN /\ q.pc = "write"
       /\ IF "email" \in q.plan /\ Taken(q.entity.email, u)
          THEN Ends(r) /\ UNCHANGED <<users, accountHistories, codeHistories>>
          ELSE /\ users' = [users EXCEPT ![u] = SavedUser(q.plan, q.entity, @)]
               /\ Tell(r, u, done, q.entity)
               /\ proved' = IF q.kind = "verifyEmail" THEN proved \cup {<<u, q.entity.email>>} ELSE proved
               /\ IF q.kind = "google"
                  THEN Becomes(r, [Idle EXCEPT !.kind = q.kind, !.pc = "issue", !.user = u])
                  ELSE Ends(r)
               /\ IF q.kind = "reset" THEN Serves(q.code) ELSE UNCHANGED codeHistories
       /\ UNCHANGED otps

------------------------------------------------------------------------------

\* The process dies, or a statement fails, and the rest of the request with it.
Abort(r) ==
    LET q == requests[r]
    IN /\ CanAbort /\ q.pc # "idle"
       /\ Ends(r)
       /\ exposed' = IF q.kind \in {"verify", "reset"} THEN exposed \cup {q.code} ELSE exposed
       /\ UNCHANGED <<tables, accountHistories, served, servedAgain>>

Step(r) ==
    \/ \E u \in User :
          \/ SignIn(r, u) \/ GoogleFinds(r, u) \/ AppleFinds(r, u) \/ Logout(r, u)
          \/ InsertUser(r, u) \/ VerifyEmail(r, u) \/ Remove(r, u)
    \/ \E s \in Session : IssueToken(r, s)
    \/ \E e \in Email : GoogleMisses(r, e) \/ AppleMisses(r, e)
    \/ \E e \in Email, p \in Password : Register(r, e, p)
    \/ \E e \in Email, p \in Password, role \in Role : AdminCreate(r, e, p, role)
    \/ \E u \in User, p \in Password : ChangeUserPassword(r, u, p)
    \/ \E u \in User, new \in [email: Email, password: Password, role: Role, active: BOOLEAN] :
          \/ \E purpose \in SUBSET {"email", "password", "role"} : UpdateUser(r, u, new, purpose)
          \/ LoadToSave(r, u, new)
    \/ SelectUser(r)
    \/ WriteUser(r)
    \/ \E e \in Email, c \in Code : IssueCode(r, e, c)
    \/ \E o \in OtpRow : InsertOtp(r, o) \/ VerifyCode(r, o)
    \/ UpdateOtp(r)
    \/ \E u \in User, o \in OtpRow, p \in Password : ResetPassword(r, u, o, p)
    \/ MarkVerified(r)
    \/ RemoveOtp(r)
    \/ Abort(r)

Next == (\E r \in Request : Step(r)) \/ (\E o \in OtpRow : Expire(o))

Spec == Init /\ [][Next]_vars

------------------------------------------------------------------------------
(* Properties *)

\* changeUserPassword, resetPassword, updateUser, suspendUser, deleteUser and
\* the verifications against the whole-row saves of the profile: what was set
\* on purpose stands, unless the save of an older row overtook it.
SettingsStand ==
    \A u \in User, c \in Setting : users[u][c] = told[u][c] \/ <<u, c>> \in overtaken

\* otp.verify and resetPassword share one row per address: a code serves once,
\* unless two requests had read it before either removed it, or one died
\* between its two statements.
CodesServeOnce == servedAgain \subseteq exposed

\* An account that counts as verified has an address somebody proved to hold,
\* whatever saves and verifications overlap, unless its address was changed.
VerifiedWasProved ==
    \A u \in User : users[u].verified => <<u, users[u].email>> \in proved \/ u \in renamed

\* Only a sign-in makes a refresh token valid: no save that loaded the user
\* before a logout or another sign-in brings an older token back.  The one
\* exception is a save that undoes the deletion of its user.
OnlySignInsOpenSessions ==
    [][\A s \in Session : MayRefresh(s) = {} /\ MayRefresh(s)' # {} =>
          \E r \in Request : /\ requests'[r] # requests[r]
                             /\ \/ requests[r].pc = "issue"
                                \/ requests[r].pc = "write" /\ "deletedAt" \in requests[r].plan]_vars
=============================================================================
