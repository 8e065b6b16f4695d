CONSTANTS
    ann = ann
    eb = eb
    EB = EB
    User = {ann, u2}
    OtpRow = {o1}
    Email = {ea, eb, EB}
    Password = {p1, p2}
    Lower <- MCLower
    Code = {c1, c2}
    Session = {s1, s2}
    Request = {r1, r2}
    Admin = ann
    AdminEmail = ea
    AdminPassword = p1
    CanAbort = TRUE
    NoUser = NoUser
    NoOtp = NoOtp
    NoEmail = NoEmail
    NoPassword = NoPassword
    NoCode = NoCode
    NoSession = NoSession
    HashedSession = HashedSession
    Mixes <- AllMixes
SPECIFICATION MCSpec
INVARIANTS SettingsStand CodesServeOnce VerifiedWasProved
PROPERTIES OnlySignInsOpenSessions
SYMMETRY Symmetry
CHECK_DEADLOCK FALSE
