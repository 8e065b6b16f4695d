---------------------------- MODULE ClientSession ----------------------------
(* Who is signed in, as the tabs of one browser see it: authSlice, the two    *)
(* layouts and the pages before them.  The tabs share the cookie and the user *)
(* kept in localStorage; each has a state.auth of its own.  Entering a layout *)
(* sends GET /auth/check-login; leaving it does not cancel what was sent.  A  *)
(* request carries the cookie of the moment it is sent; its answer arrives    *)
(* later, or is given up after ten seconds, and may bring another cookie.     *)
EXTENDS BagsExt, Bags

CONSTANTS Tab, User, Nobody

VARIABLES
    cookie,      \* whose token the browser holds
    stored,      \* localStorage auth_user
    tabs,
    requests,    \* in flight
    moved,       \* history: tabs that may not have learnt whose token it is
    writer       \* history: the tab that last wrote auth_user

vars == <<cookie, stored, tabs, requests, moved, writer>>

Forms == {"login", "signup", "forgot", "reset"}
AuthPages == Forms \cup {"verify"}

\* user is state.auth.user, busy isSubmitting or loggingOut, done what a form
\* or a link leads to, redirect the timer of reset-password; asked: the page
\* has sent a request without a token.
TabState == [page : AuthPages \cup {"home", "user"}, user : User \cup {Nobody},
             checking : BOOLEAN, busy : BOOLEAN, done : BOOLEAN,
             redirect : BOOLEAN, asked : BOOLEAN]

\* "entry" is the check of AuthLayout, "check" that of UserLayout; mounted: the
\* component that waits for the answer is still there.
RequestState == [kind : {"entry", "check", "logout", "verify"} \cup Forms, tab : Tab,
                 cookie : User \cup {Nobody}, user : User \cup {Nobody}, mounted : BOOLEAN]

TypeOK ==
    /\ cookie \in User \cup {Nobody} /\ stored \in User \cup {Nobody}
    /\ tabs \in [Tab -> TabState]
    /\ IsABag(requests) /\ BagToSet(requests) \subseteq RequestState
    /\ moved \subseteq Tab /\ writer \in Tab

Sent == BagToSet(requests)

------------------------------------------------------------------------------
(* What a tab becomes is computed step by step: the tab, the requests in      *)
(* flight, whether a check was sent on the way, and whether one was missed.   *)

Now(t) == [tab |-> tabs[t], reqs |-> requests, checked |-> FALSE, missed |-> FALSE]
Without(q) == [Now(q.tab) EXCEPT !.reqs = BagRemove(@, q)]

Sends(t, s, kind, c, u) ==
    [s EXCEPT !.reqs = BagAdd(@, [kind |-> kind, tab |-> t, cookie |-> c, user |-> u, mounted |-> TRUE]),
              !.checked = @ \/ kind \in {"entry", "check"}]

\* The page changes: what waits for an answer is unmounted, its form is gone.
\* A layout that stays still waits for its check, a request of kind "entry".
Unmounted(q, t, stays) ==
    [q EXCEPT !.mounted = @ /\ (q.tab = t => q.kind \in stays)]

Turns(t, s, page, stays) ==
    [s EXCEPT !.tab.page = page, !.tab.busy = FALSE, !.tab.done = FALSE,
              !.reqs = BagOfAll(LAMBDA q : Unmounted(q, t, stays), @)]

\* UserLayout: the page below it, and its own requests, wait for a user.
EnterUser(t, s, c) ==
    [Sends(t, Turns(t, s, "user", {}), "check", c, Nobody)
        EXCEPT !.tab.checking = FALSE,
               !.tab.asked = @ \/ (s.tab.user # Nobody /\ c = Nobody)]

\* verify-email sends the token of its link when it is mounted.
EnterPage(t, s, page, c, stays) ==
    LET there == Turns(t, s, page, stays)
    IN IF page = "verify" THEN Sends(t, there, "verify", c, Nobody) ELSE there

\* AuthLayout: who is already signed in goes on to the projects.
EnterAuth(t, s, page, c) ==
    LET there == Sends(t, EnterPage(t, s, page, c, {}), "entry", c, Nobody)
    IN IF s.tab.user # Nobody THEN EnterUser(t, there, c)
       ELSE [there EXCEPT !.tab.checking = TRUE]

\* navigate(), from wherever the tab is.
Goes(t, s, page, c) ==
    IF page = "user"
    THEN IF s.tab.page = "user" THEN s ELSE EnterUser(t, s, c)
    ELSE IF s.tab.page \in AuthPages THEN EnterPage(t, s, page, c, {"entry"})
         ELSE EnterAuth(t, s, page, c)

\* A page load: nothing is left of the tab, and the slice starts from localStorage.
Loads(t, page, c, u) ==
    LET fresh == [page |-> "home", user |-> u, checking |-> FALSE, busy |-> FALSE,
                  done |-> FALSE, redirect |-> FALSE, asked |-> FALSE]
        s == [tab |-> fresh, checked |-> FALSE, missed |-> FALSE,
              reqs |-> [q \in {q \in Sent : q.tab # t} |-> requests[q]]]
    IN IF page = "home" THEN s ELSE Goes(t, s, page, c)

\* A tab learns whose token the browser holds by a check it sends, unless one
\* it sent with another token is still in flight.
Becomes(t, s, c, u) ==
    LET crossed == \E q \in BagToSet(s.reqs) : q.tab = t /\ q.kind = "check" /\ q.cookie # c
        others == IF c # cookie THEN Tab \ {t} ELSE {}
    IN /\ tabs' = [tabs EXCEPT ![t] = s.tab] /\ requests' = s.reqs
       /\ cookie' = c /\ stored' = u
       /\ moved' = (moved \cup others \cup (IF crossed \/ s.missed THEN {t} ELSE {}))
                     \ (IF s.checked /\ ~crossed THEN {t} ELSE {})

Init ==
    /\ cookie \in User \cup {Nobody} /\ stored \in User \cup {Nobody}
    /\ tabs = [t \in Tab |-> [page |-> "home", user |-> stored, checking |-> FALSE, busy |-> FALSE,
                              done |-> FALSE, redirect |-> FALSE, asked |-> FALSE]]
    /\ requests = EmptyBag
    /\ moved = Tab /\ writer \in Tab

------------------------------------------------------------------------------
(* The layouts.                                                               *)

\* home.tsx, a second and a half later.
LeaveHome(t) ==
    /\ tabs[t].page = "home"
    /\ Becomes(t, Goes(t, Now(t), "login", cookie), cookie, stored)
    /\ UNCHANGED writer

\* An address is opened, or the page is loaded anew.
Open(t, page) ==
    /\ Becomes(t, Loads(t, page, cookie, stored), cookie, stored)
    /\ UNCHANGED writer

\* AuthLayout: a valid session leads to the projects, wherever the tab is now.
LandEntry(q, ok) ==
    LET s == [Without(q) EXCEPT !.missed = ~ok /\ q.cookie # Nobody]
    IN /\ q.kind = "entry" /\ (ok => q.cookie # Nobody)
       /\ Becomes(q.tab, IF ok THEN Goes(q.tab, s, "user", cookie)
                         ELSE [s EXCEPT !.tab.checking = @ /\ ~q.mounted], cookie, stored)
       /\ UNCHANGED writer

\* setUser and logout: the slice and localStorage change together.
SignedIn(t, s, u, c) ==
    LET in == [s EXCEPT !.tab.user = u]
    IN IF s.tab.page = "user"
       THEN [in EXCEPT !.tab.asked = @ \/ (s.tab.user = Nobody /\ c = Nobody)]
       ELSE Goes(t, in, "user", c)

SignedOut(t, s, c) == Goes(t, [s EXCEPT !.tab.user = Nobody], "login", c)

\* UserLayout: the user of a valid session is kept; without an answer that says
\* so the tab signs out.
LandCheck(q, ok) ==
    LET t == q.tab s == [Without(q) EXCEPT !.missed = ~ok /\ q.cookie # Nobody]
    IN /\ q.kind = "check" /\ (ok => q.cookie # Nobody)
       /\ IF ok THEN Becomes(t, SignedIn(t, s, q.cookie, cookie), cookie, q.cookie)
                ELSE Becomes(t, SignedOut(t, s, cookie), cookie, Nobody)
       /\ writer' = t

\* A page sends requests of its own.  One without a token is answered 401, and
\* handleUnauthorized loads the login page.
Ask(t) ==
    /\ tabs[t].page = "user" /\ tabs[t].user # Nobody /\ cookie = Nobody /\ ~tabs[t].asked
    /\ tabs' = [tabs EXCEPT ![t].asked = TRUE]
    /\ UNCHANGED <<cookie, stored, requests, moved, writer>>

HandleUnauthorized(t) ==
    /\ tabs[t].asked
    /\ Becomes(t, Loads(t, "login", cookie, stored), cookie, stored)
    /\ UNCHANGED writer

\* The token outlives neither its fifteen minutes nor its user.
Expire ==
    /\ cookie # Nobody /\ cookie' = Nobody
    /\ moved' = Tab
    /\ UNCHANGED <<stored, tabs, requests, writer>>

------------------------------------------------------------------------------
(* The forms.                                                                 *)

\* The page below AuthLayout is there.
Shown(t) == tabs[t].page \in AuthPages /\ (tabs[t].checking => tabs[t].user # Nobody)

Links == [login |-> {"signup", "forgot"}, signup |-> {"login"}, forgot |-> {"login"},
          reset |-> {}, verify |-> {"login"}]

LinksOf(t) ==
    Links[tabs[t].page] \cup (IF tabs[t].page = "forgot" /\ tabs[t].done THEN {"reset"} ELSE {})

FollowLink(t, page) ==
    /\ Shown(t) /\ page \in LinksOf(t)
    /\ Becomes(t, Goes(t, Now(t), page, cookie), cookie, stored)
    /\ UNCHANGED writer

\* The form is filled in, and its button is not disabled.
Submittable(t) == Shown(t) /\ tabs[t].page \in Forms /\ ~tabs[t].busy /\ ~tabs[t].done

OnSubmit(t, u) ==
    LET s == [Now(t) EXCEPT !.tab.busy = TRUE]
    IN /\ Submittable(t) /\ (u = Nobody <=> tabs[t].page # "login")
       /\ Becomes(t, Sends(t, s, tabs[t].page, cookie, u), cookie, stored)
       /\ UNCHANGED writer

\* The button of login.tsx leaves the client; Google's answer comes back to it
\* as a page load with a new cookie.
ContinueWithGoogle(t, u) ==
    /\ Shown(t) /\ tabs[t].page = "login"
    /\ Becomes(t, Loads(t, "user", u, stored), u, stored)
    /\ UNCHANGED writer

Ended(q) == [Without(q) EXCEPT !.tab.busy = @ /\ ~q.mounted]

\* loginAction: loginSuccess, then navigate.
LandLogin(q) ==
    /\ q.kind = "login"
    /\ Becomes(q.tab, SignedIn(q.tab, Ended(q), q.user, q.user), q.user, q.user)
    /\ writer' = q.tab

\* A wrong password is answered 401 as well: the page is loaded anew, and the
\* message is gone.
RefuseLogin(q) ==
    /\ q.kind = "login"
    /\ Becomes(q.tab, Loads(q.tab, "login", cookie, stored), cookie, stored)
    /\ UNCHANGED writer

LandRegister(q) ==
    /\ q.kind = "signup"
    /\ Becomes(q.tab, Goes(q.tab, Ended(q), "login", cookie), cookie, stored)
    /\ UNCHANGED writer

LandForgotPassword(q) ==
    /\ q.kind = "forgot"
    /\ Becomes(q.tab, [Ended(q) EXCEPT !.tab.done = @ \/ q.mounted], cookie, stored)
    /\ UNCHANGED writer

\* Nothing clears the timer, the page that set it may be gone.
LandResetPassword(q) ==
    /\ q.kind = "reset"
    /\ Becomes(q.tab, [Ended(q) EXCEPT !.tab.done = @ \/ q.mounted, !.tab.redirect = TRUE],
               cookie, stored)
    /\ UNCHANGED writer

Redirect(t) ==
    /\ tabs[t].redirect
    /\ Becomes(t, Goes(t, [Now(t) EXCEPT !.tab.redirect = FALSE], "login", cookie), cookie, stored)
    /\ UNCHANGED writer

LandVerifyEmail(q) ==
    /\ q.kind = "verify"
    /\ Becomes(q.tab, [Without(q) EXCEPT !.tab.done = @ \/ q.mounted], cookie, stored)
    /\ UNCHANGED writer

\* A form is refused, or no answer comes.
FailForm(q) ==
    /\ q.kind \in Forms \cup {"verify"}
    /\ Becomes(q.tab, Ended(q), cookie, stored)
    /\ UNCHANGED writer

------------------------------------------------------------------------------
(* profile.tsx: signing out, whether the backend answers or not.              *)

HandleLogout(t) ==
    LET s == [Now(t) EXCEPT !.tab.busy = TRUE]
    IN /\ tabs[t].page = "user" /\ tabs[t].user # Nobody /\ ~tabs[t].busy
       /\ Becomes(t, Sends(t, s, "logout", cookie, Nobody), cookie, stored)
       /\ UNCHANGED writer

\* A plausible error in the operator that follows, which no definition uses.
LandLogout_kept(q) ==
    /\ q.kind = "logout" /\ q.cookie # Nobody
    /\ Becomes(q.tab, SignedOut(q.tab, Ended(q), Nobody), Nobody, stored)
    /\ writer' = q.tab

LandLogout(q) ==
    /\ q.kind = "logout" /\ q.cookie # Nobody
    /\ Becomes(q.tab, SignedOut(q.tab, Ended(q), Nobody), Nobody, Nobody)
    /\ writer' = q.tab

\* Without a token the answer is 401, which also loads the login page.
RefuseLogout(q) ==
    /\ q.kind = "logout" /\ q.cookie = Nobody
    /\ Becomes(q.tab, Loads(q.tab, "login", cookie, Nobody), cookie, Nobody)
    /\ writer' = q.tab

\* Without an answer the browser keeps its token.
FailLogout(q) ==
    /\ q.kind = "logout"
    /\ Becomes(q.tab, SignedOut(q.tab, Ended(q), cookie), cookie, Nobody)
    /\ writer' = q.tab

------------------------------------------------------------------------------

Next ==
    \/ Expire
    \/ \E t \in Tab :
        \/ LeaveHome(t) \/ Ask(t) \/ HandleUnauthorized(t) \/ Redirect(t) \/ HandleLogout(t)
        \/ \E page \in {"home", "user"} \cup AuthPages : Open(t, page) \/ FollowLink(t, page)
        \/ \E u \in User \cup {Nobody} : OnSubmit(t, u)
        \/ \E u \in User : ContinueWithGoogle(t, u)
    \/ \E q \in Sent :
        \/ \E ok \in BOOLEAN : LandEntry(q, ok) \/ LandCheck(q, ok)
        \/ LandLogin(q) \/ RefuseLogin(q) \/ LandRegister(q) \/ LandForgotPassword(q)
        \/ LandResetPassword(q) \/ LandVerifyEmail(q) \/ FailForm(q)
        \/ LandLogout(q) \/ RefuseLogout(q) \/ FailLogout(q)

Spec == Init /\ [][Next]_vars

------------------------------------------------------------------------------

AtRest(t) ==
    /\ tabs[t].page # "home" /\ ~tabs[t].redirect /\ ~tabs[t].asked
    /\ \A q \in Sent : q.tab # t

\* UserLayout, AuthLayout: a tab at rest shows the pages of a user when the
\* slice has one, and the login pages, usable, when it has none.
PagesMatch ==
    \A t \in Tab : AtRest(t) =>
        /\ tabs[t].page = "user" <=> tabs[t].user # Nobody
        /\ ~tabs[t].checking /\ ~tabs[t].busy

\* authSlice: the user a tab at rest shows is the one its requests are sent for,
\* unless the token changed in another tab or expired since it last checked, or
\* a check went unanswered or crossed a change.
ShowsWhoseToken ==
    \A t \in Tab : AtRest(t) /\ t \notin moved => tabs[t].user = cookie

\* setUser, loginSuccess, logout: localStorage holds the user of the tab that
\* last wrote it, at every moment, so that a page load changes nothing there.
StoredIsShown == stored = tabs[writer].user

SessionSettles == PagesMatch /\ ShowsWhoseToken /\ StoredIsShown
=============================================================================
