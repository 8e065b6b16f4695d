----------------------------- MODULE ProfilePages -----------------------------
(* The profile page, which saves the notification preferences by itself a     *)
(* second after one of them changes, and the page that edits the profile: one *)
(* user in one tab.  A request is served by the backend at one moment and its *)
(* answer arrives at another or never; a page that is left does not cancel    *)
(* what it has sent.                                                          *)
EXTENDS FiniteSets

CONSTANTS
    Request,     \* slots for requests in flight
    Name,        \* what the profile holds, photo and job title included
    NoProfile    \* no profile in the store

VARIABLES
    stored,      \* the preferences of the user, in the database
    name,        \* the profile of the user, in the database
    page,        \* the page of the tab
    shown,       \* profile page: its toggles
    profile,     \* both pages: the profile loaded since the page was opened
    loading,
    saving,      \* savingPreferences, or saving on the page that edits
    timer,       \* the auto-save that waits: what it saw when it was armed
    current,     \* userSlice.currentProfile
    form,        \* edit page: the text in the form
    requests,
    lost,        \* history: toggles of this page that were dropped, failed or overwritten
    sentSince,   \* history: this profile page has sent a save
    overtaken    \* history: the store may hold an older profile than the database

server == <<stored, name>>
view == <<page, shown, profile, loading, saving, timer, current, form>>
history == <<lost, sentSince, overtaken>>
vars == <<server, view, requests, history>>

Preferences == [push : BOOLEAN, email : BOOLEAN, daily : BOOLEAN]

\* "mails" is on when one of the four e-mail toggles is.
Toggles == [push : BOOLEAN, digest : {"Off", "Daily", "Weekly"}, mails : BOOLEAN]
Defaults == [push |-> TRUE, digest |-> "Daily", mails |-> TRUE]

Off == [armed |-> FALSE, toggles |-> Defaults, saving |-> FALSE]
Armed(toggles) == [armed |-> TRUE, toggles |-> toggles, saving |-> saving]

Idle == [kind |-> "none", pc |-> "idle", mine |-> FALSE, name |-> NoProfile,
         prefs |-> [push |-> TRUE, email |-> TRUE, daily |-> TRUE]]

TypeOK ==
    /\ stored \in Preferences /\ name \in Name
    /\ page \in {"away", "profile", "edit"}
    /\ shown \in Toggles
    /\ profile \in Name \cup {NoProfile} /\ current \in Name \cup {NoProfile}
    /\ form \in Name \cup {NoProfile}
    /\ loading \in BOOLEAN /\ saving \in BOOLEAN
    /\ timer \in [armed : BOOLEAN, toggles : Toggles, saving : BOOLEAN]
    /\ requests \in [Request -> [kind : {"none", "load", "getMe", "save", "edit"},
                                 pc : {"idle", "sent", "served"}, mine : BOOLEAN,
                                 name : Name \cup {NoProfile}, prefs : Preferences]]
    /\ lost \in BOOLEAN /\ sentSince \in BOOLEAN /\ overtaken \in BOOLEAN

Init ==
    /\ stored \in Preferences /\ name \in Name
    /\ page = "away" /\ shown = Defaults /\ profile = NoProfile
    /\ loading = FALSE /\ saving = FALSE /\ timer = Off
    /\ current = NoProfile /\ form = NoProfile
    /\ requests = [r \in Request |-> Idle]
    /\ lost = FALSE /\ sentSince = FALSE /\ overtaken = FALSE

------------------------------------------------------------------------------

\* The requests of a page that is left go on, and update nothing of the next one.
Orphaned == [r \in Request |-> [requests[r] EXCEPT !.mine = FALSE]]

Send(r, base, q) ==
    /\ requests[r].pc = "idle"
    /\ requests' = [base EXCEPT ![r] = q]

Free(r) == requests' = [requests EXCEPT ![r] = Idle]

\* Mounting the profile page fetches the profile and the preferences, once.
Mount(r, base) ==
    /\ page' = "profile" /\ shown' = Defaults /\ profile' = NoProfile
    /\ loading' = TRUE /\ saving' = FALSE /\ timer' = Off
    /\ lost' = FALSE /\ sentSince' = FALSE
    /\ Send(r, base, [Idle EXCEPT !.kind = "load", !.pc = "sent", !.mine = TRUE])

OpenProfile(r) ==
    /\ page # "profile"
    /\ Mount(r, Orphaned)
    /\ UNCHANGED <<server, current, form, overtaken>>

\* The page that edits starts from the store, and fetches only when it is empty.
OpenEdit(r) ==
    /\ page # "edit" /\ page' = "edit"
    /\ profile' = current /\ form' = current
    /\ loading' = (current = NoProfile) /\ saving' = FALSE /\ timer' = Off
    /\ IF current = NoProfile
       THEN Send(r, Orphaned, [Idle EXCEPT !.kind = "getMe", !.pc = "sent", !.mine = TRUE])
       ELSE requests' = Orphaned
    /\ UNCHANGED <<server, shown, current, history>>

\* Unmounting clears the timer.
Leave ==
    /\ page # "away" /\ page' = "away" /\ timer' = Off
    /\ requests' = Orphaned
    /\ UNCHANGED <<server, shown, profile, loading, saving, current, form, history>>

------------------------------------------------------------------------------

\* Saves that were sent before this page loaded, or by a page that was left.
Loads == {r \in Request : requests[r].kind = "load" /\ requests[r].mine /\ requests[r].pc = "sent"}

\* The backend serves a request.
Serve(r) ==
    LET q == requests[r]
    IN /\ q.pc = "sent"
       /\ requests' = [requests EXCEPT ![r] =
             CASE q.kind \in {"load", "getMe"} ->
                      [q EXCEPT !.pc = "served", !.name = name, !.prefs = stored]
               [] OTHER -> [q EXCEPT !.pc = "served"]]
       /\ stored' = IF q.kind = "save" THEN q.prefs ELSE stored
       /\ name' = IF q.kind = "edit" THEN q.name ELSE name
       /\ lost' = (lost \/ (q.kind = "save" /\ ~q.mine /\ Loads = {}))
       /\ overtaken' = (overtaken \/ (q.kind = "edit" /\ name # q.name))
       /\ UNCHANGED <<view, sentSince>>

\* setCurrentProfile: the page that edits copies the store into its form
\* whenever the store changes.
SetCurrent(n) ==
    /\ current' = n
    /\ overtaken' = (n # name)
    /\ IF page = "edit" /\ n # current
       THEN profile' = n /\ form' = n /\ loading' = FALSE
       ELSE UNCHANGED <<profile, form, loading>>

\* The preferences arrive, or only the profile does: toggles that change
\* thereby arm the auto-save.
FromStored(prefs) ==
    [push |-> prefs.push, digest |-> IF prefs.daily THEN "Daily" ELSE "Off", mails |-> shown.mails]

LandLoad(r, got) ==
    LET q == requests[r]
        toggles == IF got THEN FromStored(q.prefs) ELSE shown
    IN /\ q.kind = "load" /\ q.pc = "served"
       /\ Free(r)
       /\ IF q.mine
          THEN /\ profile' = q.name /\ loading' = FALSE /\ shown' = toggles
               /\ timer' = IF toggles # shown THEN Armed(toggles) ELSE timer
               /\ lost' = (lost \/ ~got)
               /\ current' = q.name /\ overtaken' = (q.name # name)
               /\ UNCHANGED form
          ELSE SetCurrent(q.name) /\ UNCHANGED <<shown, timer, lost>>
       /\ UNCHANGED <<server, page, saving, sentSince>>

LandGetMe(r) ==
    LET q == requests[r]
    IN /\ q.kind = "getMe" /\ q.pc = "served"
       /\ Free(r)
       /\ SetCurrent(q.name)
       /\ UNCHANGED <<server, page, shown, saving, timer, lost, sentSince>>

\* The answer does not arrive, whether the request was served or not.
Fail(r) ==
    LET q == requests[r]
    IN /\ q.pc # "idle"
       /\ Free(r)
       /\ loading' = (loading /\ ~(q.mine /\ q.kind \in {"load", "getMe"}))
       /\ saving' = (saving /\ ~(q.mine /\ q.kind \in {"save", "edit"}))
       /\ lost' = (lost \/ (q.mine /\ q.kind \in {"load", "save"} /\ q.pc = "sent")
                        \/ (q.mine /\ q.kind = "load"))
       /\ UNCHANGED <<server, page, shown, profile, timer, current, form, sentSince, overtaken>>

------------------------------------------------------------------------------
(* The toggles.                                                               *)

\* A plausible error in the operator that follows, which no definition uses.
Toggle_once(toggles) ==
    /\ page = "profile" /\ ~loading /\ toggles # shown
    /\ shown' = toggles
    /\ timer' = IF profile # NoProfile /\ ~timer.armed THEN Armed(toggles) ELSE timer
    /\ UNCHANGED <<server, page, profile, loading, saving, current, form, requests, history>>

\* The toggles of the profile page.
TogglesShown == page = "profile" /\ ~loading

\* Nothing is armed before the profile is there.
Toggle(toggles) ==
    /\ TogglesShown /\ toggles # shown
    /\ shown' = toggles
    /\ timer' = IF profile # NoProfile THEN Armed(toggles) ELSE timer
    /\ UNCHANGED <<server, page, profile, loading, saving, current, form, requests, history>>

\* A second later.  The auto-save goes by savingPreferences as it was when the
\* toggle changed, and does nothing when a save was in flight then.
AutoSaveSkips ==
    /\ timer.armed /\ timer.saving
    /\ timer' = Off /\ lost' = TRUE
    /\ UNCHANGED <<server, page, shown, profile, loading, saving, current, form, requests,
                   sentSince, overtaken>>

Saved(toggles) ==
    [push |-> toggles.push, email |-> toggles.mails, daily |-> toggles.digest = "Daily"]

HandleSavePreferences(r) ==
    /\ timer.armed /\ ~timer.saving
    /\ timer' = Off /\ saving' = TRUE
    /\ Send(r, requests, [Idle EXCEPT !.kind = "save", !.pc = "sent", !.mine = TRUE,
                                     !.prefs = Saved(timer.toggles)])
    /\ lost' = FALSE /\ sentSince' = TRUE
    /\ UNCHANGED <<server, page, shown, profile, loading, current, form, overtaken>>

LandSave(r) ==
    LET q == requests[r]
    IN /\ q.kind = "save" /\ q.pc = "served"
       /\ Free(r)
       /\ saving' = (saving /\ ~q.mine)
       /\ UNCHANGED <<server, page, shown, profile, loading, timer, current, form, history>>

------------------------------------------------------------------------------
(* Editing the profile.                                                       *)

Type(n) ==
    /\ page = "edit" /\ ~loading /\ n # form /\ form' = n
    /\ UNCHANGED <<server, page, shown, profile, loading, saving, timer, current, requests, history>>

\* hasChanges, and the button that is disabled without.
CanSave ==
    page = "edit" /\ ~loading /\ ~saving /\ profile # NoProfile /\ form # profile

HandleSave(r) ==
    /\ CanSave
    /\ saving' = TRUE
    /\ Send(r, requests, [Idle EXCEPT !.kind = "edit", !.pc = "sent", !.mine = TRUE, !.name = form])
    /\ UNCHANGED <<server, page, shown, profile, loading, timer, current, form, history>>

\* The store is updated when it holds a profile, and the tab goes to the
\* profile page from wherever it is.
LandEdit(r, next) ==
    LET q == requests[r]
        freed == [Orphaned EXCEPT ![r] = Idle]
    IN /\ q.kind = "edit" /\ q.pc = "served"
       /\ current' = IF current = NoProfile THEN current ELSE q.name
       /\ overtaken' = (current' # name)
       /\ IF page = "profile"
          THEN /\ Free(r)
               /\ UNCHANGED <<page, shown, profile, loading, saving, timer, lost, sentSince>>
          ELSE Mount(next, freed)
       /\ UNCHANGED <<server, form>>

------------------------------------------------------------------------------

Next ==
    \/ Leave \/ AutoSaveSkips
    \/ \E toggles \in Toggles : Toggle(toggles)
    \/ \E n \in Name : Type(n)
    \/ \E r \in Request :
        \/ OpenProfile(r) \/ OpenEdit(r) \/ Serve(r) \/ Fail(r)
        \/ \E got \in BOOLEAN : LandLoad(r, got)
        \/ LandGetMe(r) \/ HandleSavePreferences(r) \/ LandSave(r) \/ HandleSave(r)
        \/ \E next \in Request : LandEdit(r, next)

Spec == Init /\ [][Next]_vars

------------------------------------------------------------------------------

AtRest == ~loading /\ ~timer.armed /\ \A r \in Request : requests[r].pc = "idle"

\* profile.tsx: a profile page at rest shows the push and digest settings the
\* database holds, and the e-mail setting once it has saved, unless a toggle
\* was changed while a save was in flight, a request failed, or a save of a
\* page that was left was served late.
PreferencesSettle ==
    page = "profile" /\ AtRest /\ ~lost =>
        /\ stored.push = shown.push /\ stored.daily = (shown.digest = "Daily")
        /\ sentSince => stored.email = shown.mails

\* edit-profile.tsx, userSlice: the page that edits the profile starts from the
\* profile in the database, unless the store was left with an older one.
EditsTheStored ==
    page = "edit" /\ AtRest /\ ~overtaken => profile \in {name, NoProfile}

ProfileSettles == PreferencesSettle /\ EditsTheStored
=============================================================================
