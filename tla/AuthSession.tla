---------------------------- MODULE AuthSession ----------------------------
(***************************************************************************)
(* The session of the webv2 app: the AuthProvider of                      *)
(* webv2/src/contexts/auth/auth-context.tsx (a useReducer state and the    *)
(* async callbacks bootstrap, signInWithPassword, signOut), the token in   *)
(* localStorage written by webv2/src/lib/api/auth.ts, and the two views    *)
(* that act on the session: AppShell (every page under (app)) and the      *)
(* login page, plus a full load of /user/logout.                           *)
(*                                                                         *)
(* An async callback is split at each await. The dispatches of one         *)
(* segment are folded through the reducer in order; React renders, and the *)
(* effects of the pages run, only between segments.                        *)
(***************************************************************************)
EXTENDS Naturals, SequencesExt

CONSTANTS
    Tokens,        \* tokens the login endpoint hands out
    None,          \* undefined / null
    MaxReloads,    \* bound on full page loads by the user
    MaxCalls,      \* bound on calls of signInWithToken and refreshUser
    MaxSignIns     \* bound on signInWithPassword calls in flight at once

ASSUME None \notin Tokens /\ MaxReloads \in Nat /\ MaxCalls \in Nat /\ MaxSignIns \in Nat \ {0}

VARIABLES
    st,            \* the reducer state {user, token, loading, error, initialized}
    stored,        \* localStorage "token"
    boot,          \* bootstrap: "start", "awaitUser", "done"
    signIn,        \* per call of signInWithPassword: its stage ("idle",
                   \* "awaitLogin", "awaitUser") and the redirect its onSubmit
                   \* closed over
    page,          \* the location shown: [path, redirect] (?redirect= of the URL)
    reloads,       \* full page loads so far
    tokenSignIn,   \* signInWithToken: "idle", "awaitUser"
    refresh,       \* refreshUser: "idle", "awaitUser"
    calls          \* calls of signInWithToken and refreshUser so far

vars == <<st, stored, boot, signIn, page, reloads, tokenSignIn, refresh, calls>>

(* The variables signInWithToken and refreshUser leave alone.             *)
callers == <<tokenSignIn, refresh, calls>>

(* Slots for the calls of signInWithPassword in flight: signOut's reset  *)
(* clears loading and re-enables the form while a call is pending.       *)
SignIns == 1..MaxSignIns
IdleSignIn == [stage |-> "idle", dest |-> None]
SignInsIdle == \A s \in SignIns : signIn[s].stage = "idle"

(* The user object: the one GET /user returned, or DEFAULT_USER.          *)
Users == {[username |-> "admin"], [username |-> "DEFAULT_USER"]}

(* Locations. Every page under (app) is wrapped in AppShell by the (app)  *)
(* layout. No page serves "/": webv2 has no app/page.tsx and no redirect  *)
(* in next.config.ts. The paths hold no character that           *)
(* encodeURIComponent changes, so the decodings of ?redirect= give the    *)
(* path back.                                                              *)
AppPaths ==
    {"/dashboard", "/routes/list", "/service/list", "/consumer/list", "/proto/list",
     "/plugin/list", "/ssl/list", "/serverinfo", "/settings"}
Served   == AppPaths \cup {"/user/login", "/user/logout"}

(* A URL of another origin, which a crafted ?redirect= can carry.        *)
ExternalURL == "https://example.com/"

(* The paths of the Sidebar's menuItems (names and icons left out), and  *)
(* the UserMenu's Settings link.                                           *)
menuItems ==
    <<"/dashboard", "/routes/list", "/upstream/list", "/service/list", "/consumer/list",
      "/proto/list", "/plugin/list", "/ssl/list", "/serverinfo">>

UserMenuLinks == {"/settings"}

(* The dashboard's "Configure Grafana" button, shown while no Grafana URL *)
(* is stored; the stored URL is the Settings module's, so the button is    *)
(* taken as always shown.                                                  *)
DashboardLinks == {"/settings"}

(* Where the settings page goes after saving: the decoded ?redirect=, "/" *)
(* in place of one that starts with "http", or /dashboard.                *)
SettingsDestination(r) ==
    CASE r = None        -> "/dashboard"
      [] r = ExternalURL -> "/"
      [] OTHER           -> r

Loc(path, r) == [path |-> path, redirect |-> r]

(* The URLs a user can open: an app page, or the login, logout or         *)
(* settings page with or without ?redirect=.                               *)
Locations ==
    {Loc(p, None) : p \in AppPaths} \cup
    {Loc(p, r) : p \in {"/user/login", "/user/logout", "/settings"},
                 r \in AppPaths \cup {ExternalURL, None}}

(* A variant without the /user/logout guard.                              *)
DestinationUnguarded(r, fallback) == IF r = None THEN fallback ELSE r

(* The login page's destination: the decoded ?redirect= or the fallback,  *)
(* and the fallback in place of /user/logout.                              *)
Destination(r, fallback) ==
    LET d == IF r = None THEN fallback ELSE r
    IN  IF d = "/user/logout" THEN fallback ELSE d

-----------------------------------------------------------------------------
initialState ==
    [user |-> None, token |-> None, loading |-> FALSE, error |-> FALSE,
     initialized |-> FALSE]

A(type, v) == [type |-> type, v |-> v]

(* A reducer variant that stores the whole action as the user.           *)
reducerWholeAction(s, a) ==
    CASE a.type = "set-user"    -> [s EXCEPT !.user = a, !.loading = FALSE]
      [] a.type = "set-token"   -> [s EXCEPT !.token = a.v]
      [] a.type = "set-loading" -> [s EXCEPT !.loading = a.v]
      [] a.type = "set-error"   -> [s EXCEPT !.error = a.v]
      [] a.type = "initialized" -> [s EXCEPT !.initialized = TRUE, !.loading = FALSE]
      [] a.type = "reset"       -> [initialState EXCEPT !.initialized = TRUE]

(* The reducer, one case per action type.                                  *)
reducer(s, a) ==
    CASE a.type = "set-user"    -> [s EXCEPT !.user = a.v, !.loading = FALSE]
      [] a.type = "set-token"   -> [s EXCEPT !.token = a.v]
      [] a.type = "set-loading" -> [s EXCEPT !.loading = a.v]
      [] a.type = "set-error"   -> [s EXCEPT !.error = a.v]
      [] a.type = "initialized" -> [s EXCEPT !.initialized = TRUE, !.loading = FALSE]
      [] a.type = "reset"       -> [initialState EXCEPT !.initialized = TRUE]

Dispatch(acts) == st' = FoldLeft(reducer, st, acts)

(* getCurrentUser: GET /user; on any failure it falls back to             *)
(* DEFAULT_USER, so the promise never rejects. "admin" stands for the     *)
(* user the API returned.                                                  *)
Reject == [rejected |-> TRUE]

CurrentUserOutcomesRejecting == Users \cup {Reject}

CurrentUserOutcomes == Users

(* logout: the token is removed from localStorage.                        *)
LogoutKeepsToken == UNCHANGED stored

logout == stored' = None

(* loginWithToken, up to its await of getCurrentUser: the token is       *)
(* stored in localStorage.                                                 *)
loginWithToken(t) == stored' = t

-----------------------------------------------------------------------------
Init ==
    /\ st = initialState
    /\ stored \in Tokens \cup {None}
    /\ boot = "start"
    /\ signIn = [s \in SignIns |-> IdleSignIn]
    /\ page \in Locations \ {l \in Locations : l.path = "/user/logout"}
    /\ reloads = 0
    /\ tokenSignIn = "idle"
    /\ refresh = "idle"
    /\ calls = 0

(* bootstrap, up to the await of getCurrentUser.                          *)
BootstrapStart ==
    /\ boot = "start"
    /\ IF stored = None
       THEN /\ Dispatch(<<A("initialized", TRUE)>>)
            /\ boot' = "done"
       ELSE /\ Dispatch(<<A("set-token", stored), A("set-loading", TRUE)>>)
            /\ boot' = "awaitUser"
    /\ UNCHANGED <<stored, signIn, page, reloads, callers>>

(* bootstrap, after getCurrentUser; it has no catch, so a rejection would *)
(* end it with nothing dispatched.                                        *)
BootstrapUser ==
    /\ boot = "awaitUser"
    /\ \E o \in CurrentUserOutcomes :
          IF o = Reject THEN UNCHANGED st
          ELSE Dispatch(<<A("set-user", o), A("initialized", TRUE)>>)
    /\ boot' = "done"
    /\ UNCHANGED <<stored, signIn, page, reloads, callers>>

(* The login form: its Sign In button is disabled while loading. Its      *)
(* handleSubmit calls onSubmit only when loginSchema accepts the username *)
(* and password; a refused form only shows messages.                      *)
LoginForm == page.path = "/user/login" /\ ~st.loading

(* onSubmit calls signInWithPassword, up to its await; the call takes   *)
(* the first free slot s (slots have no identity in the code) and keeps  *)
(* the redirect of this render.                                           *)
SubmitLogin(s) ==
    /\ LoginForm
    /\ boot # "start"    \* React flushes the mount effects before an input event
    /\ signIn[s].stage = "idle"
    /\ \A i \in 1..(s - 1) : signIn[i].stage # "idle"
    /\ Dispatch(<<A("set-loading", TRUE), A("set-error", FALSE)>>)
    /\ signIn' = [signIn EXCEPT ![s] = [stage |-> "awaitLogin", dest |-> page.redirect]]
    /\ UNCHANGED <<stored, boot, page, reloads, callers>>

(* loginWithPassword resolves: it stores the token, then set-token.       *)
LoginResolves(s, t) ==
    /\ signIn[s].stage = "awaitLogin"
    /\ stored' = t
    /\ Dispatch(<<A("set-token", t)>>)
    /\ signIn' = [signIn EXCEPT ![s].stage = "awaitUser"]
    /\ UNCHANGED <<boot, page, reloads, callers>>

(* The catch of signInWithPassword: set-error, set-loading false, and the *)
(* rethrow that onSubmit turns into a toast.                              *)
SignInFailsKeepLoading(s) ==
    /\ Dispatch(<<A("set-error", TRUE)>>)
    /\ signIn' = [signIn EXCEPT ![s] = IdleSignIn]

SignInFails(s) ==
    /\ Dispatch(<<A("set-error", TRUE), A("set-loading", FALSE)>>)
    /\ signIn' = [signIn EXCEPT ![s] = IdleSignIn]

LoginRejects(s) ==
    /\ signIn[s].stage = "awaitLogin"
    /\ SignInFails(s)
    /\ UNCHANGED <<stored, boot, page, reloads, callers>>

(* signInWithPassword after getCurrentUser, then onSubmit's               *)
(* router.replace to the destination, /dashboard by default; the         *)
(* navigation happens whichever page is shown by then.                     *)
SignInUser(s) ==
    /\ signIn[s].stage = "awaitUser"
    /\ \E o \in CurrentUserOutcomes :
          IF o = Reject
          THEN SignInFails(s) /\ UNCHANGED page
          ELSE /\ Dispatch(<<A("set-user", o), A("initialized", TRUE)>>)
               /\ signIn' = [signIn EXCEPT ![s] = IdleSignIn]
               /\ page' = Loc(Destination(signIn[s].dest, "/dashboard"), None)
    /\ UNCHANGED <<stored, boot, reloads, callers>>

(* The Logout item of UserMenu (rendered by AppShell once initialized)    *)
(* calls signOut: logout(), reset, router.push to the login page. The     *)
(* awaited logout() promise is already resolved, so no fetch or input     *)
(* event can run between its removeItem and the reset: one step. The     *)
(* push is to /user/login?redirect= the current path.                      *)
SignOut ==
    /\ page.path \in AppPaths
    /\ st.initialized
    /\ logout
    /\ Dispatch(<<A("reset", TRUE)>>)
    /\ page' = Loc("/user/login", page.path)
    /\ UNCHANGED <<boot, signIn, reloads, callers>>

(* signInWithToken(t), called by a component of the app with a token it *)
(* holds (no view of webv2 calls it; spec 4.3 gives it for persisted     *)
(* sessions): set-token, then loginWithToken stores the token before its *)
(* await of getCurrentUser. One call of each callback is in flight at a  *)
(* time, and MaxCalls bounds the calls of both callbacks.                 *)
SignInWithTokenStart(t) ==
    /\ tokenSignIn = "idle"
    /\ boot # "start"
    /\ calls < MaxCalls /\ calls' = calls + 1
    /\ Dispatch(<<A("set-token", t)>>)
    /\ loginWithToken(t)
    /\ tokenSignIn' = "awaitUser"
    /\ UNCHANGED <<boot, signIn, page, reloads, refresh>>

(* signInWithToken after getCurrentUser: set-user, initialized. It has no *)
(* catch.                                                                 *)
SignInWithTokenUser ==
    /\ tokenSignIn = "awaitUser"
    /\ \E o \in CurrentUserOutcomes :
          IF o = Reject THEN UNCHANGED st
          ELSE Dispatch(<<A("set-user", o), A("initialized", TRUE)>>)
    /\ tokenSignIn' = "idle"
    /\ UNCHANGED <<stored, boot, signIn, page, reloads, refresh, calls>>

(* refreshUser: getCurrentUser, then set-user, whatever happened to the   *)
(* session meanwhile.                                                      *)
RefreshStart ==
    /\ refresh = "idle"
    /\ boot # "start"
    /\ calls < MaxCalls /\ calls' = calls + 1
    /\ refresh' = "awaitUser"
    /\ UNCHANGED <<st, stored, boot, signIn, page, reloads, tokenSignIn>>

RefreshUser ==
    /\ refresh = "awaitUser"
    /\ \E o \in CurrentUserOutcomes :
          IF o = Reject THEN UNCHANGED st ELSE Dispatch(<<A("set-user", o)>>)
    /\ refresh' = "idle"
    /\ UNCHANGED <<stored, boot, signIn, page, reloads, tokenSignIn, calls>>

(* AppShell's effect: an initialized session without a token is sent to  *)
(* the login page, with ?redirect= the current path.                      *)
AppShellRedirect ==
    /\ page.path \in AppPaths
    /\ st.initialized /\ st.token = None
    /\ page' = Loc("/user/login", page.path)
    /\ UNCHANGED <<st, stored, boot, signIn, reloads, callers>>

(* The login page's effect: an initialized session with a token leaves    *)
(* the login page for the redirect target, "/" by default.                *)
LoginPageRedirect ==
    /\ page.path = "/user/login"
    /\ st.initialized /\ st.token # None
    /\ page' = Loc(Destination(page.redirect, "/"), None)
    /\ UNCHANGED <<st, stored, boot, signIn, reloads, callers>>

(* A click on a link of the Sidebar or the UserMenu, which AppShell        *)
(* renders once the session is initialized.                               *)
Navigate(p) ==
    /\ page.path \in AppPaths
    /\ st.initialized
    /\ page' = Loc(p, None)
    /\ UNCHANGED <<st, stored, boot, signIn, reloads, callers>>

(* The settings page's onSubmit: updateGrafanaURL (the stored Grafana URL *)
(* is the Settings module's), then router.replace. Every link in the app  *)
(* opens /settings without ?redirect=.                                     *)
SettingsSave ==
    /\ page.path = "/settings"
    /\ st.initialized
    /\ page' = Loc(SettingsDestination(page.redirect), None)
    /\ UNCHANGED <<st, stored, boot, signIn, reloads, callers>>

(* A full page load: the provider mounts afresh and every pending         *)
(* callback is gone. Loading /user/logout runs its effect (remove the     *)
(* token, replace with /user/login?redirect= its own ?redirect= or its    *)
(* path) before the provider's bootstrap, as child effects run first.     *)
Reload(l) ==
    /\ reloads < MaxReloads
    /\ reloads' = reloads + 1
    /\ st' = initialState
    /\ boot' = "start"
    /\ signIn' = [s \in SignIns |-> IdleSignIn]
    /\ tokenSignIn' = "idle" /\ refresh' = "idle"
    /\ UNCHANGED calls
    /\ IF l.path = "/user/logout"
       THEN /\ stored' = None
            /\ page' = Loc("/user/login", IF l.redirect = None THEN l.path ELSE l.redirect)
       ELSE UNCHANGED stored /\ page' = l

Next ==
    \/ BootstrapStart \/ BootstrapUser
    \/ \E s \in SignIns :
          \/ SubmitLogin(s) \/ \E t \in Tokens : LoginResolves(s, t)
          \/ LoginRejects(s) \/ SignInUser(s)
    \/ SignOut
    \/ \E t \in Tokens : SignInWithTokenStart(t)
    \/ SignInWithTokenUser
    \/ RefreshStart \/ RefreshUser
    \/ AppShellRedirect \/ LoginPageRedirect
    \/ \E p \in Range(menuItems) \cup UserMenuLinks : Navigate(p)
    \/ page.path = "/dashboard" /\ \E p \in DashboardLinks : Navigate(p)
    \/ SettingsSave
    \/ \E l \in Locations : Reload(l)

(* Weak fairness of the steps the liveness property rests on, both taken  *)
(* by the program by itself: the bootstrap effect and its awaited fetch   *)
(* (the browser's network timeout ends a hung request). The program's     *)
(* other steps are as fair in the code; leaving them out only weakens the *)
(* assumption. The user's steps (submit, sign out, reload) and the calls  *)
(* of signInWithToken and refreshUser are not fair.                       *)
Fairness ==
    /\ WF_vars(BootstrapStart) /\ WF_vars(BootstrapUser)

Spec == Init /\ [][Next]_vars /\ Fairness

-----------------------------------------------------------------------------
TypeOK ==
    /\ st.user \in Users \cup {None}
    /\ st.token \in Tokens \cup {None}
    /\ st.loading \in BOOLEAN /\ st.error \in BOOLEAN /\ st.initialized \in BOOLEAN
    /\ stored \in Tokens \cup {None}
    /\ boot \in {"start", "awaitUser", "done"}
    /\ signIn \in [SignIns -> [stage : {"idle", "awaitLogin", "awaitUser"},
                              dest : Served \cup {ExternalURL, None}]]
    /\ page \in [path : Served \cup Range(menuItems) \cup {"/", ExternalURL}, redirect : Served \cup {ExternalURL, None}]
    /\ reloads \in 0..MaxReloads
    /\ tokenSignIn \in {"idle", "awaitUser"} /\ refresh \in {"idle", "awaitUser"}
    /\ calls \in 0..MaxCalls

(* The submit button is disabled only while a bootstrap or a sign-in is  *)
(* really in flight: every path out of signInWithPassword, the catch      *)
(* included, and out of bootstrap clears loading, so a failed sign-in     *)
(* never leaves the form disabled.                                        *)
LoadingOnlyWhileBusy ==
    st.loading => boot = "awaitUser" \/ ~SignInsIdle

(* Once no callback is pending, the session's token is the one in         *)
(* localStorage that every request sends: sign-in, sign-out, bootstrap    *)
(* and a load of /user/logout keep the two in step.                       *)
SessionTokenMatchesStorage ==
    st.initialized /\ boot = "done" /\ SignInsIdle
    => st.token = stored

(* The session always leaves "Loading session..." for good: bootstrap     *)
(* reaches "initialized" because getCurrentUser never rejects.            *)
SessionSettles == <>[]st.initialized

(* A sign-in never ends on /user/logout, whose effect would remove the    *)
(* token just stored: loading /user/logout without ?redirect= sends the   *)
(* user to /user/login?redirect=/user/logout, and both the login page's   *)
(* effect and onSubmit must map that target to their fallback.            *)
NeverSentToLogout == page.path # "/user/logout"

(* Every navigation ends on a page the app serves: signing in, saving the *)
(* settings and every link of the Sidebar and the UserMenu lead to a page *)
(* of the app.                                                             *)
LandsOnServedPage == page.path \in Served

(* A signed-out session shows no user (spec 4.3: signOut returns to      *)
(* anonymous-initialized, and a sign-in is never exposed half done): a    *)
(* callback left pending across a signOut must not put its user into the  *)
(* reset session. A token without a user is the transient state of a     *)
(* sign-in and is allowed.                                                *)
NoUserWithoutToken ==
    st.initialized /\ st.token = None => st.user = None

====
