------------------------------ MODULE Session ------------------------------
(***************************************************************************)
(* The signed-in state of one browser tab: SessionProvider.tsx, the        *)
(* route guard of middleware.ts, the guard of app/(app)/layout.tsx and the *)
(* sign-in form.  The cookie is not readable by the page: /me is asked,    *)
(* and its answer may be late, lost, or overtaken by another one.          *)
(***************************************************************************)
EXTENDS Integers

CONSTANTS
    Refreshes,    \* calls of refresh() that can be under way at a time
    MountRefresh, \* the one the provider starts when it mounts
    FormRefresh,  \* the one the sign-in form waits for
    MaxRetries    \* RETRY_DELAYS_MS.length

ASSUME SessionAssumption ==
    {MountRefresh, FormRefresh} \subseteq Refreshes /\ MountRefresh # FormRefresh
    /\ MaxRetries \in Nat

VARIABLES
    cookie,    \* hm_access: "none", "valid", or "refused" (present, but the API says 401)
    session,   \* the provider's state: user is not null, and status
    refreshes, \* per call of refresh(): where it is and its attempt
    view,      \* the page shown: "form" (sign-in), "app", and a redirect still to run
    signIn,    \* the form's submission: "idle", "asked", "refreshing"
    signOut    \* logout(): "idle" or "asked"

sessionVars == <<cookie, session, refreshes, view, signIn, signOut>>

Statuses == {"loading", "authenticated", "unauthenticated", "unreachable"}
Steps == {"idle", "asked", "user", "denied", "lost", "sleeping"}

SessionTypeOK ==
    /\ cookie \in {"none", "valid", "refused"}
    /\ session \in [user : BOOLEAN, status : Statuses]
    /\ refreshes \in [Refreshes -> [step : Steps, attempt : 0 .. MaxRetries]]
    /\ view \in [page : {"form", "app"}, redirect : BOOLEAN]
    /\ signIn \in {"idle", "asked", "refreshing"}
    /\ signOut \in {"idle", "asked"}

-----------------------------------------------------------------------------
(* Where a document request ends up (middleware.ts). *)

Protected == {"/account"}
AuthPages == {"/login"}

resolveRoute(path, hasCookie) ==
    IF path \in Protected /\ ~hasCookie THEN "/login"
    ELSE IF hasCookie /\ path \in AuthPages THEN "/account"
    ELSE path

\* What the tab shows after asking for path.
Landing(path) == IF resolveRoute(path, cookie # "none") = "/login" THEN "form" ELSE "app"

-----------------------------------------------------------------------------
(* The provider. *)

Asked == [step |-> "asked", attempt |-> 0]
Finished == [step |-> "idle", attempt |-> 0]

\* A document request for the app, with whatever cookie there is.
SessionInit ==
    /\ cookie \in {"none", "valid", "refused"}
    /\ session = [user |-> FALSE, status |-> "loading"]
    /\ refreshes = [r \in Refreshes |-> IF r = MountRefresh THEN Asked ELSE Finished]
    /\ view = [page |-> Landing("/account"), redirect |-> FALSE]
    /\ signIn = "idle"
    /\ signOut = "idle"

SignedIn == [user |-> TRUE, status |-> "authenticated"]

\* Slip: the user is kept until the page is left.
LeavesUser == [session EXCEPT !.status = "unauthenticated"]

SignedOut == [user |-> FALSE, status |-> "unauthenticated"]

\* The layout's effect is due when the status it depends on becomes
\* unauthenticated, and when it mounts with that status.
AfterStatus(s) ==
    [view EXCEPT !.redirect =
       @ \/ (view.page = "app" /\ s.status = "unauthenticated"
             /\ session.status # "unauthenticated")]

\* /me is answered from the cookie the request carried.
Serve(r) ==
    /\ refreshes[r].step = "asked"
    /\ refreshes' = [refreshes EXCEPT ![r].step =
                       IF cookie = "valid" THEN "user" ELSE "denied"]
    /\ UNCHANGED <<cookie, session, view, signIn, signOut>>

\* A 429, a 5xx or no answer at all.
LoseAnswer(r) ==
    /\ refreshes[r].step \in {"asked", "user", "denied"}
    /\ refreshes' = [refreshes EXCEPT ![r].step = "lost"]
    /\ UNCHANGED <<cookie, session, view, signIn, signOut>>

\* The form's refresh is over: onSubmit pushes the page that was asked for.
Pushed(r, s) ==
    IF r = FormRefresh /\ signIn = "refreshing"
    THEN [page |-> Landing("/account"),
          redirect |-> Landing("/account") = "app" /\ s.status = "unauthenticated"]
    ELSE AfterStatus(s)

EndRefresh(r, s) ==
    /\ refreshes' = [refreshes EXCEPT ![r] = Finished]
    /\ session' = s
    /\ view' = Pushed(r, s)
    /\ signIn' = IF r = FormRefresh THEN "idle" ELSE signIn
    /\ UNCHANGED <<cookie, signOut>>

ReadAnswer(r) ==
    \/ refreshes[r].step = "user" /\ EndRefresh(r, SignedIn)
    \/ refreshes[r].step = "denied" /\ EndRefresh(r, SignedOut)

\* Slip: an outage is shown whatever was known before.
GivenUpAlways == [session EXCEPT !.status = "unreachable"]

GivenUp ==
    IF session.status = "authenticated" THEN session
    ELSE [session EXCEPT !.status = "unreachable"]

\* Slip: the last delay is waited for again and again.
RetryWithoutEnd(r) ==
    /\ refreshes[r].step = "lost"
    /\ refreshes' = [refreshes EXCEPT ![r].step = "sleeping"]
    /\ UNCHANGED <<cookie, session, view, signIn, signOut>>

\* Not an answer: wait and ask again, then give up.
Retry(r) ==
    /\ refreshes[r].step = "lost"
    /\ \/ /\ refreshes[r].attempt < MaxRetries
          /\ refreshes' = [refreshes EXCEPT ![r] = [step |-> "sleeping",
                                                    attempt |-> @.attempt + 1]]
          /\ UNCHANGED <<cookie, session, view, signIn, signOut>>
       \/ /\ refreshes[r].attempt = MaxRetries
          /\ EndRefresh(r, GivenUp)

Wake(r) ==
    /\ refreshes[r].step = "sleeping"
    /\ refreshes' = [refreshes EXCEPT ![r].step = "asked"]
    /\ UNCHANGED <<cookie, session, view, signIn, signOut>>

\* The outage card's button.
TryAgain(r) ==
    /\ session.status = "unreachable" /\ view.page = "app"
    /\ refreshes[r].step = "idle"
    /\ refreshes' = [refreshes EXCEPT ![r] = Asked]
    /\ UNCHANGED <<cookie, session, view, signIn, signOut>>

-----------------------------------------------------------------------------
(* Signing in and out, and the layout's redirect. *)

Submit ==
    /\ view.page = "form" /\ signIn = "idle"
    /\ signIn' = "asked"
    /\ UNCHANGED <<cookie, session, refreshes, view, signOut>>

SubmitAnswered ==
    /\ signIn = "asked"
    /\ \/ /\ refreshes[FormRefresh].step = "idle"
          /\ cookie' = "valid"
          /\ signIn' = "refreshing"
          /\ refreshes' = [refreshes EXCEPT ![FormRefresh] = Asked]
       \/ signIn' = "idle" /\ UNCHANGED <<cookie, refreshes>>
    /\ UNCHANGED <<session, view, signOut>>

LogOut ==
    /\ view.page = "app" /\ session.status = "authenticated" /\ signOut = "idle"
    /\ signOut' = "asked"
    /\ UNCHANGED <<cookie, session, refreshes, view, signIn>>

\* finally: signed out here, whether or not the server heard of it.
LogOutEnds ==
    /\ signOut = "asked"
    /\ signOut' = "idle"
    /\ cookie' \in {cookie, "none"}
    /\ session' = SignedOut
    /\ view' = AfterStatus(SignedOut)
    /\ UNCHANGED <<refreshes, signIn>>

\* router.replace("/login?next=/account"), through the middleware.
RedirectToLogin ==
    /\ view.redirect
    /\ view' = [page |-> Landing("/login"), redirect |-> FALSE]
    /\ UNCHANGED <<cookie, session, refreshes, signIn, signOut>>

\* The cookie's lifetime ends, or the account behind it is suspended.
CookieEnds ==
    /\ cookie # "none"
    /\ cookie' \in {"none", "refused"}
    /\ UNCHANGED <<session, refreshes, view, signIn, signOut>>

RefreshStep(r) == Serve(r) \/ ReadAnswer(r) \/ Retry(r) \/ Wake(r)

SessionNext ==
    \/ \E r \in Refreshes : RefreshStep(r) \/ LoseAnswer(r) \/ TryAgain(r)
    \/ Submit \/ SubmitAnswered \/ LogOut \/ LogOutEnds
    \/ RedirectToLogin \/ CookieEnds

SessionSpec == SessionInit /\ [][SessionNext]_sessionVars

-----------------------------------------------------------------------------
(* Properties. *)

\* Pages read user behind a check of status and the other way round: the two
\* setters of SessionProvider must never disagree, in whatever order the answers
\* of overlapping refreshes, a sign-in and a sign-out arrive.
UserMatchesStatus == session.user <=> session.status = "authenticated"

\* SessionProvider.tsx:45-47: an outage never signs a known user out; only an
\* answer of the API or the user's own sign-out does.
OutageKeepsUser ==
    [][session.status = "authenticated" /\ session'.status # "authenticated"
         => signOut = "asked" \/ \E r \in Refreshes : refreshes[r].step = "denied"]_sessionVars
=============================================================================
