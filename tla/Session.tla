-------------------------------- MODULE Session --------------------------------
(***************************************************************************)
(* The session of one browser: the two cookies the back end sets           *)
(* (auth.controller.ts, users.controller.ts), the user the page shows      *)
(* (lib/auth/context.tsx) and the requests that may be under way, with     *)
(* the shared refresh after a 401 (hooks/api/useApi.ts).                   *)
(*                                                                         *)
(* A cookie stands for the account it names; one that has expired is gone. *)
(* A request carries the cookies of the moment it was sent, and its        *)
(* answer may come at any later moment, or never.                          *)
(***************************************************************************)
CONSTANTS
    Persons,   \* accounts that sign in from this browser
    Slots,     \* bound: requests of the page under way at once
    NoAccount  \* no cookie, nobody shown

VARIABLES
    access, refresh,  \* the cookies access_token and refresh_token
    view, newcomer,   \* the user of AuthContext; whether signUp set it
    fetch,            \* the requests, each with the account it is for
    renewal,          \* refreshPromise, with the account of its cookie
    who, stray        \* history

cookieVars == <<access, refresh>>
viewVars == <<view, newcomer>>
personVars == <<who, stray>>
sessionVars == <<cookieVars, viewVars, fetch, renewal, personVars>>

Somebody == Persons \cup {NoAccount}
FetchKinds == {"idle", "call", "wait", "retry", "check", "login", "loginRemember",
               "verify", "register", "logout", "profile"}
Fetch == [kind : FetchKinds, as : Somebody]
Renewal == [sent : BOOLEAN, as : Somebody]

ASSUME NoAccountAssumption == NoAccount \notin Persons

NoFetch == [kind |-> "idle", as |-> NoAccount]
NoRenewal == [sent |-> FALSE, as |-> NoAccount]

-----------------------------------------------------------------------------

Idle(p) == fetch[p] = NoFetch
Become(p, kind, as) == fetch' = [fetch EXCEPT ![p] = [kind |-> kind, as |-> as]]
Send(p, kind, as) ==
    /\ Idle(p) /\ Become(p, kind, as)
    /\ UNCHANGED <<cookieVars, viewVars, renewal, personVars>>
Done(p) == fetch' = [fetch EXCEPT ![p] = NoFetch]
Kind(p) == fetch[p].kind
As(p) == fetch[p].as

Show(u) == view' = u /\ newcomer' = FALSE

\* Answers that will set a cookie or the view by an account other than u.
Others(u) == Persons \ {u}
LateFor(u, p) ==
    \/ renewal.as \in Others(u)
    \/ \E q \in Slots \ {p} : Kind(q) \in {"check", "profile"} /\ As(q) \in Others(u)

\* Somebody signs in or out: whether anything of another account is left.
Switch(u, left) == who' = u /\ stray' = left

-----------------------------------------------------------------------------
(* What the page sends.                                                    *)

\* Any call of the API, with the access cookie; the update of a preference.
Call(p) == \E kind \in {"call", "profile"} : Send(p, kind, access)

\* The forms send the account typed in; the verification link names one.
Identify(p) ==
    \E u \in Persons, kind \in {"login", "loginRemember", "verify", "register"} :
        Send(p, kind, u)

SignOut(p) == Send(p, "logout", NoAccount)

\* The page is loaded anew: what was under way is dropped, checkAuth asks.
Reload(p) ==
    /\ fetch' = [q \in Slots |-> IF q = p THEN [kind |-> "check", as |-> access] ELSE NoFetch]
    /\ renewal' = NoRenewal
    /\ Show(NoAccount)
    /\ UNCHANGED <<cookieVars, personVars>>

-----------------------------------------------------------------------------
(* The answers.                                                            *)

\* apiFetch: a 401 waits for the refresh, and starts one if there is none.
CallAnswered(p) ==
    /\ Kind(p) = "call"
    /\ \/ As(p) # NoAccount /\ Done(p) /\ UNCHANGED renewal
       \/ /\ As(p) = NoAccount
          /\ Become(p, "wait", NoAccount)
          /\ renewal' = IF renewal.sent THEN renewal ELSE [sent |-> TRUE, as |-> refresh]
    /\ UNCHANGED <<cookieVars, viewVars, personVars>>

\* tryRefresh succeeded: both cookies are set again, auth:refreshed starts a
\* checkAuth, and who waited sends again.
Refreshed(p) ==
    LET u == renewal.as IN
    /\ renewal.sent /\ u # NoAccount /\ Idle(p)
    /\ access' = u /\ refresh' = u
    /\ fetch' = [q \in Slots |->
                    IF q = p THEN [kind |-> "check", as |-> u]
                    ELSE IF Kind(q) = "wait" THEN [kind |-> "retry", as |-> u] ELSE fetch[q]]
    /\ renewal' = NoRenewal
    /\ UNCHANGED <<viewVars, personVars>>

\* It failed: auth:expired clears the view of everybody who waited.  The
\* navigation that follows is a Reload.
NotRefreshed ==
    /\ renewal.sent
    /\ fetch' = [q \in Slots |-> IF Kind(q) = "wait" THEN NoFetch ELSE fetch[q]]
    /\ renewal' = NoRenewal
    /\ Show(NoAccount)
    /\ UNCHANGED <<cookieVars, personVars>>

\* The second answer: 401 again is auth:expired.
RetryAnswered(p) ==
    /\ Kind(p) = "retry"
    /\ Done(p)
    /\ \/ UNCHANGED viewVars
       \/ Show(NoAccount)
    /\ UNCHANGED <<cookieVars, renewal, personVars>>

CheckAnswered(p) ==
    /\ Kind(p) = "check"
    /\ Done(p)
    /\ Show(As(p))
    /\ UNCHANGED <<cookieVars, renewal, personVars>>

\* setAuthCookies writes the refresh cookie only if there is a refresh token:
\* without rememberMe, that of an earlier sign-in stays.  The mutant never
\* writes it.
MutRefreshAfter(u, remember) == refresh
RefreshAfter(u, remember) == IF remember THEN u ELSE refresh

\* What signIn shows; the mutant leaves it to the next checkAuth.
MutShownAfter(u) == view
ShownAfter(u) == u

SignedIn(p) ==
    LET u == As(p) IN
    /\ Kind(p) \in {"login", "loginRemember"}
    /\ access' = u
    /\ refresh' = RefreshAfter(u, Kind(p) = "loginRemember")
    /\ Show(ShownAfter(u))
    /\ Switch(u, LateFor(u, p) \/ (Kind(p) = "login" /\ refresh \in Others(u)))
    /\ Done(p)
    /\ UNCHANGED renewal

\* verify-email signs in as well, and then asks checkAuth whom to show.
AddressVerified(p) ==
    LET u == As(p) IN
    /\ Kind(p) = "verify"
    /\ access' = u /\ refresh' = u
    /\ Switch(u, LateFor(u, p) \/ view \in Others(u) \/ newcomer)
    /\ Become(p, "check", u)
    /\ UNCHANGED <<viewVars, renewal>>

\* register sets no cookie; the page shows the new user as signed in.
SignedUp(p) ==
    /\ Kind(p) = "register"
    /\ view' = As(p) /\ newcomer' = TRUE
    /\ Done(p)
    /\ UNCHANGED <<cookieVars, renewal, personVars>>

\* logout revokes nothing: it clears the cookies.
SignedOut(p) ==
    /\ Kind(p) = "logout"
    /\ access' = NoAccount /\ refresh' = NoAccount
    /\ Show(NoAccount)
    /\ Switch(NoAccount, LateFor(NoAccount, p))
    /\ Done(p)
    /\ UNCHANGED renewal

\* PATCH users/me signs a new access token for whoever sent it; 401 is an error
\* like another.
ProfileSaved(p) ==
    /\ Kind(p) = "profile"
    /\ Done(p)
    /\ IF As(p) # NoAccount THEN access' = As(p) /\ Show(As(p)) ELSE UNCHANGED <<access, viewVars>>
    /\ UNCHANGED <<refresh, renewal, personVars>>

\* The network fails, a timeout aborts, the password is wrong.  checkAuth shows
\* nobody then, and so does signOut, though the cookies are still there.
FetchFails(p) ==
    /\ Kind(p) \notin {"idle", "wait"}
    /\ Done(p)
    /\ IF Kind(p) \in {"check", "logout"} THEN Show(NoAccount) ELSE UNCHANGED viewVars
    /\ UNCHANGED <<cookieVars, renewal, personVars>>

\* maxAge of a cookie, or the exp of its token, goes by.
CookieExpires ==
    /\ \/ access # NoAccount /\ access' = NoAccount /\ UNCHANGED refresh
       \/ refresh # NoAccount /\ refresh' = NoAccount /\ UNCHANGED access
    /\ UNCHANGED <<viewVars, fetch, renewal, personVars>>

-----------------------------------------------------------------------------

SessionInit ==
    /\ access = NoAccount /\ refresh = NoAccount
    /\ view = NoAccount /\ newcomer = FALSE
    /\ fetch = [p \in Slots |-> NoFetch]
    /\ renewal = NoRenewal
    /\ who = NoAccount /\ stray = FALSE

SessionNext ==
    \/ \E p \in Slots :
          \/ Call(p) \/ Identify(p) \/ SignOut(p) \/ Reload(p)
          \/ CallAnswered(p) \/ Refreshed(p) \/ RetryAnswered(p) \/ CheckAnswered(p)
          \/ SignedIn(p) \/ AddressVerified(p) \/ SignedUp(p) \/ SignedOut(p) \/ ProfileSaved(p)
          \/ FetchFails(p)
    \/ NotRefreshed \/ CookieExpires

SessionSpec == SessionInit /\ [][SessionNext]_sessionVars

-----------------------------------------------------------------------------
(* Properties.                                                             *)

\* Types; a refresh that is not under way belongs to nobody.
SessionTypeOK ==
    /\ access \in Somebody /\ refresh \in Somebody /\ view \in Somebody
    /\ newcomer \in BOOLEAN /\ stray \in BOOLEAN /\ who \in Somebody
    /\ fetch \in [Slots -> Fetch] /\ renewal \in Renewal
    /\ ~renewal.sent => renewal.as = NoAccount

\* What the browser sends next is sent as the account that signed in last, or
\* as nobody once it signed out: whatever refreshes, updates and expiries come
\* in between.  It fails only when that sign-in or sign-out met an answer still
\* under way for another account, or left the refresh cookie of another one.
SessionFollowsSignIn == access \in {NoAccount, who} \/ stray

\* The account the page shows is the one its requests act as: nobody votes as
\* somebody else than the page says.  A registration shows the new account and
\* signs nobody in.
ActsAsShown ==
    view # NoAccount /\ access # NoAccount => view = access \/ newcomer \/ stray

\* The invariant both rest on: unless stray, nothing in the browser or under
\* way belongs to anybody but the account that signed in last.
OfWho(u) == u \in {NoAccount, who}
SessionInv ==
    \/ stray
    \/ /\ OfWho(access) /\ OfWho(refresh) /\ OfWho(renewal.as)
       /\ newcomer \/ OfWho(view)
       /\ \A p \in Slots : Kind(p) \in {"check", "profile"} => OfWho(As(p))
=============================================================================
