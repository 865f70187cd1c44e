------------------------------ MODULE Console ------------------------------
(* The web console in one browser tab against the account of Accounts: the    *)
(* persisted session (store/auth.ts), the HTTP client's handling of 401       *)
(* (api/client.ts), the guard of App.tsx with its cached /auth/me, the login, *)
(* password and account security pages, and the layout's logout.  Answers of  *)
(* one session can arrive in the next one.                                    *)
EXTENDS Accounts

CONSTANT browser      \* the caller that is this tab; the others only log in

ASSUME ConsoleAssumption == browser \in Callers

VARIABLES
    store,     \* the persisted token and scope
    me,        \* the cached answer of /auth/me, with the token it is about
    meCall,    \* the fetch of /auth/me in flight
    route,     \* the page
    mounted,   \* RequireAuth is mounted
    form,      \* the ticket and the password the login page keeps
    sec,       \* the wizard of the account security page
    debounce,  \* redirectingToLogin
    foreign    \* history: the scope in the store came from another session

pageVars == <<me, meCall, route, mounted, form, sec, debounce>>
conVars == <<store, me, meCall, route, mounted, form, sec, debounce, foreign>>
vars == <<acctVars, conVars>>

Pages == {"login", "cp", "home", "security"}
Guarded == {"home", "security"}
NoStore == [tok |-> NoTok, scope |-> ""]
NoMe == [scope |-> "none", of |-> 0, age |-> 0]
NoFetch == [tok |-> NoTok, st |-> "none"]
NoForm == [tkt |-> 0, pw |-> 0]
NoSec == [on |-> FALSE, secret |-> 0, codes |-> 0]

ConInit ==
    /\ AcctInit
    /\ store = NoStore /\ me = NoMe /\ meCall = NoFetch
    /\ route = "login" /\ mounted = FALSE
    /\ form = NoForm /\ sec = NoSec
    /\ debounce = FALSE /\ foreign = FALSE

-----------------------------------------------------------------------------
(* store/auth.ts and api/client.ts.                                           *)

setAuth(tok, scope) == store' = [tok |-> tok, scope |-> scope] /\ foreign' = FALSE
clearAuth == store' = NoStore /\ foreign' = FALSE

\* setScope with the scope of m: another session's when m is about its token.
setScope(m) ==
    /\ store' = [store EXCEPT !.scope = m.scope]
    /\ foreign' = (m.of # store.tok.at)

\* A full page load: memory is gone, the store is read back from localStorage.
\* A request in flight is still served, its answer is not received.
Load(r) ==
    /\ route' = r /\ mounted' = FALSE
    /\ me' = NoMe /\ meCall' = NoFetch
    /\ form' = NoForm /\ sec' = NoSec /\ debounce' = FALSE

Drop == calls' = [calls EXCEPT ![browser] =
                    IF @.pc \in {"idle", "done"} THEN Idle ELSE [@ EXCEPT !.lost = TRUE]]

redirectToLogin ==
    \/ debounce /\ UNCHANGED <<store, foreign, pageVars>>
    \/ ~debounce /\ route # "login" /\ clearAuth /\ Load("login")
    \/ /\ ~debounce /\ route = "login" /\ clearAuth
       /\ debounce' = TRUE
       /\ UNCHANGED <<me, meCall, route, mounted, form, sec>>

Free == calls[browser].pc = "idle"
Request(op, arg) == Send(browser, op, store.tok, arg)
Answered(op) == At(browser, op, "done")
Ans == calls[browser].ans
Taken == calls' = [calls EXCEPT ![browser] = Idle]
ServerSame == UNCHANGED <<user, reqAll, tickets, setup, now, slot, made, adm, used>>
AcctSame == UNCHANGED acctVars

\* In-app navigation: what is not the account page forgets its wizard.
Navigate(r) ==
    /\ route' = r
    /\ mounted' = (mounted /\ r \in Guarded)
    /\ sec' = IF r = "security" THEN sec ELSE NoSec

-----------------------------------------------------------------------------
(* App.tsx: RequireAuth and the query ['auth-me'].                            *)

\* Where RequireAuth sends a page under a scope.
Redirect(scope, r) ==
    IF scope = "mfa" THEN "security" ELSE IF scope = "pw" THEN "cp" ELSE r

Fetch(stale) ==
    meCall' = IF meCall = NoFetch /\ stale THEN [tok |-> store.tok, st |-> "sent"] ELSE meCall

\* First render: redirect by the persisted scope; the effect applies a cached
\* answer in the same commit, and the query fetches when that is over 30 s old.
GuardMount ==
    /\ route \in Guarded /\ ~mounted
    /\ \/ /\ store.tok = NoTok
          /\ route' = "login"
          /\ UNCHANGED <<store, foreign, mounted, meCall>>
       \/ /\ store.tok # NoTok
          /\ route' = Redirect(store.scope, route)
          /\ mounted' = (route' \in Guarded)
          /\ IF me = NoMe THEN UNCHANGED <<store, foreign>> ELSE setScope(me)
          /\ Fetch(me = NoMe \/ me.age = 2)
    /\ AcctSame /\ UNCHANGED <<me, form, sec, debounce>>

\* A later render: a changed store moves the page.
Guard ==
    /\ mounted
    /\ \/ store.tok = NoTok /\ Navigate("login")
       \/ store.tok # NoTok /\ Redirect(store.scope, route) # route /\ Navigate(Redirect(store.scope, route))
    /\ AcctSame /\ UNCHANGED <<store, foreign, me, meCall, form, debounce>>

MeServe ==
    /\ meCall.st = "sent"
    /\ meCall' = [meCall EXCEPT !.st = AuthMiddleware(meCall.tok, "me")]
    /\ AcctSame /\ UNCHANGED <<store, foreign, me, route, mounted, form, sec, debounce>>

\* The answer replaces the cache; the effect runs only in a mounted guard and
\* only when the data is not equal to what was cached.
MeDeliver ==
    LET m == [scope |-> meCall.tok.scope, of |-> meCall.tok.at, age |-> 0]
        same == me.scope = m.scope /\ me.of = m.of
    IN  \/ /\ meCall.st = "ok"
           /\ me' = m
           /\ meCall' = NoFetch
           /\ IF mounted /\ ~same THEN setScope(m) ELSE UNCHANGED <<store, foreign>>
           /\ AcctSame /\ UNCHANGED <<route, mounted, form, sec, debounce>>
        \/ /\ meCall.st = "403"
           /\ meCall' = NoFetch
           /\ AcctSame /\ UNCHANGED <<store, foreign, me, route, mounted, form, sec, debounce>>
        \/ /\ meCall.st = "401"
           /\ \/ ~debounce /\ route # "login" /\ redirectToLogin /\ Drop
              \/ /\ debounce \/ route = "login"
                 /\ IF debounce THEN UNCHANGED <<store, foreign, debounce>>
                    ELSE clearAuth /\ debounce' = TRUE
                 /\ meCall' = NoFetch
                 /\ UNCHANGED <<calls, me, route, mounted, form, sec>>
           /\ ServerSame

MeAges ==
    /\ me # NoMe /\ me.age < 2
    /\ me' = [me EXCEPT !.age = @ + 1]
    /\ AcctSame /\ UNCHANGED <<store, foreign, meCall, route, mounted, form, sec, debounce>>

\* The address bar, a reload, or a link between pages of the console.
Visit(r) ==
    /\ Load(r) /\ Drop
    /\ ServerSame /\ UNCHANGED <<store, foreign>>

Go(r) ==
    /\ mounted /\ store.tok # NoTok
    /\ store.scope = "" /\ r \in Guarded \ {route}
    /\ Navigate(r)
    /\ AcctSame /\ UNCHANGED <<store, foreign, me, meCall, form, debounce>>

DebounceEnds ==
    /\ debounce
    /\ debounce' = FALSE
    /\ AcctSame /\ UNCHANGED <<store, foreign, me, meCall, route, mounted, form, sec>>

\* An answer that changes nothing but the toast, or sends the tab to /login.
Refused(op) ==
    /\ Answered(op) /\ Taken /\ ServerSame
    /\ \/ Ans = "401" /\ redirectToLogin
       \/ Ans \in {"400", "403", "409"} /\ UNCHANGED conVars

-----------------------------------------------------------------------------
(* Login.tsx.                                                                 *)

LoggedIn ==
    /\ route = "login" /\ store.tok # NoTok
    /\ Navigate("home")
    /\ AcctSame /\ UNCHANGED <<store, foreign, me, meCall, form, debounce>>

LoginPage == route = "login" /\ store.tok = NoTok /\ Free

onCredentialsFinish ==
    /\ LoginPage
    /\ \E p \in 0 .. MaxPw : Request("login", [NoArg EXCEPT !.pw = p])
    /\ ServerSame /\ UNCHANGED conVars

onMfaFinish ==
    /\ LoginPage /\ form # NoForm
    /\ \E t \in Typed :
          Request("login", [NoArg EXCEPT !.pw = form.pw, !.tkt = form.tkt,
                                         !.kind = t.kind, !.code = t.code])
    /\ ServerSame /\ UNCHANGED conVars

\* Mutant: the login page forgets the flag of a forced password change.
MfaScopeOnly(tok) == IF tok.scope = "mfa" THEN "mfa" ELSE ""

\* The scope the login page stores for a token, from the flags of the answer.
LoginScope(tok) ==
    IF tok.scope = "pw" THEN "pw" ELSE IF tok.scope = "mfa" THEN "mfa" ELSE ""

doLogin ==
    /\ Answered("login") /\ Taken /\ ServerSame
    /\ LET tok == calls[browser].res
       IN  \/ /\ Ans = "token"
              /\ setAuth(tok, LoginScope(tok))
              /\ form' = NoForm
              /\ Navigate(IF tok.scope = "pw" THEN "cp"
                          ELSE IF tok.scope = "mfa" THEN "security" ELSE "home")
              /\ UNCHANGED <<me, meCall, debounce>>
           \/ /\ Ans = "ticket"
              /\ form' = [tkt |-> calls[browser].got, pw |-> calls[browser].arg.pw]
              /\ UNCHANGED <<store, foreign, me, meCall, route, mounted, sec, debounce>>

-----------------------------------------------------------------------------
(* ChangePassword.tsx, and the same form on the account security page.        *)

PwSubmit ==
    /\ route \in {"cp", "security"} /\ Free
    /\ \E p \in 0 .. MaxPw - 1 :
          Request("password", [NoArg EXCEPT !.pw = p, !.new = p + 1, !.kind = route])
    /\ ServerSame /\ UNCHANGED conVars

\* The page of the restricted session leaves it; the account page keeps a token
\* that the server has just revoked.
PwChanged ==
    /\ Answered("password") /\ Ans = "ok" /\ Taken /\ ServerSame
    /\ \/ /\ calls[browser].arg.kind = "cp"
          /\ clearAuth
          /\ Navigate("login")
       \/ /\ calls[browser].arg.kind = "security"
          /\ UNCHANGED <<store, foreign, route, mounted, sec>>
    /\ UNCHANGED <<me, meCall, form, debounce>>

-----------------------------------------------------------------------------
(* MainLayout.tsx: logout, and any page's requests.                           *)

handleLogout ==
    /\ mounted /\ Free
    /\ Request("logout", NoArg)
    /\ ServerSame /\ UNCHANGED conVars

\* Whatever the server says, the session is left; only a 401 reloads the page.
LoggedOut ==
    /\ Answered("logout") /\ Taken /\ ServerSame
    /\ \/ Ans = "401" /\ ~debounce /\ route # "login" /\ redirectToLogin
       \/ /\ Ans # "401" \/ debounce \/ route = "login"
          /\ clearAuth
          /\ Navigate("login")
          /\ UNCHANGED <<me, meCall, form, debounce>>

PageRequest ==
    /\ mounted /\ route = "home" /\ Free
    /\ Request("work", NoArg)
    /\ ServerSame /\ UNCHANGED conVars

PageAnswer == Answered("work") /\ Ans = "ok" /\ Taken /\ ServerSame /\ UNCHANGED conVars

-----------------------------------------------------------------------------
(* AccountSecurity.tsx.                                                       *)

\* The page comes up; its own query of ['auth-me'] is stale after 15 s.
SecurityMount ==
    /\ mounted /\ route = "security" /\ ~sec.on
    /\ Redirect(store.scope, route) = route
    /\ sec' = [NoSec EXCEPT !.on = TRUE]
    /\ Fetch(me = NoMe \/ me.age >= 1)
    /\ AcctSame /\ UNCHANGED <<store, foreign, me, route, mounted, form, debounce>>

StartSetup ==
    /\ sec.on /\ sec.secret = 0 /\ Free
    /\ made.secrets < MaxSecrets
    /\ Request("setup", NoArg)
    /\ ServerSame /\ UNCHANGED conVars

SetupShown ==
    /\ Answered("setup") /\ Ans = "ok" /\ Taken /\ ServerSame
    /\ sec' = IF sec.on THEN [sec EXCEPT !.secret = calls[browser].got] ELSE sec
    /\ UNCHANGED <<store, foreign, me, meCall, route, mounted, form, debounce>>

SubmitCode ==
    /\ sec.secret # 0 /\ sec.codes = 0 /\ Free
    /\ \E k \in {0, sec.secret} : Request("enable", [NoArg EXCEPT !.code = k])
    /\ ServerSame /\ UNCHANGED conVars

\* The token is switched before the recovery codes are shown.
Enabled ==
    /\ Answered("enable") /\ Ans = "token" /\ Taken /\ ServerSame
    /\ IF store.tok # NoTok THEN setAuth(calls[browser].res, "") ELSE UNCHANGED <<store, foreign>>
    /\ sec' = IF sec.on THEN [sec EXCEPT !.codes = calls[browser].got] ELSE sec
    /\ UNCHANGED <<me, meCall, route, mounted, form, debounce>>

SubmitUnbind ==
    /\ sec.on /\ Free
    /\ \E t \in Typed : Request("disable", [NoArg EXCEPT !.kind = t.kind, !.code = t.code])
    /\ ServerSame /\ UNCHANGED conVars

Unbound == Answered("disable") /\ Ans = "ok" /\ Taken /\ ServerSame /\ UNCHANGED conVars

-----------------------------------------------------------------------------
\* What the browser does by itself, and what a person does.
Reacts ==
    \/ GuardMount \/ Guard \/ MeServe \/ MeDeliver \/ LoggedIn \/ SecurityMount
    \/ doLogin \/ PwChanged \/ LoggedOut \/ PageAnswer \/ SetupShown \/ Enabled \/ Unbound
    \/ (\E op \in {"login", "password", "work", "setup", "enable", "disable"} : Refused(op))

Person ==
    \/ (\E r \in Pages : Visit(r)) \/ (\E r \in Pages : Go(r))
    \/ onCredentialsFinish \/ onMfaFinish \/ PwSubmit \/ handleLogout \/ PageRequest
    \/ StartSetup \/ SubmitCode \/ SubmitUnbind

\* The tab against the server and the other administrators.
TabNext ==
    \/ Serve(browser) /\ UNCHANGED conVars
    \/ Around /\ UNCHANGED conVars
    \/ Reacts \/ Person \/ MeAges \/ DebounceEnds

\* Devices that log in to the account, with ids in D.
DevicesNext(D) ==
    (Around \/ \E c \in D : Serve(c) \/ Device(c)) /\ UNCHANGED conVars

Next == TabNext \/ DevicesNext(Callers \ {browser})

Spec == ConInit /\ [][Next]_vars

-----------------------------------------------------------------------------
(* Properties.                                                                *)

\* A recovery code is accepted once, whichever logins and unbindings race for
\* it (mfa.go:109, "原子消费一个恢复码").
RecoveryOnce == \A k \in DOMAIN used : used[k] <= 1

\* At the threshold the account is locked as soon as the failing logins have
\* run to their end, however their statements interleave (auth.go:onLoginFail).
LockedAtThreshold ==
    user.failed >= LockAfter =>
        user.lock # "no" \/ \E c \in Callers : calls[c].pc \in {"read", "lock"}

\* The last used authenticator step goes back only to 0 and only as a secret is
\* bound, for the first time or by a set-up checked before the row was bound,
\* or as the row is unbound: a slower login does not restore an older step
\* (mfa.go:104-108, auth.go:326-375).
StepsRise ==
    [][user'.step < user.step =>
          /\ user'.step = 0
          /\ made'.binds > made.binds \/ (user.bound /\ ~user'.bound)]_user

\* A restricted session is kept on its guide page, over reloads too, unless
\* the scope in the store was another session's (App.tsx:RequireAuth).
Guided ==
    mounted /\ ~foreign /\ store.tok.scope \in {"mfa", "pw"} =>
        \/ Redirect(store.scope, route) # route
        \/ store.tok.scope = "mfa" /\ route = "security"

\* While the recovery codes are on the screen the token that came with them is
\* one the middleware accepts, unless it was revoked after it was signed
\* (AccountSecurity.tsx:78, auth.go:mfaEnable).
BoundSessionAccepted ==
    sec.codes # 0 /\ store.tok.at > user.cutoff => IssuedAt(store.tok) >= user.cutoff

=============================================================================
