------------------------------ MODULE Accounts ------------------------------
(* The account of one administrator on the server: login with a second       *)
(* factor, tickets, recovery codes, lockout, bearer tokens and their          *)
(* revocation (backend/internal/admin, backend/internal/auth).  Callers are   *)
(* the devices that call the API; calls[c] is the request device c has in     *)
(* flight.  A login is several statements long and interleaves with other     *)
(* calls; the handlers behind the token check are one step each.              *)
EXTENDS Integers

CONSTANTS
    Callers,     \* devices that use the account
    Second,      \* clock ticks in a second
    LockAfter,   \* failures that lock the account (5 in the code)
    NumCodes,    \* recovery codes of one binding
    MaxNow, MaxBinds, MaxTickets, MaxSlot, MaxAdmin, MaxPw, MaxFails, MaxSecrets   \* bounds

ASSUME AccountsAssumption ==
    /\ Second \in Nat \ {0}
    /\ LockAfter \in Nat \ {0}
    /\ NumCodes \in Nat
    /\ MaxBinds \in Nat

VARIABLES
    user,      \* the row of admin_users
    reqAll,    \* the setting mfa_required_for_all
    tickets,   \* login tickets handed out and not yet redeemed
    setup,     \* the TOTP secret of the binding in progress; 0 is none
    calls,     \* the request each caller has in flight
    now,       \* the clock; strictly later at every stamp
    slot,      \* the 30 second step of the authenticator
    made,      \* how many tickets, secrets and bindings there have been
    adm,       \* operations of other administrators so far
    used       \* history: how often each recovery code has been accepted

acctVars == <<user, reqAll, tickets, setup, calls, now, slot, made, adm, used>>

Scopes == {"", "mfa", "pw"}
NoTok == [at |-> 0, scope |-> "none"]
NoArg == [pw |-> 0, new |-> 0, tkt |-> 0, kind |-> "none", code |-> 0]
InitUser == [pw |-> 0, must |-> FALSE, bound |-> FALSE, required |-> FALSE,
             codes |-> {}, step |-> 0, cutoff |-> 0, failed |-> 0, lock |-> "no"]
\* snap is the row as the login loaded it, got the token, ticket, secret or
\* binding in the answer, lost says that the page that sent it is gone.
Idle == [op |-> "none", pc |-> "idle", tok |-> NoTok, arg |-> NoArg,
         snap |-> InitUser, ans |-> "none", res |-> NoTok, got |-> 0, lost |-> FALSE]
CodesOf(b) == (b - 1) * NumCodes + 1 .. b * NumCodes

\* The row with its flags, bound when there has been a binding.
FirstRow(m, r) == [InitUser EXCEPT !.must = m, !.required = r, !.bound = made.binds > 0,
                                   !.codes = IF made.binds > 0 THEN CodesOf(made.binds) ELSE {}]

\* An account with or without a second factor and its flags, with or without
\* other administrators at work.
AcctInit ==
    /\ made \in [tickets : {0}, secrets : {0}, binds : {0, MaxBinds}]
    /\ \E m \in BOOLEAN, r \in BOOLEAN : user = FirstRow(m, r)
    /\ reqAll = FALSE
    /\ tickets = {}
    /\ setup = 0
    /\ calls = [c \in Callers |-> Idle]
    /\ now \in 1 .. 2
    /\ slot \in {1, MaxSlot}
    /\ adm \in {0, MaxAdmin}
    /\ used = [k \in 1 .. NumCodes * MaxBinds |-> 0]

-----------------------------------------------------------------------------
(* Tokens.  Claims carry whole seconds, the row's cut-off is exact.           *)

IssuedAt(tok) == (tok.at \div Second) * Second
mfaRequiredFor(u) == reqAll \/ u.required
invalidateSessions(u, t) == [u EXCEPT !.cutoff = t]

PwPaths == {"me", "password", "logout"}
MfaPaths == {"me", "logout", "setup", "enable", "status", "disable"}

\* The status AuthMiddleware gives a request for path; "ok" lets it through.
AuthMiddleware(tok, path) ==
    CASE tok = NoTok \/ IssuedAt(tok) < user.cutoff -> "401"
      [] tok.scope = "pw" ->
            IF ~user.must THEN "401" ELSE IF path \in PwPaths THEN "ok" ELSE "403"
      [] tok.scope = "mfa" ->
            IF user.bound \/ ~mfaRequiredFor(user) THEN "401"
            ELSE IF path \in MfaPaths THEN "ok" ELSE "403"
      [] OTHER ->
            IF user.must \/ (~user.bound /\ mfaRequiredFor(user)) THEN "403" ELSE "ok"

\* The token issueLogin signs at time t for a user as loaded by the login.
issueLogin(u, t) ==
    [at |-> t,
     scope |-> IF u.must THEN "pw"
               ELSE IF ~u.bound /\ mfaRequiredFor(u) THEN "mfa" ELSE ""]

-----------------------------------------------------------------------------
(* A request and its answer.                                                  *)

Send(c, op, tok, arg) ==
    calls' = [calls EXCEPT ![c] =
        [Idle EXCEPT !.op = op, !.tok = tok, !.arg = arg, !.pc = "load"]]

\* The handler of c answers; nobody hears it when the page is gone.
Answer(c, ans, res, got) ==
    calls' = [calls EXCEPT ![c] =
        IF @.lost THEN Idle
        ELSE [@ EXCEPT !.pc = "done", !.ans = ans, !.res = res, !.got = got,
                         !.snap = InitUser, !.tok = NoTok]]

Refuse(c, status) == Answer(c, status, NoTok, 0)
\* The login has failed: what it carried is of no further use.
Fail(c) == calls' = [calls EXCEPT ![c] = [Idle EXCEPT !.op = "login", !.pc = "reset", !.lost = calls[c].lost]]
Goto(c, pc) == calls' = [calls EXCEPT ![c].pc = pc]
At(c, op, pc) == calls[c].op = op /\ calls[c].pc = pc

-----------------------------------------------------------------------------
(* POST /auth/login.                                                          *)

finishLoginOK(u) == [u EXCEPT !.failed = 0, !.lock = "no"]

\* The row and the settings are read, the password compared, the ticket peeked.
\* row is what the rest of the login still reads of it.
LoginLoad(c) ==
    LET a == calls[c].arg
        row == [user EXCEPT !.pw = 0, !.cutoff = 0, !.failed = 0, !.lock = "no"]
        Loaded(pc) == calls' = [calls EXCEPT ![c].snap = row, ![c].pc = pc]
    IN  /\ At(c, "login", "load")
        /\ \/ /\ a.pw # user.pw
              /\ Fail(c)
              /\ UNCHANGED <<user, tickets, made>>
           \/ /\ a.pw = user.pw
              /\ a.tkt # 0
              /\ IF a.tkt \in tickets THEN Loaded("factor") ELSE Refuse(c, "401")
              /\ UNCHANGED <<user, tickets, made>>
           \/ /\ a.pw = user.pw
              /\ a.tkt = 0
              /\ user.lock = "held"
              /\ Refuse(c, "403")
              /\ UNCHANGED <<user, tickets, made>>
           \/ /\ a.pw = user.pw
              /\ a.tkt = 0
              /\ user.lock # "held"
              /\ user' = IF user.lock = "past" THEN finishLoginOK(user) ELSE user
              /\ IF user.bound /\ a.kind = "none"
                   THEN /\ made.tickets < MaxTickets
                        /\ made' = [made EXCEPT !.tickets = @ + 1]
                        /\ tickets' = tickets \cup {made.tickets + 1}
                        /\ Answer(c, "ticket", NoTok, made.tickets + 1)
                   ELSE /\ Loaded(IF user.bound THEN "factor" ELSE "finish")
                        /\ UNCHANGED <<tickets, made>>
        /\ UNCHANGED <<reqAll, setup, now, slot, adm, used>>

\* verifyTOTP: a step of the window that is later than the last one used.
verifyTOTP(u, s) == u.bound /\ s \in slot - 1 .. slot + 1 /\ s > u.step

\* Mutant: the UPDATE without its condition on the stored step.
AlwaysPersist(u, s) == [u EXCEPT !.step = s]

persistTOTPStep(u, s) == IF u.step < s THEN [u EXCEPT !.step = s] ELSE u

\* Mutant: the list is written back without a look at what it is by now.
RecoveryUnchecked(snap, k) == k \in snap.codes

\* The compare-and-set fails when the stored list is not the loaded one.
consumeRecoveryCAS(snap, k) == k \in snap.codes /\ user.codes = snap.codes

\* The second factor; a recovery code is taken off the list as it was loaded.
LoginFactor(c) ==
    LET a == calls[c].arg
        s == calls[c].snap
    IN  /\ At(c, "login", "factor")
        /\ \/ /\ a.kind = "totp" /\ verifyTOTP(s, a.code)
              /\ user' = persistTOTPStep(user, a.code)
              /\ Goto(c, "finish")
              /\ UNCHANGED used
           \/ /\ a.kind = "rec" /\ consumeRecoveryCAS(s, a.code)
              /\ user' = [user EXCEPT !.codes = s.codes \ {a.code}]
              /\ used' = [used EXCEPT ![a.code] = @ + 1]
              /\ Goto(c, "finish")
           \/ /\ ~(a.kind = "totp" /\ verifyTOTP(s, a.code))
              /\ ~(a.kind = "rec" /\ consumeRecoveryCAS(s, a.code))
              /\ Fail(c)
              /\ UNCHANGED <<user, used>>
        /\ UNCHANGED <<reqAll, tickets, setup, now, slot, made, adm>>

\* The ticket is redeemed, the counters cleared, the session issued for the
\* row as it was loaded.
LoginFinish(c) ==
    /\ At(c, "login", "finish")
    /\ now < MaxNow
    /\ now' = now + 1
    /\ tickets' = tickets \ {calls[c].arg.tkt}
    /\ user' = finishLoginOK(user)
    /\ Answer(c, "token", issueLogin(calls[c].snap, now + 1), 0)
    /\ UNCHANGED <<reqAll, setup, slot, made, adm, used>>

\* onLoginFail, statement by statement: a lock that is over clears the count,
\* the count goes up, it is read back, and at the threshold the row is locked.
FailReset(c) ==
    /\ At(c, "login", "reset")
    /\ user' = IF user.lock = "past" THEN [user EXCEPT !.failed = 0] ELSE user
    /\ Goto(c, "count")
    /\ UNCHANGED <<reqAll, tickets, setup, now, slot, made, adm, used>>

FailCount(c) ==
    /\ At(c, "login", "count")
    /\ user.failed < MaxFails
    /\ user' = [user EXCEPT !.failed = @ + 1]
    /\ Goto(c, "read")
    /\ UNCHANGED <<reqAll, tickets, setup, now, slot, made, adm, used>>

\* Mutant: the count is compared for equality.
LocksAtExactly(c) ==
    /\ At(c, "login", "read")
    /\ IF user.failed = LockAfter THEN Goto(c, "lock") ELSE Refuse(c, "401")
    /\ UNCHANGED <<user, reqAll, tickets, setup, now, slot, made, adm, used>>

FailRead(c) ==
    /\ At(c, "login", "read")
    /\ IF user.failed >= LockAfter THEN Goto(c, "lock") ELSE Refuse(c, "401")
    /\ UNCHANGED <<user, reqAll, tickets, setup, now, slot, made, adm, used>>

FailLock(c) ==
    /\ At(c, "login", "lock")
    /\ user' = [user EXCEPT !.lock = "held"]
    /\ Refuse(c, "401")
    /\ UNCHANGED <<reqAll, tickets, setup, now, slot, made, adm, used>>

-----------------------------------------------------------------------------
(* Handlers behind the token check.                                           *)

Checked(c, op) == At(c, op, "load") /\ AuthMiddleware(calls[c].tok, op) = "ok"

\* The middleware refuses the request and the handler does not run.
Rejected(c) ==
    /\ calls[c].pc = "load" /\ calls[c].op # "login"
    /\ AuthMiddleware(calls[c].tok, calls[c].op) # "ok"
    /\ Refuse(c, AuthMiddleware(calls[c].tok, calls[c].op))
    /\ UNCHANGED <<user, reqAll, tickets, setup, now, slot, made, adm, used>>

logout(c) ==
    /\ Checked(c, "logout")
    /\ now < MaxNow
    /\ now' = now + 1
    /\ user' = invalidateSessions(user, now + 1)
    /\ Answer(c, "ok", NoTok, 0)
    /\ UNCHANGED <<reqAll, tickets, setup, slot, made, adm, used>>

\* A wrong old password is a 401 of its own, whatever the state of the session.
changePassword(c) ==
    LET a == calls[c].arg
    IN  /\ Checked(c, "password")
        /\ \/ /\ a.pw # user.pw
              /\ Refuse(c, "401")
              /\ UNCHANGED <<user, now>>
           \/ /\ a.pw = user.pw
              /\ now < MaxNow
              /\ now' = now + 1
              /\ user' = invalidateSessions([user EXCEPT !.pw = a.new, !.must = FALSE], now + 1)
              /\ Answer(c, "ok", NoTok, 0)
        /\ UNCHANGED <<reqAll, tickets, setup, slot, made, adm, used>>

\* The row is read, and nothing reads it again before the secret is stored.
mfaSetup(c) ==
    /\ Checked(c, "setup")
    /\ IF user.bound THEN Refuse(c, "409") ELSE Goto(c, "save")
    /\ UNCHANGED <<user, reqAll, tickets, setup, now, slot, made, adm, used>>

\* The secret replaces a pending one.
SaveSetupSecret(c) ==
    /\ At(c, "setup", "save")
    /\ made' = [made EXCEPT !.secrets = @ + 1]
    /\ setup' = made.secrets + 1
    /\ Answer(c, "ok", NoTok, made.secrets + 1)
    /\ UNCHANGED <<user, reqAll, tickets, now, slot, adm, used>>

\* The pending secret is taken whether or not the code fits it, and binds the
\* row whether or not it is bound.  On success the sessions are cut off first,
\* and the new token is signed after that.
mfaEnable(c) ==
    LET k == calls[c].arg.code
    IN  /\ Checked(c, "enable")
        /\ setup' = 0
        /\ \/ /\ k = 0 \/ k # setup
              /\ Refuse(c, IF setup = 0 THEN "400" ELSE "401")
              /\ UNCHANGED <<user, now, made>>
           \/ /\ k # 0 /\ k = setup
              /\ made.binds < MaxBinds /\ now + 1 < MaxNow
              /\ made' = [made EXCEPT !.binds = @ + 1]
              /\ now' = now + 2
              /\ user' = invalidateSessions(
                            [user EXCEPT !.bound = TRUE, !.step = 0,
                                         !.codes = CodesOf(made.binds + 1)], now + 1)
              /\ Answer(c, "token", [at |-> now + 2, scope |-> ""], made.binds + 1)
        /\ UNCHANGED <<reqAll, tickets, slot, adm, used>>

\* Only a code of the authenticator or an unused recovery code unbinds.
mfaDisable(c) ==
    LET a == calls[c].arg
        Unbound(u) == [u EXCEPT !.bound = FALSE, !.codes = {}]
    IN  /\ Checked(c, "disable")
        /\ \/ /\ ~user.bound
              /\ Refuse(c, "409")
              /\ UNCHANGED <<user, now, used>>
           \/ /\ user.bound
              /\ ~(a.kind = "totp" /\ verifyTOTP(user, a.code))
              /\ ~(a.kind = "rec" /\ a.code \in user.codes)
              /\ Refuse(c, "401")
              /\ UNCHANGED <<user, now, used>>
           \/ /\ user.bound /\ now < MaxNow
              /\ \/ /\ a.kind = "totp" /\ verifyTOTP(user, a.code)
                    /\ user' = invalidateSessions(
                                 Unbound(persistTOTPStep(user, a.code)), now + 1)
                    /\ UNCHANGED used
                 \/ /\ a.kind = "rec" /\ a.code \in user.codes
                    /\ user' = invalidateSessions(Unbound(user), now + 1)
                    /\ used' = [used EXCEPT ![a.code] = @ + 1]
              /\ now' = now + 1
              /\ Answer(c, "ok", NoTok, 0)
        /\ UNCHANGED <<reqAll, tickets, setup, slot, made, adm>>

\* Any other request of the console.
Served(c) ==
    /\ Checked(c, "work")
    /\ Answer(c, "ok", NoTok, 0)
    /\ UNCHANGED <<user, reqAll, tickets, setup, now, slot, made, adm, used>>

-----------------------------------------------------------------------------
(* Other administrators (settings/security and users.go), and time.          *)

Stamped(u) ==
    /\ adm < MaxAdmin /\ now < MaxNow
    /\ adm' = adm + 1
    /\ now' = now + 1
    /\ user' = invalidateSessions(u, now + 1)
    /\ UNCHANGED <<reqAll, tickets, setup, calls, slot, made, used>>

changeUserPassword ==
    \E force \in BOOLEAN :
        /\ user.pw < MaxPw
        /\ Stamped([finishLoginOK(user) EXCEPT !.pw = @ + 1, !.must = force])

unbindUserMfa ==
    /\ user.bound
    /\ Stamped([user EXCEPT !.bound = FALSE, !.codes = {}, !.step = 0, !.required = FALSE])

setUserMFARequired == \E on \in BOOLEAN : Stamped([user EXCEPT !.required = on])

unlockUser ==
    /\ adm < MaxAdmin
    /\ adm' = adm + 1
    /\ user' = finishLoginOK(user)
    /\ UNCHANGED <<reqAll, tickets, setup, calls, now, slot, made, used>>

\* Saving the security settings leaves every session as it is.
saveSecurity ==
    /\ adm < MaxAdmin
    /\ adm' = adm + 1
    /\ reqAll' = ~reqAll
    /\ UNCHANGED <<user, tickets, setup, calls, now, slot, made, used>>

Tick == now < MaxNow /\ now' = now + 1 /\ UNCHANGED <<user, reqAll, tickets, setup, calls, slot, made, adm, used>>
NextSlot == slot < MaxSlot /\ slot' = slot + 1 /\ UNCHANGED <<user, reqAll, tickets, setup, calls, now, made, adm, used>>

\* Fifteen minutes of a lock, or five of a ticket or a pending secret, are over.
LockEnds ==
    /\ user.lock = "held"
    /\ user' = [user EXCEPT !.lock = "past"]
    /\ UNCHANGED <<reqAll, tickets, setup, calls, now, slot, made, adm, used>>

Expire ==
    /\ \/ setup' = 0 /\ setup # 0 /\ UNCHANGED tickets
       \/ (\E t \in tickets : tickets' = tickets \ {t}) /\ UNCHANGED setup
    /\ UNCHANGED <<user, reqAll, calls, now, slot, made, adm, used>>

\* Every step of the server.
Serve(c) ==
    \/ LoginLoad(c) \/ LoginFactor(c) \/ LoginFinish(c)
    \/ FailReset(c) \/ FailCount(c) \/ FailRead(c) \/ FailLock(c)
    \/ Rejected(c) \/ logout(c) \/ changePassword(c)
    \/ mfaSetup(c) \/ SaveSetupSecret(c) \/ mfaEnable(c) \/ mfaDisable(c) \/ Served(c)

\* The codes a person can type: the authenticator's of this or the last step,
\* a recovery code of a binding there has been, or a mistyped one.
Typed ==
    {[kind |-> "totp", code |-> k] : k \in {slot - 1, slot}}
        \cup {[kind |-> "rec", code |-> k] : k \in 1 .. NumCodes * made.binds}
        \cup {[kind |-> "none", code |-> 0]}

\* What a device can send to log in.
Logins ==
    {[NoArg EXCEPT !.pw = user.pw, !.tkt = k, !.kind = t.kind, !.code = t.code] :
        k \in tickets \cup {0}, t \in Typed}
    \cup {[NoArg EXCEPT !.pw = p] : p \in 0 .. MaxPw}

\* A device that logs in, and with the token it got logs out or binds a second
\* factor by one of the secrets there have been.
Device(c) ==
    /\ \/ calls[c].pc = "idle" /\ \E a \in Logins : Send(c, "login", NoTok, a)
       \/ calls[c].pc = "done" /\ calls' = [calls EXCEPT ![c] = Idle]
       \/ /\ calls[c].pc = "done" /\ calls[c].res # NoTok
          /\ \/ Send(c, "logout", calls[c].res, NoArg)
             \/ made.secrets < MaxSecrets /\ Send(c, "setup", calls[c].res, NoArg)
             \/ \E k \in 1 .. made.secrets : Send(c, "enable", calls[c].res, [NoArg EXCEPT !.code = k])
    /\ UNCHANGED <<user, reqAll, tickets, setup, now, slot, made, adm, used>>

Around ==
    \/ changeUserPassword \/ unbindUserMfa \/ setUserMFARequired
    \/ unlockUser \/ saveSecurity
    \/ Tick \/ NextSlot \/ LockEnds \/ Expire

=============================================================================
