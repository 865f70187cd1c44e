------------------------------- MODULE Quota -------------------------------
(***************************************************************************)
(* Long-period quotas of the gateway: internal/quota/quota.go, with the    *)
(* administrative handlers of internal/admin/quota.go that write the same  *)
(* rows and the part of gateway.Handle that opens and closes a receipt.    *)
(*                                                                         *)
(* Every SQL statement is one atomic step; everything between two          *)
(* statements of a goroutine may interleave with the other requests, the   *)
(* minute job and the administrator.  A quota period is a length in clock  *)
(* ticks; NextReset is the end of the period that contains its argument.   *)
(***************************************************************************)
EXTENDS Integers, FiniteSets, Functions

CONSTANTS
    Requests,      \* gateway requests, one goroutine each
    NumQuotas,     \* quota rows have the ids 1..NumQuotas, in creation order
    Kind,          \* quota_type of a row: "requests" or "tokens"
    Period,        \* length of a row's period
    QuotaKey,      \* api_key_id of a row, or AnyKey (0 in the code)
    QuotaAlias,    \* model_alias of a row, or AnyAlias ("*" in the code)
    DegradeAlias,  \* degrade target of a row, or NoAlias (over_action = reject)
    Keys, Aliases, AnyKey, AnyAlias, NoAlias,
    ReqKey,        \* the API key of a request
    ReqAlias,      \* the model alias it asks for
    Allowed,       \* aliases its key may use and the snapshot knows
    Est,           \* its token estimate
    Usages,        \* token usages a finished call may report
    Limits,        \* limits an administrator may set
    InitLimit,     \* limit of the rows that exist at the start
    InitRows,      \* ids of the rows that exist at the start
    MaxNow,        \* bound on the clock
    MaxAdmin       \* bound on the number of administrative operations

Quotas == 1..NumQuotas

ASSUME QuotaAssumption ==
    /\ IsFiniteSet(Requests)
    /\ NumQuotas \in Nat
    /\ Kind \in [Quotas -> {"requests", "tokens"}]
    /\ Period \in [Quotas -> Nat \ {0}]
    /\ QuotaKey \in [Quotas -> Keys \cup {AnyKey}]
    /\ QuotaAlias \in [Quotas -> Aliases \cup {AnyAlias}]
    /\ DegradeAlias \in [Quotas -> Aliases \cup {NoAlias}]
    /\ ReqKey \in [Requests -> Keys]
    /\ ReqAlias \in [Requests -> Aliases]
    /\ Allowed \in [Requests -> SUBSET Aliases]
    /\ Est \in [Requests -> Nat \ {0}]
    /\ Usages \subseteq Nat
    /\ Limits \subseteq Nat \ {0}
    /\ InitLimit \in [Quotas -> Nat \ {0}]
    /\ InitRows \subseteq Quotas
    /\ MaxNow \in Nat
    /\ MaxAdmin \in Nat

VARIABLES
    now,      \* wall clock
    row,      \* the quotas table
    snap,     \* the runtime snapshot's quotas: which are enabled, their reset_at
    pc,       \* where each request is
    req,      \* its locals: snapshot, alias, time, loop set, receipt
    bg,       \* the minute job: its tick time, periods and rows still to do
    adm,      \* the administrator's handler between its read and its Save
    admOps,   \* administrative operations so far
    acct,     \* history: what each request has in a row since its last reset
    past      \* history: the period a row is in, and what it admitted before that reset

vars == <<now, row, snap, pc, req, bg, adm, admOps, acct, past>>

\* NextReset: the end of the period of length p that contains t.
NextReset(p, t) == ((t \div p) + 1) * p

\* matchQuotas: the enabled quotas of a snapshot that apply to a key and alias.
matchQuotas(s, key, alias) ==
    {q \in Quotas : /\ s[q].on
                    /\ QuotaKey[q] \in {AnyKey, key}
                    /\ QuotaAlias[q] \in {AnyAlias, alias}}

\* What Reserve charges request r on quota q.
Amount(q, r) == IF Kind[q] = "requests" THEN 1 ELSE Est[r]

\* The loops over matched quotas and receipt items run in creation order.
First(S, q) == q \in S /\ \A p \in S : q <= p

\* Mutant: the CASE WHEN ... < 0 THEN 0 of the corrections is dropped.
NoFloor(n) == n

Floor0(n) == IF n < 0 THEN 0 ELSE n

\* A row is absent until createQuota, live, then deleted by deleteQuota.
Live(q) == row[q].state = "live"

\* What Reload puts into the snapshot: the enabled rows and their reset_at.
Snapshot == [q \in Quotas |-> [on |-> Live(q) /\ row[q].enabled,
                               resetAt |-> row[q].resetAt]]

Row == [state: {"absent", "live", "deleted"}, enabled: BOOLEAN,
        limit: Nat \ {0}, used: Nat, resetAt: Nat]

NewRow(q, t, lim, on, st) == [state |-> st, enabled |-> on, limit |-> lim,
                              used |-> 0, resetAt |-> NextReset(Period[q], t)]

NoOp == [op |-> "none", q |-> 0, limit |-> 1, enabled |-> FALSE,
         copy |-> [state |-> "absent", enabled |-> FALSE, limit |-> 1,
                   used |-> 0, resetAt |-> 0]]
NoLocals == [snap |-> [q \in Quotas |-> [on |-> FALSE, resetAt |-> 0]],
             degraded |-> FALSE, at |-> 0, todo |-> {}, items |-> {},
             closed |-> FALSE, over |-> 0, actual |-> 0, settled |-> FALSE]
IdleJob == [at |-> 0, periods |-> {}, rows |-> {}]

\* History of a row since its last reset: who charged it (since), what each
\* request has in it (by), what refunds of charges made before that reset took
\* out of it (stray), and whether updateQuota overwrote it (edited).
CleanAcct == [since |-> {}, by |-> [r \in Requests |-> 0],
              stray |-> 0, edited |-> FALSE]

\* History of the period a row is in: when it ends, and, if the row has been reset
\* again into the same period, how often, whether by the job, and what requests
\* kept and stray refunds took out before.
NewPeriod(end) == [end |-> end, kept |-> 0, strays |-> 0, repeats |-> 0, byJob |-> FALSE]

\* Request r charges a row for the first time since its reset.
Entered(a, r) == [a EXCEPT !.since = @ \cup {r}]

\* History of a correction d of what request r has in a row.  A charge made
\* before the row's last reset is no longer in used_value, so that taking it back
\* is a stray refund, and raising it a charge of the new period.
Correct(a, r, d) ==
    IF r \in a.since \/ d > 0 THEN [a EXCEPT !.by[r] = @ + d]
                             ELSE [a EXCEPT !.stray = @ - d]

-----------------------------------------------------------------------------
Init ==
    /\ now = 0
    /\ row = [q \in Quotas |-> NewRow(q, 0, InitLimit[q], TRUE,
                                      IF q \in InitRows THEN "live" ELSE "absent")]
    /\ snap = Snapshot
    /\ pc = [r \in Requests |-> "arrived"]
    /\ req = [r \in Requests |-> NoLocals]
    /\ bg = IdleJob
    /\ adm = NoOp
    /\ admOps = 0
    /\ acct = [q \in Quotas |-> CleanAcct]
    /\ past = [q \in Quotas |-> NewPeriod(row[q].resetAt)]

Goto(r, l) == pc' = [pc EXCEPT ![r] = l]

\* Requests with a charge in quota q since the row's last reset.
Charged(q) == {r \in Requests : acct[q].by[r] > 0}

\* The history of a reset: a new period (of a row that an administrator's Save has
\* overwritten, always), or the same period again.
Renew(q, end, job) ==
    LET p == past[q]
    IN  past' = [past EXCEPT ![q] =
                     IF acct[q].edited \/ end > p.end THEN NewPeriod(end)
                     ELSE [end |-> p.end, kept |-> p.kept + Cardinality(Charged(q)),
                           strays |-> p.strays + acct[q].stray,
                           repeats |-> p.repeats + 1, byJob |-> p.byJob \/ job]]

\* UPDATE ... SET used_value = 0, reset_at = NextReset(period, t).
ResetRow(q, t, job) ==
    /\ row' = [row EXCEPT ![q].used = 0,
                          ![q].resetAt = NextReset(Period[q], t)]
    /\ acct' = [acct EXCEPT ![q] = CleanAcct]
    /\ Renew(q, NextReset(Period[q], t), job)

-----------------------------------------------------------------------------
(* Reserve *)

\* Handle reads the snapshot and calls Reserve with the request's own alias.
BeginReserve(r) ==
    /\ pc[r] = "arrived"
    /\ req' = [req EXCEPT ![r].snap = snap, ![r].at = now,
                          ![r].todo = matchQuotas(snap, ReqKey[r], ReqAlias[r])]
    /\ Goto(r, "reserve")
    /\ UNCHANGED <<now, row, snap, bg, adm, admOps, acct, past>>

\* Mutant: the lazy reset does not look at the row's reset_at.
LazyResetAlways(r, q) ==
    /\ pc[r] = "reserve"
    /\ First(req[r].todo, q)
    /\ req[r].at > req[r].snap[q].resetAt
    /\ IF Live(q) THEN ResetRow(q, req[r].at, FALSE) ELSE UNCHANGED <<row, acct, past>>
    /\ Goto(r, "charge")
    /\ UNCHANGED <<now, snap, req, bg, adm, admOps>>

\* The lazy reset of the loop's current quota, tried when the snapshot's
\* reset_at has passed and effective when the row's has.
LazyReset(r, q) ==
    /\ pc[r] = "reserve"
    /\ First(req[r].todo, q)
    /\ req[r].at > req[r].snap[q].resetAt
    /\ IF Live(q) /\ row[q].resetAt <= req[r].at
       THEN ResetRow(q, req[r].at, FALSE)
       ELSE UNCHANGED <<row, acct, past>>
    /\ Goto(r, "charge")
    /\ UNCHANGED <<now, snap, req, bg, adm, admOps>>

AtCharge(r, q) ==
    /\ First(req[r].todo, q)
    /\ \/ pc[r] = "charge"
       \/ pc[r] = "reserve" /\ req[r].at <= req[r].snap[q].resetAt

\* Mutant: an unconditional increment, as Consume does it.
AlwaysChargeable(r, q) == Live(q) /\ row[q].enabled

\* The WHERE clause of the conditional increment.
Chargeable(r, q) ==
    /\ Live(q)
    /\ row[q].enabled
    /\ row[q].used + Amount(q, r) <= row[q].limit

\* The increment touched the row: remember it on the receipt, next quota.
Charge(r, q) ==
    /\ AtCharge(r, q)
    /\ Chargeable(r, q)
    /\ row' = [row EXCEPT ![q].used = @ + Amount(q, r)]
    /\ acct' = [acct EXCEPT ![q] = Correct(Entered(@, r), r, Amount(q, r))]
    /\ req' = [req EXCEPT ![r].items = @ \cup {q}, ![r].todo = @ \ {q}]
    /\ Goto(r, "reserve")
    /\ UNCHANGED <<now, snap, bg, adm, admOps, past>>

\* No row affected, or the statement failed (a locked database): Release what
\* this call has charged so far and report the quota as exceeded.
ChargeRefused(r, q) ==
    /\ AtCharge(r, q)
    /\ req' = [req EXCEPT ![r].over = q, ![r].todo = req[r].items, ![r].closed = TRUE]
    /\ Goto(r, "rollback")
    /\ UNCHANGED <<now, row, snap, bg, adm, admOps, acct, past>>

\* All matching quotas are charged: Handle keeps the receipt in ap.res.
Reserved(r) ==
    /\ pc[r] = "reserve"
    /\ req[r].todo = {}
    /\ Goto(r, "held")
    /\ UNCHANGED <<now, row, snap, req, bg, adm, admOps, acct, past>>

-----------------------------------------------------------------------------
(* Release and Settle *)

\* Mutant: only refunds reach the row, an under-estimate is never made good.
RefundsOnly(r, q, d) ==
    IF Live(q)
    THEN /\ row' = IF d > 0 THEN row ELSE [row EXCEPT ![q].used = Floor0(@ + d)]
         /\ acct' = [acct EXCEPT ![q] = Correct(@, r, d)]
    ELSE UNCHANGED <<row, acct>>

\* UPDATE ... SET used_value = used_value + d, floored at 0.
AddUsed(r, q, d) ==
    IF Live(q)
    THEN /\ row' = [row EXCEPT ![q].used = Floor0(@ + d)]
         /\ acct' = [acct EXCEPT ![q] = Correct(@, r, d)]
    ELSE UNCHANGED <<row, acct>>

ReleaseItem(r, q) ==
    /\ pc[r] \in {"rollback", "release"}
    /\ First(req[r].todo, q)
    /\ AddUsed(r, q, -Amount(q, r))
    /\ req' = [req EXCEPT ![r].todo = @ \ {q}]
    /\ UNCHANGED <<now, snap, pc, bg, adm, admOps, past>>

CanDegrade(r) ==
    /\ ~req[r].degraded
    /\ DegradeAlias[req[r].over] \in Allowed[r]

\* Handle after a refused Reserve: one more Reserve with the degrade alias.
Degrade(r) ==
    /\ pc[r] = "rollback"
    /\ req[r].todo = {}
    /\ CanDegrade(r)
    /\ LET a == DegradeAlias[req[r].over]
       IN req' = [req EXCEPT ![r].degraded = TRUE, ![r].at = now, ![r].items = {},
                             ![r].closed = FALSE,
                             ![r].todo = matchQuotas(req[r].snap, ReqKey[r], a)]
    /\ Goto(r, "reserve")
    /\ UNCHANGED <<now, row, snap, bg, adm, admOps, acct, past>>

\* Otherwise 429 quota_exceeded; ap.res is nil and the deferred Release idle.
Reject(r) ==
    /\ pc[r] = "rollback"
    /\ req[r].todo = {}
    /\ ~CanDegrade(r)
    /\ req' = [req EXCEPT ![r].items = {}]
    /\ Goto(r, "done")
    /\ UNCHANGED <<now, row, snap, bg, adm, admOps, acct, past>>

\* Mutant: Settle corrects the request rows too.
SettleEveryItem(r, n) ==
    /\ pc[r] = "held"
    /\ ~req[r].closed
    /\ req' = [req EXCEPT ![r].closed = TRUE, ![r].actual = n, ![r].settled = TRUE,
                          ![r].todo = req[r].items]
    /\ Goto(r, "settle")
    /\ UNCHANGED <<now, row, snap, bg, adm, admOps, acct, past>>

\* The upstream call ended with a usage: Settle closes the receipt ...
Settle(r, n) ==
    /\ pc[r] = "held"
    /\ ~req[r].closed
    /\ req' = [req EXCEPT ![r].closed = TRUE, ![r].actual = n, ![r].settled = TRUE,
                          ![r].todo = {q \in req[r].items : Kind[q] = "tokens"}]
    /\ Goto(r, "settle")
    /\ UNCHANGED <<now, row, snap, bg, adm, admOps, acct, past>>

\* ... and corrects each token row by the difference to the estimate.
SettleItem(r, q) ==
    LET delta == req[r].actual - Amount(q, r)
    IN  /\ pc[r] = "settle"
        /\ First(req[r].todo, q)
        /\ IF delta # 0 THEN AddUsed(r, q, delta) ELSE UNCHANGED <<row, acct>>
        /\ req' = [req EXCEPT ![r].todo = @ \ {q}]
        /\ UNCHANGED <<now, snap, pc, bg, adm, admOps, past>>

\* Mutant: Release does not look at closed.
ReleaseTwice(r) ==
    /\ \/ pc[r] = "held"
       \/ pc[r] = "settle" /\ req[r].todo = {}
    /\ req' = [req EXCEPT ![r].closed = TRUE, ![r].todo = req[r].items]
    /\ Goto(r, "release")
    /\ UNCHANGED <<now, row, snap, bg, adm, admOps, acct, past>>

\* Handle returns: the deferred Release refunds the receipt unless closed.
DeferredRelease(r) ==
    /\ \/ pc[r] = "held"
       \/ pc[r] = "settle" /\ req[r].todo = {}
    /\ IF req[r].closed
       THEN Goto(r, "done") /\ UNCHANGED req
       ELSE /\ req' = [req EXCEPT ![r].closed = TRUE, ![r].todo = req[r].items]
            /\ Goto(r, "release")
    /\ UNCHANGED <<now, row, snap, bg, adm, admOps, acct, past>>

Released(r) ==
    /\ pc[r] = "release"
    /\ req[r].todo = {}
    /\ Goto(r, "done")
    /\ UNCHANGED <<now, row, snap, req, bg, adm, admOps, acct, past>>

-----------------------------------------------------------------------------
(* The minute job of StartBackground *)

\* The ticker fires: its time is the job's now for the whole round.
JobTick ==
    /\ bg = IdleJob
    /\ bg' = [at |-> now, periods |-> {Period[q] : q \in Quotas}, rows |-> {}]
    /\ UNCHANGED <<now, row, snap, pc, req, adm, admOps, acct, past>>

\* SELECT the expired rows of the next period ...
JobSelect(p) ==
    /\ First(bg.periods, p)
    /\ bg.rows = {}
    /\ bg' = [bg EXCEPT !.periods = @ \ {p},
                        !.rows = {q \in Quotas : /\ Live(q)
                                                 /\ Period[q] = p
                                                 /\ row[q].resetAt <= bg.at}]
    /\ UNCHANGED <<now, row, snap, pc, req, adm, admOps, acct, past>>

\* ... and reset each of them by id, whatever has happened to it since.
JobReset(q) ==
    /\ First(bg.rows, q)
    /\ IF Live(q) THEN ResetRow(q, bg.at, TRUE) ELSE UNCHANGED <<row, acct, past>>
    /\ bg' = [bg EXCEPT !.rows = @ \ {q}]
    /\ UNCHANGED <<now, snap, pc, req, adm, admOps>>

JobDone ==
    /\ bg # IdleJob
    /\ bg.periods = {}
    /\ bg.rows = {}
    /\ bg' = IdleJob
    /\ UNCHANGED <<now, row, snap, pc, req, adm, admOps, acct, past>>

-----------------------------------------------------------------------------
(* Administration *)

\* updateQuota and resetQuota read the whole row first.
AdminRead(q, op, lim, on) ==
    /\ adm.op = "none"
    /\ admOps < MaxAdmin
    /\ Live(q)
    /\ adm' = [op |-> op, q |-> q, copy |-> row[q], limit |-> lim, enabled |-> on]
    /\ admOps' = admOps + 1
    /\ UNCHANGED <<now, row, snap, pc, req, bg, acct, past>>

\* updateQuota saves the whole row it read, used_value and reset_at included.
UpdateSave ==
    /\ adm.op = "update"
    /\ row' = [row EXCEPT ![adm.q] = [adm.copy EXCEPT !.limit = adm.limit,
                                                      !.enabled = adm.enabled]]
    /\ acct' = [acct EXCEPT ![adm.q].edited = TRUE]
    /\ adm' = NoOp
    /\ UNCHANGED <<now, snap, pc, req, bg, admOps, past>>

\* resetQuota saves it with used_value 0 and a new reset_at.
ResetSave ==
    /\ adm.op = "reset"
    /\ row' = [row EXCEPT ![adm.q] =
                   [adm.copy EXCEPT !.used = 0,
                                    !.resetAt = NextReset(Period[adm.q], now)]]
    /\ acct' = [acct EXCEPT ![adm.q] = CleanAcct]
    /\ past' = [past EXCEPT ![adm.q] = NewPeriod(NextReset(Period[adm.q], now))]
    /\ adm' = NoOp
    /\ UNCHANGED <<now, snap, pc, req, bg, admOps>>

\* createQuota, and each item of batchQuotas: a fresh id, a fresh period.
CreateQuota(q, lim, on) ==
    /\ adm.op = "none"
    /\ admOps < MaxAdmin
    /\ row[q].state = "absent"
    /\ row' = [row EXCEPT ![q] = NewRow(q, now, lim, on, "live")]
    /\ acct' = [acct EXCEPT ![q] = CleanAcct]
    /\ past' = [past EXCEPT ![q] = NewPeriod(NextReset(Period[q], now))]
    /\ admOps' = admOps + 1
    /\ UNCHANGED <<now, snap, pc, req, bg, adm>>

\* deleteQuota; ids are never used again.
DeleteQuota(q) ==
    /\ adm.op = "none"
    /\ admOps < MaxAdmin
    /\ Live(q)
    /\ row' = [row EXCEPT ![q].state = "deleted"]
    /\ admOps' = admOps + 1
    /\ UNCHANGED <<now, snap, pc, req, bg, adm, acct, past>>

-----------------------------------------------------------------------------
(* Environment: the configuration manager's reload, the clock, a crash *)

Reload ==
    /\ snap' = Snapshot
    /\ UNCHANGED <<now, row, pc, req, bg, adm, admOps, acct, past>>

Tick ==
    /\ now < MaxNow
    /\ now' = now + 1
    /\ UNCHANGED <<row, snap, pc, req, bg, adm, admOps, acct, past>>

Finished == {"done", "lost"}
InFlight(r) == pc[r] \notin Finished \cup {"arrived"}

\* The process dies and restarts: receipts, the job and open handlers are gone,
\* the table stays as it is.
Crash ==
    /\ pc' = [r \in Requests |-> IF InFlight(r) THEN "lost" ELSE pc[r]]
    /\ req' = [r \in Requests |-> IF InFlight(r) THEN NoLocals ELSE req[r]]
    /\ bg' = IdleJob
    /\ adm' = NoOp
    /\ snap' = Snapshot
    /\ UNCHANGED <<now, row, admOps, acct, past>>

\* Steps of one request.
RequestStep(r) ==
    \/ BeginReserve(r)
    \/ Reserved(r)
    \/ Degrade(r)
    \/ Reject(r)
    \/ DeferredRelease(r)
    \/ Released(r)
    \/ \E n \in Usages : Settle(r, n)
    \/ \E q \in Quotas : \/ LazyReset(r, q)
                         \/ Charge(r, q)
                         \/ ChargeRefused(r, q)
                         \/ ReleaseItem(r, q)
                         \/ SettleItem(r, q)

JobStep ==
    \/ JobTick
    \/ \E p \in bg.periods : JobSelect(p)
    \/ \E q \in Quotas : JobReset(q)
    \/ JobDone

AdminStep ==
    \/ \E q \in Quotas, lim \in Limits, on \in BOOLEAN :
         \/ AdminRead(q, "update", lim, on)
         \/ CreateQuota(q, lim, on)
    \/ \E q \in Quotas : \/ AdminRead(q, "reset", 1, TRUE)
                         \/ DeleteQuota(q)
    \/ UpdateSave
    \/ ResetSave

Next ==
    \/ \E r \in Requests : RequestStep(r)
    \/ JobStep
    \/ AdminStep
    \/ Reload
    \/ Tick
    \/ Crash

Spec == Init /\ [][Next]_vars

-----------------------------------------------------------------------------
(* Properties *)

Labels == {"arrived", "reserve", "charge", "rollback", "held", "settle",
           "release"} \cup Finished

SnapRow == [on: BOOLEAN, resetAt: Nat]
Locals == [snap: [Quotas -> SnapRow], degraded: BOOLEAN, at: Nat,
           todo: SUBSET Quotas, items: SUBSET Quotas, closed: BOOLEAN,
           over: 0..NumQuotas, actual: Nat, settled: BOOLEAN]
Operation == [op: {"none", "update", "reset"}, q: 0..NumQuotas, copy: Row,
              limit: Nat \ {0}, enabled: BOOLEAN]
Account == [since: SUBSET Requests, by: [Requests -> Int],
            stray: Nat, edited: BOOLEAN]
PeriodHistory == [end: Nat, kept: Nat, strays: Nat, repeats: Nat, byJob: BOOLEAN]

\* Type invariant.
TypeOK ==
    /\ now \in Nat
    /\ row \in [Quotas -> Row]
    /\ snap \in [Quotas -> SnapRow]
    /\ pc \in [Requests -> Labels]
    /\ req \in [Requests -> Locals]
    /\ bg \in [at: Nat, periods: SUBSET Nat, rows: SUBSET Quotas]
    /\ adm \in Operation
    /\ admOps \in Nat
    /\ acct \in [Quotas -> Account]
    /\ past \in [Quotas -> PeriodHistory]

\* used_value of a "requests" row never counts a request that is not there,
\* and misses at most as many as refunds of earlier periods took out of it:
\* interleaved Reserve, rollback, Settle and deferred Release neither leak nor
\* double a count (until an administrator's Save has overwritten the row).
RequestsAccounted ==
    \A q \in Quotas :
        Kind[q] = "requests" /\ ~acct[q].edited =>
            /\ row[q].used <= Cardinality(Charged(q))
            /\ Cardinality(Charged(q)) <= row[q].used + acct[q].stray

\* The limit holds for what was really admitted: in one period of a "requests"
\* row, however often it is reset, at most limit requests keep a charge, plus the
\* stray refunds, and one limit more for each reset into the same period.  None
\* is, as long as the job has not reset a row that was no longer expired: the
\* lazy resets of any number of requests open one period (quota.go:225-229).
PeriodCap ==
    \A q \in Quotas :
        Kind[q] = "requests" /\ ~acct[q].edited =>
            /\ past[q].kept + Cardinality(Charged(q))
                   <= row[q].limit * (1 + past[q].repeats) + past[q].strays + acct[q].stray
            /\ past[q].repeats > 0 => past[q].byJob

\* used_value of a token row is the sum of what the requests have in it, up to
\* the refunds of charges made before the last reset.
TokensAccounted ==
    \A q \in Quotas :
        Kind[q] = "tokens" /\ ~acct[q].edited =>
            LET total == SumFunction(acct[q].by)
            IN  row[q].used <= total /\ total <= row[q].used + acct[q].stray

\* What a finished request leaves in a row it charged since the row's reset: a
\* settled one its request count or its real usage, exactly once; a refused or
\* failed one nothing, whichever of its quotas refused it and whether or not it
\* went on to a degrade alias.
FinalCharge ==
    \A r \in Requests, q \in Quotas :
        pc[r] = "done" /\ Live(q) /\ r \in acct[q].since =>
            acct[q].by[r] = IF ~req[r].settled \/ q \notin req[r].items THEN 0
                            ELSE IF Kind[q] = "requests" THEN 1
                            ELSE req[r].actual

-----------------------------------------------------------------------------
(* The inductive invariant behind RequestsAccounted, PeriodCap, FinalCharge *)

\* The receipt of r still stands for a charge on q.
Outstanding(r, q) ==
    /\ q \in req[r].items
    /\ pc[r] \in {"rollback", "release"} => q \in req[r].todo
    /\ pc[r] = "done" => req[r].settled

\* What that charge amounts to: the estimate until Settle corrected it.
Share(r, q) ==
    IF Kind[q] = "tokens" /\ req[r].settled /\ ~(pc[r] = "settle" /\ q \in req[r].todo)
    THEN req[r].actual ELSE Amount(q, r)

\* How a request's label, loop set and receipt go together.
Control(r) ==
    /\ pc[r] = "arrived" => req[r].items = {}
    /\ pc[r] \in {"arrived", "reserve", "charge", "held"} => ~req[r].closed
    /\ pc[r] \in {"reserve", "charge"} => req[r].todo \cap req[r].items = {}
    /\ pc[r] \in {"rollback", "release", "settle"} => req[r].todo \subseteq req[r].items
    /\ pc[r] = "settle" => /\ \A q \in req[r].todo : Kind[q] = "tokens"
                          /\ req[r].closed
    /\ pc[r] = "settle" <=> req[r].settled /\ pc[r] # "done"

\* updateQuota's Save finds the row it read still there.
AdminInv == adm.op = "update" => adm.q \in Quotas /\ Live(adm.q)

\* What a live row holds of a request is what the request's receipt stands for.
ShareOf(r, q) ==
    Live(q) /\ pc[r] # "lost" =>
        /\ r \in acct[q].since =>
               acct[q].by[r] = IF Outstanding(r, q) THEN Share(r, q) ELSE 0
        /\ r \notin acct[q].since /\ (Kind[q] = "requests" \/ pc[r] \notin {"settle", "done"})
               => acct[q].by[r] = 0

\* The counter of a "requests" row against the requests charged in it.
Counter(q) ==
    Kind[q] = "requests" /\ ~acct[q].edited =>
        /\ row[q].used <= Cardinality(Charged(q))
        /\ Cardinality(Charged(q)) <= row[q].used + acct[q].stray
        /\ row[q].used <= row[q].limit

\* used_value against the sum of what the requests have in the row.
Balance(q) ==
    /\ \A r \in Requests : acct[q].by[r] >= 0
    /\ ~acct[q].edited => /\ row[q].used <= SumFunctionOnSet(acct[q].by, Requests)
                          /\ SumFunctionOnSet(acct[q].by, Requests) <= row[q].used + acct[q].stray

\* The period a row is in against what it has admitted there.
Periodic(q) ==
    ~acct[q].edited =>
        /\ ~past[q].byJob => past[q].repeats = 0 /\ (Live(q) => row[q].resetAt = past[q].end)
        /\ Kind[q] = "requests" =>
              past[q].kept <= row[q].limit * past[q].repeats + past[q].strays

\* The inductive invariant: every receipt, row and handler is in step.
IndInv ==
    /\ \A r \in Requests : Control(r)
    /\ AdminInv
    /\ \A r \in Requests, q \in Quotas : ShareOf(r, q)
    /\ \A q \in Quotas : Counter(q)
    /\ \A q \in Quotas : Periodic(q)

=============================================================================
