# LLM Router Guard: specifications, model checking and proofs

This directory holds TLA+ models of LLM Router Guard, the gateway
(`src/backend`) and its web console (`src/frontend`), the TLC configurations
that check them on small instances, and TLAPS proofs of the results that hold
for every instance. `PROJECT.json` lists the runs, the source lines each
definition models, the mutants that show each property can fail, the findings,
the hazards and the theorems.

Contents: [1 The system](#1-the-system) · [2 Plan](#2-plan) ·
[3 The modules](#3-the-modules-and-the-code) · [4 Runs](#4-runs-and-what-they-show) ·
[5 Proofs](#5-proofs) · [6 Findings](#6-findings) ·
[7 Not modelled](#7-what-is-not-modelled)

## 1 The system

A gateway between clients of LLM APIs and their providers, with a single-page
console for its administrators. The gateway runs as one process or as several
instances that share a database and a Redis server. Its parts, the state each
keeps, and what makes it correct:

| Part | State | Operations | Must hold |
|---|---|---|---|
| Quota manager `internal/quota/quota.go`, handlers `internal/admin/quota.go` | rows `used_value`, `reset_at`, `limit` in the database; a receipt per request | Reserve, Settle, Release, minute job, create/update/reset/delete/batch | no period admits more than its limit; nothing is charged or refunded twice |
| Rate limiter `quota.go`, `redis_limiter.go` | windows in memory and in Redis, hit counts, degraded flag | Allow, FlushHits, watchRecovery | bounded requests in any window's length; refusals counted once, which holds without Redis only |
| Gateway `internal/gateway/gateway.go` | connection counters (global, per key), call parameters | AuthMiddleware, acquireConn, Handle, forward, forwardBuffered, forwardStream, deferred calls | slots neither leak nor are freed twice; one response; receipt closed the right way |
| Circuit breaker `internal/slb/slb.go` | per provider: failures, open until, cached remote state; Redis key; redisDown | healthy, RecordSuccess, RecordFailure, publish, clear, watchRedis | instances agree on open circuits; degradation ends |
| Load balancer `slb.go`, `swrr_remote.go` | cursor per alias in memory and in Redis | Pick, PickIgnoringCircuit, swrrRemote | shares follow weights; no starvation |
| Health checker `internal/health` | none | probe every provider | outcome reaches the breaker |
| Configuration runtime `internal/runtime` | snapshot pointer, counter, versions | Bump, Trigger, Reload, restore, rollback | a change becomes visible in every instance |
| Audit log and live stream `internal/audit`, `admin/auditws.go` | queue, batch, subscribers, drop counter | Write, writerLoop, flush, publish, one connection from handshake to end | no row lost in silence; writers never blocked; a gap is counted |
| Administrator accounts `internal/admin` (auth, mfa, users, middleware), `internal/auth` | failed logins, lock, tickets, last one-time step, recovery codes, session cut-off | login, MFA set-up and removal, password change, operations of other administrators | lockout, single use, revocation |
| Console session `store/auth.ts`, `api/client.ts`, `App.tsx` | persisted token and scope, cached `/auth/me`, redirect debounce | login, 401 handling, RequireAuth, reload, logout | a restricted session stays on its guide page |
| Console table pages (ten: providers, models, keywords, PII, injection, quotas, rate limits, API keys, users, backups) | cached list, dialog, requests in flight | open, type, save, switch, delete, page dialogs | no value reaches another row; the list catches up |
| Console settings forms (failover, output filter, alerts, general, security) | query, form, save in flight | fill, type, save | a save changes only what was typed |
| Console live card and configuration status | list, pause, reconnection; polled view | pause, resume, clear, reload and rollback buttons | the card shows what was broadcast; the view catches up |
| Metrics `internal/metrics` | buckets per label, connection count, recent errors | Observe, QPS, TryAdmitConn | counts and bounds of labels |
| Adapters, guard engine, crypto, reports, login rate limiter, set-up | none of their own, or a window per address | conversions, pattern matching, queries | section 7 |

Interaction. A request passes the gateway's admission, the guard, the rate
limiter and the quotas, then the balancer and one or more upstreams; its end
settles the receipt, reports to the breaker, and writes audit and metrics. All
of them read one immutable snapshot that the runtime replaces. The minute job
and the administrator write the quota rows that requests charge. Instances meet
only in the database and in Redis. The console meets the server only over HTTP
and one WebSocket: every page keeps cached answers, and each handler that
changes the configuration ends in a Bump and a Trigger of the runtime.

Hard behaviours: SQL statements of requests, job and administrator interleave;
receipts outlive the period they were charged in; critical sections are split
around network calls; a Redis command can take effect and its answer be lost;
instances fall back to private state and return; snapshots of different age are
used side by side; one record holds counter and versions of the configuration
and several writers save it whole; a login is several statements long; a crash
leaves charges and queued rows behind; streams have no timeout; in the console,
answers arrive late, get lost, belong to an earlier session or an earlier
dialog, and a cached row is sent back whole. The list, line by line, is under
`hazards` in `PROJECT.json`.

## 2 Plan

Most important first. All of these are done:

1. `Quota`, the accounting that costs money, with proofs.
2. `Admission` (abstract) and `Gateway`, which implements it, with proofs.
3. `Breaker`, with proofs.
4. `Swrr`, the cursors that the gateway's attempts and the breakers drive, with
   a proof.
5. `RateLimit`, with proofs.
6. `ConfigRuntime`, the hot reload in several instances, with proofs, composed
   with `StatusPage`.
7. `LiveAudit`, the call log composed with the live card that reads it, with
   proofs.
8. `Accounts`, composed with the tab that uses it in `Console`, with proofs.
9. `PageForms` and `TablePages`; `SettingsForms`; with proofs.

What is left, in the order of its worth:

10. The table of accounts with two administrators who remove each other, and
    roles.
11. `SseWriter`: the order of stream events for the three protocols, driven by
    `Gateway`'s stream actions.
12. The metrics' buckets and labels as a data structure against a reference.
13. A composition of `Gateway` with `Quota`'s receipt (Gateway's `res` is the
    state of the receipt) as a refinement.

## 3 The modules and the code

Steps are as small as the code's atomicity: one SQL statement, one critical
section, one Redis command. Code between two such points is part of the step.

**Quota** (`MCQuota`, `QuotaProofs`). `row` is the table; `snap` the quotas of
the current snapshot; `req[r]` what the goroutine of request `r` holds: its
snapshot, the time read at the start of Reserve, the rows still to visit
(`todo`), the receipt (`items`, `closed`). `BeginReserve`, `LazyReset`,
`Charge`, `ChargeRefused`, `ReleaseItem`, `Degrade`, `Reject`, `Reserved` are
Reserve inside Handle; `Settle`, `SettleItem`, `DeferredRelease`, `Released` the
end of the call. `JobTick`, `JobSelect`, `JobReset`, `JobDone` are
StartBackground, `AdminRead` … `DeleteQuota` the handlers, `Reload` and `Crash`
the environment. A period is a number of ticks; NextReset is the next multiple,
which is what midnight, Monday and the first of the month are to the code.
`acct` is history: what each request has in a row since its last reset, and
what refunds of older charges took out (`stray`); `past` is what the running
period admitted before its last reset, how often it was reset, and whether the
job did that. `ChargeRefused` is enabled
whenever the increment is due, since an SQL error (a locked database) has the
same effect as no row affected.

**Gateway** (`MCGateway`, `GatewayProofs`). `conns` and `adm` are the counters
behind their two mutexes; `call[r]` holds auditParams (status, whether errMsg is
set, the receipt's state) and the failover loop's variables, plus history
(responses begun, verdicts reported, whether an upstream took the call). An
attempt may end in every way `forward` distinguishes; one whose 2xx body cannot
be read or parsed (`BodyUnreadable`) was taken by the upstream, and fails. `Panic` is a panic in
Handle after the admission, caught by gin.Recovery. CountTokens shares the
admission. **Admission** is the abstract specification: a set of holders entered
below both limits. Each request has its own snapshot and so its own
`MaxConns[r]`; the promise is about the most generous snapshot in use.

**Breaker** (`MCBreaker`, `SyncProofs`). One provider, several instances; a
breaker is fails, openUntil, the cached shared state and the time of its last
read. Each degradation starts a watcher, and a late ping of an old one
(`Recover`) can end a newer degradation. RecordSuccess and RecordFailure do their local part, then the Redis part
in steps of their own (`RemoteBegin`, `WriteShared`, `WriteFails`, `RemoteSkip`);
health probes are calls like requests. A command works, fails, or works and is
reported as failed. `Elsewhere` stands for failed commands of other users of the
instance's redisDown flag. The clocks of the instances agree; failover is
enabled (otherwise no circuit opens).

**Swrr** (`MCSwrr`, `SwrrProofs`). `Select` is the first critical section of
Pick (or of PickIgnoringCircuit when no circuit is closed), `Remote` the script,
`Local` the second critical section. Health is any member of `Healthy`. A
missing cursor entry reads as 0 in Go and in Lua, so absent entries are 0.

**RateLimit** (`MCRateLimit`, `LimiterProofs`). The memory limiter's Allow reads
the clock (`ReadClock`, `MemoryBegin`) and then runs one critical section
(`AllowInMemory`) with a time that may be old by then, by at most `Lag`; the Redis
limiter runs one script per rule, and counts no refusal. The memory window is
renewed strictly after its end, the Redis key is gone at its expiry. `redis` is
how the limiter is deployed, chosen once; an instance that starts without Redis
is degraded and has no watcher. `passed` counts, per rule and time, the requests
the rule let pass.

**ConfigRuntime** (`MCConfig`, `SyncProofs`). `cfg` is the tables in the database, each
named by the write that made it; `counter` and `versions` are the two parts of
the one record of config_meta. A handler (`hs`) writes its table, then loads and
saves the record (Bump: `BumpLoad`, `BumpSave`, or `BumpFails`), then triggers
the loop of its instance or reloads by itself. A reload (`rl`) reads the counter
first, then one table at a time and at last the settings records (`ReadTable`,
which may fail: a table is then empty and the reload ends in status error, the
settings are then their defaults and nothing shows it), swaps (`Swap`), records a
version (`RecordVersion`: the database of that moment, an empty bundle when the
export fails, or none), and puts it into the record of config_meta (`MetaLoad`,
`MetaSave`). A record that cannot be loaded counts as counter 0 (`currentMeta`).
Several writers of the record can overwrite each other's increment; `lost` is
history and says that this has happened. `RestoreBundle` clears and refills the
tables of a version, saves the settings it has, and leaves the API keys
(`Restored`). `Restart` is the end and the start of a process. **StatusPage** is the
console's page: a polled view of one instance, and the buttons that start
`reloadConfig` and `Rollback`. `MCConfig` composes them.

**Accounts** (`ConsoleProofs`). One account on the server. `calls[c]` is the
request a device has in flight. A login runs in the code's statements:
`LoginLoad` (row, lock, password), `LoginFactor` (the second factor against the
row of the same handler), `LoginFinish`, and for failures `FailReset`,
`FailCount`, `FailRead`, `FailLock`; a recovery code is consumed by one
conditional UPDATE (`consumeRecoveryCAS`). Handlers behind the token check are
one step each (`AuthMiddleware` and what follows), but for the set-up of a second
factor, which looks whether the account is bound (`mfaSetup`) and saves its secret
later (`SaveSetupSecret`). Other administrators
(`Around`) reset the password, unbind, require a second factor, unlock. A token
is the instant it was signed, cut to the second when it is checked, and the
row's cut-off is exact. **Console** (`MCConsole`) is one tab against that
account: the persisted store, the fetch of `/auth/me` and its cache, the
redirect on 401 with its debounce, `RequireAuth` (`GuardMount`, `Guard`), the
login's two steps, the change of the password, the wizard that binds and
unbinds. A full load (`Load`) forgets the memory and leaves requests under way.
`foreign` is history: the scope in the store came from an answer of another
session.

**PageForms** holds, for each of the ten table pages, the sets that tell them
apart, read off the page and its handler: the fields, what the dialog of a new
row presets, what the edit fills, which items it shows and requires, what is
sent, what the switch sends, what the operations of a row and of the page are
and how many requests a page dialog makes, what invalidates the list, and what
the update handler stores. **TablePages** (`MCTables`, `TableProofs`) is the machine they share:
the list and its fetch (`Mount`, `Ages`, `FetchServe`, `FetchDeliver`,
`FetchFails`), the dialog, the requests (`Start`, `Serve`, `Hear`, `Lose`), and
another administrator. A value is a pair <<who put it there, for which row>>, so
that a value in a wrong row shows. A deletion that empties something first may
leave just that behind (`HalfDeletes`). **SettingsForms** (`MCLive`, `SyncProofs`) is the
same for the five one-record forms: the query fills the form whenever its data
changes. The server stores what it has parsed (`Parsed`), and of the security
settings what `validateSecurity` makes of it: MFA is enabled when it is required
of all. `RequiredOn` and `EnabledOn` say which values of the two switches are on.

**LiveAudit** (`MCLive`, `ConsoleProofs`). `Write`, `Take`, `Flush` are audit.go's Write,
writerLoop and flush: a row goes into the channel, or to the database from its
own goroutine when the channel is full; a failed batch is tried again row by row.
`Broadcast` is the fan-out that follows Write. `Subscribe`, `Upgrade`, `Push`,
`Cut`, `Unsubscribe` are the handler of one connection, `onopen`, `onmessage`,
`onclose`, `connect` the hook of the page, `Pause`, `Resume`, `reset` the card.
Connections the page has left (`zombies`) can go on adding to the shared drop
counter. `Stop` and `Start` are the end and start of the process.

**Sums** has no state: it is what the proofs about Quota, Swrr and RateLimit need
to know of the community modules' `SumFunctionOnSet`.

## 4 Runs and what they show

| Run | Instance | Checks |
|---|---|---|
| quota_rows | "period": 2 requests, 2 rows (requests, tokens), 3 ticks across a boundary, job, crashes, reloads; "edits": 3 requests that may degrade, 2 administrative operations, one row created | TypeOK, RequestsAccounted, PeriodCap, FinalCharge, TokensAccounted |
| gateway_requests | buffered and streamed request of one key, 2 upstreams, 3 attempts, global limits 2 and 1, one per key | TypeOK, SlotsCounted, AdmissionRefined, OneReply, ReceiptFollowsUpstream, AttemptsReported, DeliveredErrorHasCause, SlotsFreed (liveness) |
| breaker_sync | 2 instances, one call each, clock 3 | TypeOK, InSync, Recovers (liveness) |
| swrr_balance | "cursors": 2 requests in one instance, weights 3:1 and 1:1 with one upstream replaced, any circuits, Redis lost and found; "shares": all weights up to `MaxWeight` = 6 of 3 upstreams | SharedBalanced, CursorsBounded, Smooth |
| limit_windows | 2 rules, 4 requests, clock 3, `Lag` = 1; without Redis, with it, and with one that fails | SpanCap, HitsCounted |
| config_reload | "instances": 2 instances, 2 handlers, 2 operations, with a restart or with one failure (a table, the settings, the record of the counter, the export); "page": one instance and the status page, also after a version that was recorded empty | ConfigTypeOK, UnchangedIsCurrent, Visible (liveness), ViewCatchesUp (liveness) |
| console_sessions | "tab": one tab, one operation of another administrator; "devices": two devices that log in, fail and use one recovery code; "binding": two devices logged in to an unbound account, 2 bindings, 2 secrets; lock at 2 failures, seconds of 3 ticks, clock 8 in "binding" and 4 in the others | RecoveryOnce, LockedAtThreshold, Guided, StepsRise (step) |
| tables_pages | all ten pages, two requests of the page on API keys, one on the others, one change of another administrator | ValuesStayWithTheirRow, StaleHasCause, WritesWhatWasMeant (step), ListCatchesUp (liveness) |
| live_pages | "log": 4 rows, queue 1, batch 2, one restart, one failing insert; "card": one connection after another, buffer 1, list 2; "forms": five forms, 2 saves, 1 of others | EachRowInOnePlace, GapsAreDrops, CardFollowsStream, FormShowsRecord, SaveChangesWhatWasTyped (step), Reconnects, Drains (liveness) |
| gateway_settle, console_bind, config_rollback | the smallest instance that shows it | a counterexample each, section 6 |

A scene (the variable `scene` of an MC module) is an instance explored beside
others in one run: the scenes share the specification and differ in the initial
states and in which parts move.

Why the bounds are enough. Two requests suffice for every pairwise race on a
row and three for a refusal between two successes; one boundary puts every
statement before and after a reset, and one more tick lets job and lazy reset
meet with different times. Requests of the gateway meet only in the two
counters: two of one key reach a refusal by each gate and the slot given back,
and the refinement is proved for any number of requests and keys, which covers
the bursts of many keys that two requests cannot make. A request acts on the
output strategy at most once, so that choosing it at that point is the same as
choosing it with the snapshot. Two upstreams and three attempts exhaust the
upstreams before the attempts. For the breaker, a clock of 3 with a throttle of 1 and a reset time
of 2 has an opening, a read after it, an expiry and a read after that.
`MaxFails` with the threshold at 1 reaches every branch of RecordFailure but
the one that only counts, which changes nothing the others see; the proofs hold
for every threshold. The smoothness of Swrr is checked for each of the 216
weightings over complete rounds, and proved for all; the cursors are bounded,
so `swrr_balance` explores all states, and a Redis that may fail includes a single node and a
Redis that never fails. RateLimit needs two windows to meet: clock 3 with
windows of 2 and 3, and a `Lag` of 1 lets a request open a window with a time from
before another's. While Redis is there it makes no difference which instance a
request belongs to, and each instance that falls back adds its own counter, so
one instance is enough.

Two handlers and two instances give the configuration every pairwise race: two
Bumps that overwrite each other, a reload that finds another in flight, a write
between the read of the counter and the read of a table, a rollback during a
reload; a third handler adds only more of the same, and `UnchangedIsCurrent` is
proved for any number. One failure at any of the reads and writes is enough for
each way to fail: a second one meets a state that the first has already excluded
or one that a restart reaches too. After a lost increment nothing further is explored: every
property excludes those states. A login that races with another, with an
unbinding or with a reset needs two devices; one recovery code is enough to be
taken twice, and a threshold of 2 has a failure below it. In "binding" a
second secret and a second binding make the set-up that was checked too early, and
the clock of 8 leaves time for a login between the bindings; "tab" and "devices" are
cut at the time `MaxTime` = 4. The tab leaves the threshold of the lock, recovery
codes and older codes to the devices; that a cached answer ages or the debounce ends
is explored just before it is looked at, which changes no outcome. A second of 3 ticks has
a stamp before, at and after a cut-off within one second and in the next. The
tab starts with at most one duty of the account open, because RequireAuth looks
at one scope at a time, and other administrators work where it starts with none.
In quota_rows, rounds of the minute job that begin with no row expired are left
out, and reloads when no request is left to read the snapshot: they change nothing.
When both requests of "period" are settled, one has used less than was estimated and
one more. On the table pages two requests let the answer of one
meet the dialog of the next; `ApiKeys` is the page whose late answer also empties
the dialog, hence the one explored with two (without another administrator, and
with the first of its two alike rows first), and the others differ from it only
in the sets of PageForms. The stream needs a buffer, a
drop, a disconnection and a row after it, which four rows give.

Runs check deadlock unless their requests, operations and faults can all be used
up, as in limit_windows and in the console, config, tables and live runs, whose
configurations say `CHECK_DEADLOCK FALSE`. Bounds are named constants, all with
the prefix `Max`. Symmetry is used only for safety, over requests or devices that differ in
nothing.

Fairness. `Gateway!Fairness` says that a goroutine goes on unless it is
`Unbounded`: buffered calls have a timeout and the loop sleeps a finite time, the
client's body is read within the server's ReadTimeout (cmd/server/main.go:147), a
client reads its answer or goes away, and no panic is counted on to end a request.
Nothing is assumed about a streaming request from the attempt on, because the
call has no timeout (gateway.go:594-607), neither for the head of the answer (the
transport of line 92 sets none) nor for its chunks. `Breaker!FairSpec` says that
the ping of an existing watcher is answered in the end: watchers ping every five
seconds, and a Redis that never comes back refutes nothing. `MCConfig` assumes
that reloads, the loop's poll and handlers under way go on, and that the status
page polls (`refetchInterval`). `MCLive` assumes that the writer loop runs (its
ticker flushes a batch that is not full), that the process is started again, and
that the connection attempts of the browser and the server's side of them go on.
`MCTables` assumes that a fetch and a request under way are served and
heard. No fairness is assumed of requests, probes, people, failures or the clock.

## 5 Proofs

The proofs make no assumption beyond the named ASSUMEs on the constants
(finite sets of requests, positive limits and periods, pages that exist, finitely
many weightings, one of which has an upstream), which TLC evaluates in every run.
`PROJECT.json` lists 36 theorems in seven modules; the eighth, `Sums`, holds
lemmas. Each safety invariant and each action property of a passing run is
proved. An inductive invariant is first checked by TLC on the instances of
section 4, then proved.

*Quota* (`QuotaProofs`). `TypeCorrect` gives the types, with `used` a natural
number: the refunds are floored. `Invariance` proves the inductive invariant
`IndInv`:

- `Control`: label, loop set and receipt of a request go together (a receipt is
  open until Settle or Release, the rollback's loop set is part of it);
- `ShareOf`: what a row holds of a request is exactly what its receipt still
  stands for (`Outstanding`, `Share`), except for requests lost in a crash;
- `Counter`: `used` of a request quota is at most the number of requests charged,
  which is at most `used` plus stray refunds, and `used` is at most the limit;
- `Periodic`: what a period admitted before its last reset is at most a limit for
  each of its resets plus stray refunds; as long as only requests reset, the
  period that `past` follows is the one `reset_at` ends, and no reset fell into it;
- `Balance`: `used` of a token quota, with the stray refunds, is the sum of what
  the requests hold in it;
- `AdminInv`: an open updateQuota refers to a live row.

`RequestsAccounted` is not inductive by itself: that a refund removes a charge
that is there needs `ShareOf`, which needs `Control`. For tokens, `ShareOf` says
that no request's part goes below zero, so that the floor in the UPDATE cuts off
only what is stray. `RequestsAccountedThm`, `TokensAccountedThm`, `PeriodCapThm`
and `FinalChargeThm` follow.

*Gateway* (`GatewayProofs`). `SlotsCounted` is proved with `ConnCap` and `KeyCap`
(together `AdmissionInv`): the counters are the cardinalities of the sets of
requests at labels that hold a slot, and stay below the limits. `Refinement`
shows that every step of Gateway is a step of Admission or leaves the holders
alone; KeyAdmit is the step that acquires, ReleaseConn the one that leaves.
`OneReply`, `ReceiptFollowsUpstream`, `AttemptsReported` and
`DeliveredErrorHasCause` are about calls at their end. `CallInv` says for every
label what the failover loop has done by then: how many upstreams have been
tried, that those given up are reported as failed, whether a response has begun,
what state the receipt is in. The four theorems read it at the last label.
`ReceiptFollowsUpstream` tells an upstream that took the call from one whose
answer was used: an attempt that took it and failed all the same is left to
failover, and when all have failed (`AllFailed`) the receipt is refunded.

*Breaker* (`SyncProofs`). `InSync` follows from `SyncInv`: an instance that read
the key after its last change, and is not degraded, has the key's value or an
expired one in the place of an expired key. `due` is the history variable that
says since when. `BreakerTypes` includes that no circuit is open for longer than
the reset time (`Bounded`).

*ConfigRuntime* (`SyncProofs`). `UnchangedIsCurrent` looks only at instances at
rest, and is not inductive: what a reload in flight has read so far decides what
it will swap in. `CurrentInv` adds it. As long as no increment was lost, counters
only rise (`Ordered`); a snapshot loaded at the present counter is the database,
unless a handler has written and not yet announced it (`SnapCurrent`, `Pending`);
the same holds of what a reload that began at the present counter has read
(`ReadsCurrent`, `Outdated`), settings that could not be read excepted. The order
of the code is what carries it: the counter is read before the tables, the table is
written before the Bump. `TypeCorrect` includes that no rollback empties the keys or
the settings: that needs that the bundle's settings are saved over the old ones,
whatever version (also an empty one) it holds.

*SettingsForms* (`SyncProofs`). `FormsInv` follows a value from the record to the
form and back: what a query has read is the record unless the page has saved
since (`Read`), what a form shows was put there by the query or typed (`Typed`),
a page that invalidates is followed by a fetch (`Invalidated`), one that does not
keeps what it saved (`Kept`). The record is always consistent, MFA enabled where
it is required of all (`Consistent`), so that the server changes a switch by itself
(`Forced`) only when a save has changed the other. `ShowsThm` and the action
property `SaveThm` follow for all five forms.

*Swrr* (`SwrrProofs`). A pick adds each candidate's weight to its cursor and takes
the total from the winner. `SharedBalanced` needs that the winner is one of the
candidates and that these are all in the configuration the request began with
(`CursorInv`).

That no entry strays (`SharedBoundedThm`, `LocalBoundedThm`, together
`CursorsBoundedThm`) is not inductive entry by entry, nor is a bound on the
distance of two entries: a pick among some of the upstreams can raise several at
once, and the next pick is made among others. What is inductive is a bound on the
sum over every set of upstreams (`Spread`): twice the sum over k of n shared
entries is at most k(n-k) of the largest rounds (`SharedCap`), and less for three
upstreams or more. A pick keeps it (`PickRises`): a set with the winner has lost
at least what it gained, and of a set without it, the m candidates in it are no
larger than the winner, so that the bounds for the set with the winner, taken m
times, and for the set without these candidates, taken once, bound m + 1 times
the set (`Rises`). One entry is the case k = 1, and its debt is the case
k = n - 1, as the sum is zero. An instance's cursor has no fixed sum, because requests
with old and new snapshots drop each other's entries: there the bound is
k(2n-k-1), for sums (`Spread`) and for debts (`Sunk`, `Falls`, `PickFalls`), and
it grows with k, so that a dropped entry does no harm (`DroppedSpread`). The
theorems hold for any number of upstreams: an entry of the shared cursor is at
most (n-1)/2 rounds from zero, an entry of an instance's cursor at most n-1.

`SmoothThm` is proved from `SharesInv`: with weights that stay and every upstream
a candidate, the shared cursor is n times the weight less t times the requests
won, where n counts the requests of the round and t is their number when it
ends. So no entry falls to -t, as the winner's was positive (`PickAll`), and when
n reaches t everybody has exactly its weight (`RoundKept`): nobody can have more,
and the sums agree. The bound on the lag is the one on the cursor.

*RateLimit* (`LimiterProofs`). `HitsCountedThm` counts the refusals of a
limiter without Redis through the flush and its failures. `SpanCapThm` is about windows that several counters keep side by
side. `SpanInv` splits what a rule has let pass into one history per counter: the
memory windows of the instances and the one in Redis (`Center`). Each history
`Fits` its window: what has passed since the window began is what it has counted,
what passed in less than a window's length before is at most the limit, and no
span shorter than a window has seen more than two limits. In memory a window may
have been opened, or counted in, with a time up to `Lag` old: the span is shorter by
that much (`Span`). The four lemmas
`FitsPassed`, `FitsRefused`, `FitsOpened` and `FitsLater` are all that can happen
to a window; the sum over the counters gives `SpanCap`.

*Accounts and Console* (`ConsoleProofs`). The lemma `Steps` says that nothing the
tab does touches the account but the handlers it calls. `RecoveryOnce` follows
from `Spent`: a code that was accepted belongs to a binding that has been made and
is not in the row's list, which only a compare-and-set shortens and a new binding
replaces by codes of its own. `StepsRise` is proved step by step: a login changes
the step by a compare in the UPDATE itself, an enabling handler resets it and counts
a binding, also when the account was bound by another device since the set-up was
checked. `LockedAtThreshold` is inductive
with the record shapes (`Shaped`): whoever raises the count reads it back later,
and so finds it at the threshold or above. `Guided` needs `TabInv`: the tokens
that the tab, its fetch, its cached answer and its request under way hold were
issued at different times that are past, so that an answer that names the token in
the store is about that token, and has its scope.

*LiveAudit* (`ConsoleProofs`). `EachRowInOnePlace` says where each row is;
`PlaceInv` adds that queue and batch hold no row twice and that the places are
disjoint. `CardFollowsStream` needs the order of the stream: `OrderInv` says that
what the list shows was broadcast before what the connection carries, and that
before what waits in the buffer, so that no row arrives twice, over reconnections
too; `FrozenInv` says where the rows of a paused card are in the list by now.

*TablePages* (`TableProofs`). Three invariants, for all ten pages: three lemmas
(`Refetched`, `FilledIn`, `TakenOver`) compare the sets of PageForms page by page,
and the rest of the proof uses only these. `OwnInv` says whose every value is, in
the table, the list, the dialog and the requests; the point is the dialog, which
keeps the values of an earlier one: a field that the next dialog neither fills nor
clears has never been filled in. `ListInv` gives `StaleHasCause`: list and fetch
are the server's table unless something unheard happened (a change of others, a lost
answer, a deletion that failed half-way), the answer to a change
is still to be heard (`Pending`), or the page was left and is due for a fetch.
`MeantInv` relates dialog and request to the row they were filled from, and gives
the action property `WritesWhatWasMeant`.

*Sums.* The fold of the community modules is characterised by a choice among
functions; `SumIs` and `SumExists` show that there is one, by induction over finite
sets. The induction (`FiniteInd`) is stated for a set of sets, not for a predicate,
because a theorem with an operator as parameter cannot be instantiated here; it
rests on the least element of a set of numbers. The rest is what sums do when one
argument changes, when all arguments of a subset change, and how they bound and
cover each other.

Only model-checked:

- liveness (`SlotsFreed`, `Recovers`, `Visible`, `ViewCatchesUp`, `ListCatchesUp`,
  `Reconnects`, `Drains`): it rests on fairness and ENABLED, which TLAPS does not
  handle;
- the three counterexamples of section 6.

## 6 Findings

Three runs end in a counterexample to a line of the repository; `PROJECT.json`
quotes the lines.

- `gateway_settle`: a stream blocked by the output guard is refunded in full,
  where the comment says that it is settled.
- `console_bind`: the session token handed out with the recovery codes is dated
  to the second below the cut-off stored just before it, and is refused.
- `config_rollback`: a reload of an unchanged configuration records a copy, so
  that the version a rollback restores is the one in use.

The models also take the following steps as the code does, without a run that
singles them out. Where a property has to make an exception for one, its comment
says so.

Gateway and runtime:

- The minute job resets by id the rows it selected earlier (quota.go:366): a row that
  a request has reset and charged in between is no longer expired, and loses the
  charges of its running period, where the comment at line 352 speaks of expired
  quotas. `PeriodCap` counts up to a limit more for each such reset (`repeats`, `byJob`).
- A 2xx answer whose body cannot be read or parsed (gateway.go:660-670) is left to
  failover, and refunded in full when no attempt is left; the comments at
  quota.go:188 and 274 keep the full refund for an upstream that was never reached.
  `ReceiptFollowsUpstream` names the case (`AllFailed`).
- With Redis a refusal is counted nowhere (redis_limiter.go:107, 130), where the
  comment at line 128 says that the gateway accumulates it. `HitsCounted` is about a
  limiter without Redis.
- The errors of reading the five settings records are dropped (manager.go:347-351):
  the instance goes on with default settings in status ok, where the comments at
  lines 193 and 361 say that a failure is shown. `UnchangedIsCurrent` and `Visible`
  except it (`OnDefaults`).
- When the export fails, the reload records an empty bundle as a good version
  (bundle.go:93-95), and a rollback to it clears the tables, where the comments at
  bundle.go:195 and manager.go:394 speak of a good version and a full snapshot.
  `ConfigTypeOK` shows that the keys and the settings survive it.
- A stream that succeeds on the second upstream is recorded as an error: errMsg
  of the first attempt is still set (gateway.go:935).
- A late DEL of one instance's success removes a newer open state of another
  (slb.go:157, against the comment at lines 8-9), and a late SET revives an
  ended one.
- A rate limiter that starts without Redis is degraded and has no watcher
  (redis_limiter.go:56-57): it stays so until it is restarted.
- The package comment of slb.go (line 17) says that the shared cursor is used
  only when all upstreams are candidates; the code asks only that none was
  tried. `swrr_balance` shows that this does the cursor no harm.
- auditws.go:27 speaks of a limit of drops per subscriber; the counter is the
  hub's, shared by all.
- A table that cannot be read is swapped in empty, where the status page says
  that the previous configuration stays in use (i18n configStatus.ts:21).
- Reload always returns nil, so that setError, which the first load would call
  (manager.go:152), never runs. A restored bundle leaves the API keys alone.
- Increments of the configuration counter can be overwritten, because several
  writers save the whole record (`lost`).

Accounts and session:

- A wrong old password, or a wrong code in the wizard, is a 401, and the client
  drops a valid session for it. A 401 that belongs to an earlier session clears
  the new one.
- A cached `/auth/me` of one session is applied to the next (App.tsx:75);
  `foreign` marks it.
- The login issues its session from the row it read first: a login that
  overlaps an administrator's reset uses the old row. A ticket is peeked before
  the second factor and popped without a look at the result (auth.go:77, 85).
- mfaSetup looks whether the account is bound long before it saves its secret, and
  mfaEnable does not look again (auth.go:326, 344, 348): a device can bind an account
  anew that another has just bound, with other recovery codes.
- After an expired lock the count starts again at zero.
- The password change of the account security page keeps the token that the
  server has just revoked.

Console pages:

- The batch dialog of the quotas offers "degrade" without an alias.
- A late save closes the dialog that is open by then; a late creation of an API
  key empties it (`wiped`).
- A switch sends the cached row, and so reverts what others changed since.
- Deleting the last row of a page of the list shows an empty page.
- A restore of a backup invalidates only the list of backups; saves of the
  general and the security settings invalidate nothing, so that a form opened
  again soon shows the settings of before its own save. The page of the security
  settings does not learn that the server has enabled MFA with "required of all"
  (settings.go:136-138): it shows the switch off.
- A deletion of an account clears its second factor first; when the deletion then
  fails, the page hears an error and keeps the old row (users.go:210-217).
- useAuditStream's connect returns without a retry when no token is stored.

Two deviations the models keep as documented losses, since nothing promises
otherwise: refunds of charges of an earlier period reduce the new period's
counter (`stray`), and updateQuota writes back the counter it read (`edited`).

## 7 What is not modelled

- Texts: guard patterns and the guard engine's matching, protocol conversion,
  token counting, error messages, translations, layout. The gateway takes any
  verdict and any usage.
- Quota: `maybeAlert`; `Check` and `Consume`, which the gateway does not call;
  changing the scope, kind or period of a row; a used_value supplied at
  creation; failing SQL in Settle and Release, whose errors the code ignores;
  two administrative handlers at a time; rows without limit, which validation
  refuses.
- RateLimit: editing rules under load. Windows of different keys and aliases are
  independent.
- Breaker: clock skew between instances; the unsynchronised flags are taken to
  be read and written whole.
- Swrr: the same provider twice in one alias.
- ConfigRuntime: what each table's rows become in memory, and the other tables
  (two stand for all, one that a rollback restores and one that it leaves, and one
  for the five settings records); the
  restore of a file and the import of a bundle, which are a rollback to another
  target; the log of loads.
- LiveAudit: the retention job, the framing and pings of the WebSocket, the
  authentication of its handshake; the operation log and the call log's tables,
  which are queries.
- Accounts: roles (the viewer's restrictions), the expiry of tokens (tickets and bindings
  under way may expire at any time), the mirror of tickets in Redis, the limiter in
  front of the login, and accounts that administrators delete: two who delete
  each other leave none, which is listed as a hazard without a property.
- Console: searching, filtering and paging, test and statistics drawers, the
  tests of providers and rules, the import of models, downloads, reports,
  menus. They send queries, or show what they were given.
- Metrics: the per-second buckets and labels, the error ring, the exposition
  format. Reports, database set-up, configuration files, cryptography: input and
  output, pure functions, or data declarations.
