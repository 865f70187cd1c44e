---------------------------- MODULE QuotaProofs ----------------------------
(***************************************************************************)
(* Proofs about Quota, for every set of requests, quota table, limits,     *)
(* estimates and clock bound.                                              *)
(***************************************************************************)
EXTENDS Quota, Sums

\* The end of a period is a clock value.
LEMMA NextResetNat ==
    ASSUME NEW p \in Nat \ {0}, NEW t \in Nat
    PROVE  NextReset(p, t) \in Nat
<1>1. t \div p \in Nat
  OBVIOUS
<1>2. ASSUME NEW a \in Nat PROVE (a + 1) * p \in Nat
  OBVIOUS
<1> QED BY <1>1, <1>2 DEF NextReset

\* A period ends after each of its moments.
LEMMA NextResetLater ==
    ASSUME NEW p \in Nat \ {0}, NEW t \in Nat
    PROVE  t < NextReset(p, t)
<1> DEFINE k == t \div p
<1>1. k \in Nat /\ t < k * p + p
  OBVIOUS
<1> HIDE DEF k
<1>2. (k + 1) * p = k * p + p
  BY <1>1
<1> QED BY <1>1, <1>2 DEF NextReset, k

LEMMA NewPeriodType == ASSUME NEW e \in Nat PROVE NewPeriod(e) \in PeriodHistory
BY DEF NewPeriod, PeriodHistory

\* The snapshot that Reload builds from a well-typed table is well-typed.
LEMMA SnapshotType ==
    ASSUME TypeOK PROVE Snapshot \in [Quotas -> SnapRow]
BY DEF TypeOK, Snapshot, SnapRow, Row, Live

\* What Reserve charges is positive.
LEMMA AmountPos ==
    ASSUME NEW q \in Quotas, NEW r \in Requests
    PROVE  Amount(q, r) \in Nat \ {0}
BY QuotaAssumption DEF Amount

LEMMA CleanAcctType == CleanAcct \in Account
BY DEF CleanAcct, Account

\* What a correction does to a row's account, field by field.
LEMMA CorrectEffect ==
    ASSUME NEW a \in Account, NEW r \in Requests, NEW d \in Int
    PROVE  /\ Correct(a, r, d) \in Account
           /\ Correct(a, r, d).since = a.since
           /\ Correct(a, r, d).edited = a.edited
           /\ Correct(a, r, d).stray = IF r \in a.since \/ d > 0 THEN a.stray ELSE a.stray - d
           /\ \A s \in Requests : Correct(a, r, d).by[s] =
                 IF s = r /\ (r \in a.since \/ d > 0) THEN a.by[s] + d ELSE a.by[s]
<1> DEFINE f == [a.by EXCEPT ![r] = @ + d]
<1>1. a.by \in [Requests -> Int] /\ a.stray \in Nat
  BY DEF Account
<1>2. f \in [Requests -> Int] /\ \A s \in Requests : f[s] = IF s = r THEN a.by[s] + d ELSE a.by[s]
  BY <1>1
<1> HIDE DEF f
<1>3. CASE r \in a.since \/ d > 0
  <2>1. Correct(a, r, d) = [a EXCEPT !.by = f]
    BY <1>3 DEF Correct, f
  <2> QED BY <1>2, <1>3, <2>1 DEF Account
<1>4. CASE ~(r \in a.since \/ d > 0)
  <2>1. Correct(a, r, d) = [a EXCEPT !.stray = @ - d]
    BY <1>4 DEF Correct
  <2>2. a.stray - d \in Nat
    BY <1>1, <1>4
  <2> QED BY <1>4, <2>1, <2>2 DEF Account
<1> QED BY <1>3, <1>4

\* What Settle's and Release's UPDATE does to every row.
LEMMA AddUsedEffect ==
    ASSUME TypeOK, NEW r \in Requests, NEW q \in Quotas, NEW d \in Int, AddUsed(r, q, d),
           NEW p \in Quotas
    PROVE  /\ row' \in [Quotas -> Row]
           /\ acct' \in [Quotas -> Account]
           /\ row'[p].state = row[p].state
           /\ row'[p].limit = row[p].limit
           /\ row'[p].used = IF p = q /\ Live(q) THEN Floor0(row[p].used + d) ELSE row[p].used
           /\ acct'[p].since = acct[p].since
           /\ acct'[p].edited = acct[p].edited
           /\ acct'[p].stray = IF p = q /\ Live(q) /\ ~(r \in acct[p].since \/ d > 0)
                              THEN acct[p].stray - d ELSE acct[p].stray
           /\ \A s \in Requests : acct'[p].by[s] =
                 IF p = q /\ s = r /\ Live(q) /\ (r \in acct[p].since \/ d > 0)
                 THEN acct[p].by[s] + d ELSE acct[p].by[s]
<1>1. row[q] \in Row /\ acct[q] \in Account
  BY DEF TypeOK
<1>2. Floor0(row[q].used + d) \in Nat
  BY <1>1 DEF Row, Floor0
<1>3. [row[q] EXCEPT !.used = Floor0(@ + d)] \in Row
  BY <1>1, <1>2 DEF Row
<1>4. Correct(acct[q], r, d) \in Account
  BY <1>1, CorrectEffect
<1>5. row' \in [Quotas -> Row] /\ acct' \in [Quotas -> Account]
  BY <1>3, <1>4 DEF AddUsed, TypeOK
<1>6. acct'[p] = IF p = q /\ Live(q) THEN Correct(acct[p], r, d) ELSE acct[p]
  BY DEF AddUsed, TypeOK
<1>7. /\ row'[p].state = row[p].state
      /\ row'[p].limit = row[p].limit
      /\ row'[p].used = IF p = q /\ Live(q) THEN Floor0(row[p].used + d) ELSE row[p].used
  BY <1>1 DEF AddUsed, TypeOK, Row
<1>8. CASE p = q /\ Live(q)
  <2>1. acct'[p] = Correct(acct[q], r, d)
    BY <1>6, <1>8
  <2> QED BY <1>1, <1>5, <1>7, <1>8, <2>1, CorrectEffect
<1>9. CASE ~(p = q /\ Live(q))
  <2>1. acct'[p] = acct[p]
    BY <1>6, <1>9
  <2> QED BY <1>5, <1>7, <1>9, <2>1
<1> QED BY <1>8, <1>9

\* What Reserve's conditional increment does to every row.
LEMMA ChargeEffect ==
    ASSUME TypeOK, NEW r \in Requests, NEW q \in Quotas, Charge(r, q), NEW p \in Quotas
    PROVE  /\ row' \in [Quotas -> Row]
           /\ acct' \in [Quotas -> Account]
           /\ row'[p].state = row[p].state
           /\ row'[p].limit = row[p].limit
           /\ p # q => row'[p].used = row[p].used
           /\ acct'[p].since = IF p = q THEN acct[p].since \cup {r} ELSE acct[p].since
           /\ acct'[p].edited = acct[p].edited
           /\ acct'[p].stray = acct[p].stray
           /\ acct[q].by[r] = 0 => acct'[q].by[r] = Amount(q, r)
           /\ \A s \in Requests : ~(p = q /\ s = r) => acct'[p].by[s] = acct[p].by[s]
<1>0. Amount(q, r) \in Nat \ {0}
  BY AmountPos
<1>1. row[q] \in Row /\ acct[q] \in Account
  BY DEF TypeOK
<1>2. [row[q] EXCEPT !.used = @ + Amount(q, r)] \in Row
  BY <1>0, <1>1 DEF Row
<1> DEFINE b == Entered(acct[q], r)
           c == Correct(b, r, Amount(q, r))
<1>3. b \in Account /\ b.by = acct[q].by /\ b.stray = acct[q].stray /\ b.edited = acct[q].edited
      /\ b.since = acct[q].since \cup {r}
  BY <1>1 DEF Account, Entered
<1>4. Amount(q, r) \in Int
  BY <1>0
<1> HIDE DEF b
<1>5. /\ c \in Account /\ c.since = b.since /\ c.edited = b.edited /\ c.stray = b.stray
      /\ \A s \in Requests : c.by[s] = IF s = r THEN b.by[s] + Amount(q, r) ELSE b.by[s]
  BY <1>3, <1>4, CorrectEffect
<1> HIDE DEF c
<1>6. acct' = [acct EXCEPT ![q] = c]
  BY DEF Charge, b, c
<1>7. row' \in [Quotas -> Row] /\ acct' \in [Quotas -> Account]
  BY <1>2, <1>5, <1>6 DEF Charge, TypeOK
<1>8. acct'[p] = IF p = q THEN c ELSE acct[p]
  BY <1>6 DEF TypeOK
<1>10. acct'[q] = c
  BY <1>6 DEF TypeOK
<1>9. /\ row'[p].state = row[p].state
      /\ row'[p].limit = row[p].limit
      /\ row'[p].used = IF p = q THEN row[p].used + Amount(q, r) ELSE row[p].used
  BY <1>1 DEF Charge, TypeOK, Row
<1>11. acct[q].by[r] = 0 => acct'[q].by[r] = Amount(q, r)
  BY <1>0, <1>3, <1>5, <1>10
<1> QED BY <1>3, <1>5, <1>7, <1>8, <1>9, <1>11

\* A charge leaves what other requests have in a row, and other rows, alone.
LEMMA ChargeOthers ==
    ASSUME TypeOK, NEW r \in Requests, NEW q \in Quotas, Charge(r, q), NEW p \in Quotas,
           NEW s \in Requests, ~(p = q /\ s = r)
    PROVE  acct'[p].by[s] = acct[p].by[s]
<1>1. CASE p # q
  BY <1>1 DEF Charge, TypeOK
<1>2. CASE p = q
  <2>1. Amount(q, r) \in Int
    BY AmountPos
  <2>2. Entered(acct[q], r) \in Account /\ Entered(acct[q], r).by = acct[q].by
    BY DEF TypeOK, Account, Entered
  <2>3. Correct(Entered(acct[q], r), r, Amount(q, r)).by[s] = Entered(acct[q], r).by[s]
    BY <1>2, <2>1, <2>2, CorrectEffect
  <2> QED BY <1>2, <2>2, <2>3 DEF Charge, TypeOK
<1> QED BY <1>1, <1>2

\* The set of requests charged in a row is finite.
LEMMA ChargedFinite ==
    ASSUME NEW q \in Quotas
    PROVE  IsFiniteSet(Charged(q)) /\ Cardinality(Charged(q)) \in Nat
<1>1. Charged(q) \subseteq Requests /\ IsFiniteSet(Requests)
  BY QuotaAssumption DEF Charged
<1>2. IsFiniteSet(Charged(q))
  BY <1>1, FS_Subset
<1> QED BY <1>2, FS_CardinalityType

LEMMA NewRowType ==
    ASSUME NEW q \in Quotas, NEW t \in Nat, NEW lim \in Nat \ {0},
           NEW on \in BOOLEAN, NEW st \in {"absent", "live", "deleted"}
    PROVE  NewRow(q, t, lim, on, st) \in Row
<1>1. NextReset(Period[q], t) \in Nat
  BY NextResetNat, QuotaAssumption
<1> QED BY <1>1 DEF NewRow, Row

\* Resetting a row keeps the table and the history well-typed.
LEMMA ResetRowType ==
    ASSUME TypeOK, NEW q \in Quotas, NEW t \in Nat, NEW job \in BOOLEAN, ResetRow(q, t, job)
    PROVE  /\ row' \in [Quotas -> Row]
           /\ acct' \in [Quotas -> Account]
           /\ past' \in [Quotas -> PeriodHistory]
<1>1. NextReset(Period[q], t) \in Nat
  BY NextResetNat, QuotaAssumption
<1>4. past' \in [Quotas -> PeriodHistory]
  <2> DEFINE p == past[q]
             c == Cardinality(Charged(q))
             R == [end |-> p.end, kept |-> p.kept + c, strays |-> p.strays + acct[q].stray,
                   repeats |-> p.repeats + 1, byJob |-> p.byJob \/ job]
             e == NextReset(Period[q], t)
  <2>1. p \in PeriodHistory /\ acct[q].stray \in Nat /\ c \in Nat
    BY ChargedFinite DEF TypeOK, Account
  <2>2. R \in PeriodHistory
    <3> HIDE DEF p, c
    <3> QED BY <2>1 DEF PeriodHistory
  <2>3. NewPeriod(e) \in PeriodHistory
    BY <1>1, NewPeriodType
  <2>4. past' = [past EXCEPT ![q] = IF acct[q].edited \/ e > p.end THEN NewPeriod(e) ELSE R]
    BY DEF ResetRow, Renew
  <2> HIDE DEF p, e, R
  <2> QED BY <2>2, <2>3, <2>4 DEF TypeOK
<1>2. row' \in [Quotas -> Row]
  <2> DEFINE R == [row[q] EXCEPT !.used = 0, !.resetAt = NextReset(Period[q], t)]
  <2>1. R \in Row
    <3>1. row[q] \in Row
      BY DEF TypeOK
    <3>2. NextReset(Period[q], t) \in Nat
      BY <1>1
    <3> HIDE DEF TypeOK
    <3> QED BY <3>1, <3>2 DEF Row
  <2>2. row' = [row EXCEPT ![q] = R]
    BY DEF ResetRow
  <2> QED BY <2>1, <2>2 DEF TypeOK
<1>3. acct' = [acct EXCEPT ![q] = CleanAcct] /\ acct \in [Quotas -> Account]
  BY DEF ResetRow, TypeOK
<1> QED
  BY <1>2, <1>3, <1>4, CleanAcctType

LEMMA InitType == Init => TypeOK
<1> SUFFICES ASSUME Init PROVE TypeOK
  OBVIOUS
<1>1. row \in [Quotas -> Row]
  <2>1. \A q \in Quotas : InitLimit[q] \in Nat \ {0}
    BY QuotaAssumption
  <2>2. \A q \in Quotas : row[q] \in Row
    BY <2>1, NewRowType DEF Init
  <2> QED BY <2>2 DEF Init
<1>2. snap \in [Quotas -> SnapRow]
  BY <1>1 DEF Init, Snapshot, SnapRow, Row, Live
<1>3. NoLocals \in Locals
  BY QuotaAssumption DEF NoLocals, Locals, SnapRow
<1>4. NoOp \in Operation
  BY QuotaAssumption DEF NoOp, Operation, Row
<1>5. IdleJob \in [at: Nat, periods: SUBSET Nat, rows: SUBSET Quotas]
  BY DEF IdleJob
<1>6. past \in [Quotas -> PeriodHistory]
  <2>1. \A q \in Quotas : NewPeriod(row[q].resetAt) \in PeriodHistory
    BY <1>1, NewPeriodType DEF Row
  <2> QED BY <2>1 DEF Init
<1> QED BY <1>1, <1>2, <1>3, <1>4, <1>5, <1>6, CleanAcctType DEF Init, TypeOK, Labels

\* Every step of a request preserves the types.
LEMMA RequestType ==
    ASSUME TypeOK, NEW r \in Requests, RequestStep(r)
    PROVE  TypeOK'
<1> USE DEF Goto, Labels, Finished
<1>0. \A q \in Quotas : Amount(q, r) \in Nat \ {0}
  BY AmountPos
<1>a. req[r] \in Locals
  BY DEF TypeOK
<1>b. ASSUME NEW rec, rec \in Locals, req' = [req EXCEPT ![r] = rec]
      PROVE  req' \in [Requests -> Locals]
  BY <1>b DEF TypeOK
<1>1. CASE BeginReserve(r)
  <2> DEFINE S == matchQuotas(snap, ReqKey[r], ReqAlias[r])
  <2>1. S \in SUBSET Quotas
    BY DEF matchQuotas
  <2>2. [req[r] EXCEPT !.snap = snap, !.at = now, !.todo = S] \in Locals
    BY <1>a, <2>1 DEF Locals, TypeOK
  <2>3. req' = [req EXCEPT ![r] = [req[r] EXCEPT !.snap = snap, !.at = now, !.todo = S]]
    BY <1>1 DEF BeginReserve
  <2>4. req' \in [Requests -> Locals]
    BY <1>b, <2>2, <2>3
  <2> QED BY <1>1, <2>4 DEF BeginReserve, TypeOK
<1>2. CASE Reserved(r)
  BY <1>2 DEF Reserved, TypeOK
<1>3. CASE Degrade(r)
  <2> DEFINE S == matchQuotas(req[r].snap, ReqKey[r], DegradeAlias[req[r].over])
             L == [req[r] EXCEPT !.degraded = TRUE, !.at = now, !.items = {},
                                 !.closed = FALSE, !.todo = S]
  <2>1. S \in SUBSET Quotas
    BY DEF matchQuotas
  <2>2. L \in Locals
    BY <1>a, <2>1 DEF Locals, TypeOK
  <2>3. req' = [req EXCEPT ![r] = L]
    BY <1>3 DEF Degrade
  <2>4. req' \in [Requests -> Locals]
    BY <1>b, <2>2, <2>3
  <2> QED BY <1>3, <2>4 DEF Degrade, TypeOK
<1>4. CASE Reject(r)
  <2>2. [req[r] EXCEPT !.items = {}] \in Locals
    BY <1>a, <1>4 DEF Reject, Locals
  <2>3. req' = [req EXCEPT ![r] = [req[r] EXCEPT !.items = {}]]
    BY <1>4 DEF Reject
  <2>4. req' \in [Requests -> Locals]
    BY <1>b, <2>2, <2>3
  <2> QED BY <1>4, <2>4 DEF Reject, TypeOK
<1>5. CASE DeferredRelease(r)
  <2>1. [req[r] EXCEPT !.closed = TRUE, !.todo = req[r].items] \in Locals
    BY <1>a DEF Locals
  <2>2. \/ UNCHANGED req
        \/ req' = [req EXCEPT ![r] = [req[r] EXCEPT !.closed = TRUE, !.todo = req[r].items]]
    BY <1>5 DEF DeferredRelease
  <2>3. req' \in [Requests -> Locals]
    BY <1>b, <2>1, <2>2 DEF TypeOK
  <2>4. pc' \in [Requests -> Labels]
    BY <1>5 DEF DeferredRelease, TypeOK
  <2> QED BY <1>5, <2>3, <2>4 DEF DeferredRelease, TypeOK
<1>6. CASE Released(r)
  BY <1>6 DEF Released, TypeOK
<1>7. ASSUME NEW n \in Usages, Settle(r, n) PROVE TypeOK'
  <2>6. [req[r] EXCEPT !.closed = TRUE, !.actual = n, !.settled = TRUE,
             !.todo = {q \in req[r].items : Kind[q] = "tokens"}] \in Locals
    BY <1>a, QuotaAssumption, <1>7 DEF Settle, Locals
  <2>7. req' = [req EXCEPT ![r] = [req[r] EXCEPT !.closed = TRUE, !.actual = n, !.settled = TRUE,
             !.todo = {q \in req[r].items : Kind[q] = "tokens"}]]
    BY <1>7 DEF Settle
  <2>8. req' \in [Requests -> Locals]
    BY <1>b, <2>6, <2>7
  <2> QED BY <1>7, <2>8 DEF Settle, TypeOK
<1>8. ASSUME NEW q \in Quotas, LazyReset(r, q) PROVE TypeOK'
  <2>1. req[r].at \in Nat
    BY <1>a DEF Locals
  <2>2. ResetRow(q, req[r].at, FALSE) \/ UNCHANGED <<row, acct, past>>
    BY <1>8 DEF LazyReset
  <2>3. row' \in [Quotas -> Row] /\ acct' \in [Quotas -> Account] /\ past' \in [Quotas -> PeriodHistory]
    BY <2>1, <2>2, ResetRowType DEF TypeOK
  <2> QED BY <1>8, <2>3 DEF LazyReset, TypeOK
<1>9. ASSUME NEW q \in Quotas, Charge(r, q) PROVE TypeOK'
  <2>1. Amount(q, r) \in Int
    BY <1>0
  <2>2. row' \in [Quotas -> Row] /\ acct' \in [Quotas -> Account]
    BY <1>9, <2>1, ChargeEffect
  <2>6. [req[r] EXCEPT !.items = @ \cup {q}, !.todo = @ \ {q}] \in Locals
    BY <1>a, <1>9 DEF Charge, Locals
  <2>7. req' = [req EXCEPT ![r] = [req[r] EXCEPT !.items = @ \cup {q}, !.todo = @ \ {q}]]
    BY <1>9 DEF Charge
  <2>8. req' \in [Requests -> Locals]
    BY <1>b, <2>6, <2>7
  <2> QED BY <1>9, <2>2, <2>8 DEF Charge, TypeOK
<1>10. ASSUME NEW q \in Quotas, ChargeRefused(r, q) PROVE TypeOK'
  <2>1. q \in 0..NumQuotas
    BY QuotaAssumption DEF Quotas
  <2>6. [req[r] EXCEPT !.over = q, !.todo = req[r].items, !.closed = TRUE] \in Locals
    BY <1>a, <2>1, <1>10 DEF ChargeRefused, Locals
  <2>7. req' = [req EXCEPT ![r] = [req[r] EXCEPT !.over = q, !.todo = req[r].items, !.closed = TRUE]]
    BY <1>10 DEF ChargeRefused
  <2>8. req' \in [Requests -> Locals]
    BY <1>b, <2>6, <2>7
  <2> QED BY <1>10, <2>8 DEF ChargeRefused, TypeOK
<1>11. ASSUME NEW q \in Quotas, ReleaseItem(r, q) PROVE TypeOK'
  <2>1. -Amount(q, r) \in Int
    BY <1>0
  <2>2. row' \in [Quotas -> Row] /\ acct' \in [Quotas -> Account]
    BY <1>11, <2>1, AddUsedEffect DEF ReleaseItem
  <2>6. [req[r] EXCEPT !.todo = @ \ {q}] \in Locals
    BY <1>a, <1>11 DEF ReleaseItem, Locals
  <2>7. req' = [req EXCEPT ![r] = [req[r] EXCEPT !.todo = @ \ {q}]]
    BY <1>11 DEF ReleaseItem
  <2>8. req' \in [Requests -> Locals]
    BY <1>b, <2>6, <2>7
  <2> QED BY <1>11, <2>2, <2>8 DEF ReleaseItem, TypeOK
<1>12. ASSUME NEW q \in Quotas, SettleItem(r, q) PROVE TypeOK'
  <2> DEFINE delta == req[r].actual - Amount(q, r)
  <2>0. delta \in Int
    BY <1>0, <1>a DEF Locals
  <2>2. row' \in [Quotas -> Row] /\ acct' \in [Quotas -> Account]
    BY <1>12, <2>0, AddUsedEffect DEF SettleItem, TypeOK
  <2>6. [req[r] EXCEPT !.todo = @ \ {q}] \in Locals
    BY <1>a, <1>12 DEF SettleItem, Locals
  <2>7. req' = [req EXCEPT ![r] = [req[r] EXCEPT !.todo = @ \ {q}]]
    BY <1>12 DEF SettleItem
  <2>8. req' \in [Requests -> Locals]
    BY <1>b, <2>6, <2>7
  <2> QED BY <1>12, <2>2, <2>8 DEF SettleItem, TypeOK
<1> QED
  BY <1>1, <1>2, <1>3, <1>4, <1>5, <1>6, <1>7, <1>8, <1>9, <1>10, <1>11, <1>12
     DEF RequestStep

\* Every step of the minute job preserves the types.
LEMMA JobType == ASSUME TypeOK, JobStep PROVE TypeOK'
<1>1. CASE JobTick
  BY <1>1, QuotaAssumption DEF JobTick, TypeOK
<1>2. ASSUME NEW p \in bg.periods, JobSelect(p) PROVE TypeOK'
  BY <1>2 DEF JobSelect, TypeOK
<1>3. ASSUME NEW q \in Quotas, JobReset(q) PROVE TypeOK'
  <2>1. ResetRow(q, bg.at, TRUE) \/ UNCHANGED <<row, acct, past>>
    BY <1>3 DEF JobReset
  <2>2. bg.at \in Nat
    BY DEF TypeOK
  <2>3. row' \in [Quotas -> Row] /\ acct' \in [Quotas -> Account] /\ past' \in [Quotas -> PeriodHistory]
    BY <2>1, <2>2, ResetRowType DEF TypeOK
  <2> QED BY <1>3, <2>3 DEF JobReset, TypeOK
<1>4. CASE JobDone
  BY <1>4 DEF JobDone, IdleJob, TypeOK
<1> QED BY <1>1, <1>2, <1>3, <1>4 DEF JobStep

\* Every administrative step preserves the types.
LEMMA AdminType == ASSUME TypeOK, AdminStep PROVE TypeOK'
<1>0. /\ Quotas \subseteq 0..NumQuotas
      /\ Limits \subseteq Nat \ {0}
      /\ NoOp \in Operation
  BY QuotaAssumption DEF Quotas, NoOp, Operation, Row
<1>1. ASSUME NEW q \in Quotas, NEW op \in {"update", "reset"}, NEW lim \in Nat \ {0},
             NEW on \in BOOLEAN, AdminRead(q, op, lim, on)
      PROVE  TypeOK'
  <2>1. row[q] \in Row
    BY DEF TypeOK
  <2>2. adm' \in Operation
    BY <1>0, <1>1, <2>1 DEF AdminRead, Operation
  <2> QED BY <1>1, <2>2 DEF AdminRead, TypeOK
<1>2. ASSUME NEW q \in Quotas, NEW lim \in Limits, NEW on \in BOOLEAN, CreateQuota(q, lim, on)
      PROVE  TypeOK'
  <2>1. NewRow(q, now, lim, on, "live") \in Row
    BY <1>0, NewRowType DEF TypeOK
  <2>2. NewPeriod(NextReset(Period[q], now)) \in PeriodHistory
    BY NextResetNat, NewPeriodType, QuotaAssumption DEF TypeOK
  <2> QED BY <1>2, <2>1, <2>2, CleanAcctType DEF CreateQuota, TypeOK
<1>3. ASSUME NEW q \in Quotas, DeleteQuota(q) PROVE TypeOK'
  <2>1. [row[q] EXCEPT !.state = "deleted"] \in Row
    BY DEF Row, TypeOK
  <2>2. row' \in [Quotas -> Row]
    BY <1>3, <2>1 DEF DeleteQuota, TypeOK
  <2> QED BY <1>3, <2>2 DEF DeleteQuota, TypeOK
<1>4. CASE UpdateSave
  <2> DEFINE R == [adm.copy EXCEPT !.limit = adm.limit, !.enabled = adm.enabled]
  <2>1. R \in Row
    BY DEF TypeOK, Operation, Row
  <2>2. row' \in [Quotas -> Row]
    BY <1>4, <2>1 DEF UpdateSave, TypeOK
  <2>3. ASSUME NEW q \in Quotas PROVE [acct[q] EXCEPT !.edited = TRUE] \in Account
    <3>1. acct[q] \in Account
      BY DEF TypeOK
    <3> QED BY <3>1 DEF Account
  <2>4. acct' \in [Quotas -> Account]
    BY <1>4, <2>3 DEF UpdateSave, TypeOK
  <2> QED BY <1>0, <1>4, <2>2, <2>4 DEF UpdateSave, TypeOK
<1>5. CASE ResetSave
  <2>1. row' \in [Quotas -> Row]
    <3>1. CASE adm.q \in Quotas
      <4> DEFINE R == [adm.copy EXCEPT !.used = 0,
                                       !.resetAt = NextReset(Period[adm.q], now)]
      <4>1. NextReset(Period[adm.q], now) \in Nat
        BY <3>1, NextResetNat, QuotaAssumption DEF TypeOK
      <4>2. R \in Row
        BY <4>1 DEF TypeOK, Operation, Row
      <4> QED BY <1>5, <4>2 DEF ResetSave, TypeOK
    <3>2. CASE adm.q \notin Quotas
      BY <1>5, <3>2 DEF ResetSave, TypeOK
    <3> QED BY <3>1, <3>2
  <2>2. past' \in [Quotas -> PeriodHistory]
    <3>1. CASE adm.q \in Quotas
      <4>1. NewPeriod(NextReset(Period[adm.q], now)) \in PeriodHistory
        BY <3>1, NextResetNat, NewPeriodType, QuotaAssumption DEF TypeOK
      <4> QED BY <1>5, <4>1 DEF ResetSave, TypeOK
    <3>2. CASE adm.q \notin Quotas
      BY <1>5, <3>2 DEF ResetSave, TypeOK
    <3> QED BY <3>1, <3>2
  <2> QED BY <1>0, <1>5, <2>1, <2>2, CleanAcctType DEF ResetSave, TypeOK
<1>6. ASSUME NEW q \in Quotas, AdminRead(q, "reset", 1, TRUE) PROVE TypeOK'
  <2>1. 1 \in Nat \ {0} /\ TRUE \in BOOLEAN /\ "reset" \in {"update", "reset"}
    OBVIOUS
  <2> QED BY <1>1, <1>6, <2>1
<1>7. ASSUME NEW q \in Quotas, NEW lim \in Limits, NEW on \in BOOLEAN,
             AdminRead(q, "update", lim, on)
      PROVE  TypeOK'
  BY <1>0, <1>1, <1>7
<1> QED
  BY <1>2, <1>3, <1>4, <1>5, <1>6, <1>7 DEF AdminStep

LEMMA NextType == TypeOK /\ [Next]_vars => TypeOK'
<1> SUFFICES ASSUME TypeOK, [Next]_vars PROVE TypeOK'
  OBVIOUS
<1>1. CASE \E r \in Requests : RequestStep(r)
  BY <1>1, RequestType
<1>2. CASE JobStep
  BY <1>2, JobType
<1>3. CASE AdminStep
  BY <1>3, AdminType
<1>4. CASE Reload
  BY <1>4, SnapshotType DEF Reload, TypeOK
<1>5. CASE Tick
  BY <1>5 DEF Tick, TypeOK
<1>6. CASE Crash
  <2>1. NoLocals \in Locals
    BY QuotaAssumption DEF NoLocals, Locals, SnapRow
  <2>2. NoOp \in Operation
    BY QuotaAssumption DEF NoOp, Operation, Row
  <2>3. req' \in [Requests -> Locals] /\ pc' \in [Requests -> Labels]
    BY <1>6, <2>1 DEF Crash, TypeOK, Labels, Finished
  <2> QED BY <1>6, <2>2, <2>3, SnapshotType DEF Crash, TypeOK, IdleJob
<1>7. CASE UNCHANGED vars
  BY <1>7 DEF vars, TypeOK
<1> QED BY <1>1, <1>2, <1>3, <1>4, <1>5, <1>6, <1>7 DEF Next

\* Rows, snapshots, receipts and the accounting history keep their types
\* through every interleaving of requests, job, administrator and crashes.
THEOREM TypeCorrect == Spec => []TypeOK
BY InitType, NextType, PTL DEF Spec

-----------------------------------------------------------------------------
\* Labels, loop sets and receipts of the requests stay consistent.
LEMMA ControlNext ==
    ASSUME TypeOK, \A r \in Requests : Control(r), [Next]_vars, NEW s \in Requests
    PROVE  Control(s)'
<1> USE DEF Goto, Control
<1>a. req[s] \in Locals /\ pc \in [Requests -> Labels] /\ req \in [Requests -> Locals]
  BY DEF TypeOK
<1>b. ASSUME UNCHANGED <<pc, req>> PROVE Control(s)'
  BY <1>b
<1>1. ASSUME NEW r \in Requests, RequestStep(r) PROVE Control(s)'
  <2>1. CASE BeginReserve(r)
    BY <1>a, <2>1 DEF BeginReserve, Locals
  <2>2. CASE Reserved(r)
    BY <1>a, <2>2 DEF Reserved, Locals
  <2>3. CASE Degrade(r)
    BY <1>a, <2>3 DEF Degrade, Locals
  <2>4. CASE Reject(r)
    BY <1>a, <2>4 DEF Reject, Locals
  <2>5. CASE DeferredRelease(r)
    BY <1>a, <2>5 DEF DeferredRelease, Locals
  <2>6. CASE Released(r)
    BY <1>a, <2>6 DEF Released, Locals
  <2>7. ASSUME NEW n \in Usages, Settle(r, n) PROVE Control(s)'
    BY <1>a, <2>7 DEF Settle, Locals
  <2>8. ASSUME NEW q \in Quotas, LazyReset(r, q) PROVE Control(s)'
    BY <1>a, <2>8 DEF LazyReset, Locals
  <2>9. ASSUME NEW q \in Quotas, Charge(r, q) PROVE Control(s)'
    BY <1>a, <2>9 DEF Charge, Locals, AtCharge, First
  <2>10. ASSUME NEW q \in Quotas, ChargeRefused(r, q) PROVE Control(s)'
    BY <1>a, <2>10 DEF ChargeRefused, Locals, AtCharge, First
  <2>11. ASSUME NEW q \in Quotas, ReleaseItem(r, q) PROVE Control(s)'
    BY <1>a, <2>11 DEF ReleaseItem, Locals, First
  <2>12. ASSUME NEW q \in Quotas, SettleItem(r, q) PROVE Control(s)'
    BY <1>a, <2>12 DEF SettleItem, Locals, First
  <2> QED
    BY <1>1, <2>1, <2>2, <2>3, <2>4, <2>5, <2>6, <2>7, <2>8, <2>9, <2>10, <2>11, <2>12
       DEF RequestStep
<1>2. CASE JobStep
  BY <1>b, <1>2 DEF JobStep, JobTick, JobSelect, JobReset, JobDone
<1>3. CASE AdminStep
  BY <1>b, <1>3 DEF AdminStep, AdminRead, CreateQuota, DeleteQuota, UpdateSave, ResetSave
<1>4. CASE Reload \/ Tick \/ UNCHANGED vars
  BY <1>b, <1>4 DEF Reload, Tick, vars
<1>5. CASE Crash
  BY <1>a, <1>5 DEF Crash, InFlight, Finished, NoLocals
<1> QED BY <1>1, <1>2, <1>3, <1>4, <1>5 DEF Next

\* The administrator's pending update keeps its row.
LEMMA AdminNext ==
    ASSUME TypeOK, AdminInv, [Next]_vars
    PROVE  AdminInv'
<1> USE DEF AdminInv, Live
<1>a. ASSUME UNCHANGED adm, \A q \in Quotas : Live(q) => Live(q)'
      PROVE  AdminInv'
  BY <1>a
<1>b. ASSUME NEW q \in Quotas, NEW t, NEW job, ResetRow(q, t, job)
      PROVE  \A p \in Quotas : Live(p) => Live(p)'
  BY <1>b DEF ResetRow, TypeOK, Row
<1>1. ASSUME NEW r \in Requests, RequestStep(r) PROVE AdminInv'
  <2>1. UNCHANGED adm
    BY <1>1 DEF RequestStep, BeginReserve, Reserved, Degrade, Reject, DeferredRelease,
           Released, Settle, LazyReset, Charge, ChargeRefused, ReleaseItem, SettleItem
  <2>2. CASE UNCHANGED row
    BY <1>a, <2>1, <2>2
  <2>3. ASSUME NEW q \in Quotas, LazyReset(r, q) PROVE AdminInv'
    BY <1>a, <1>b, <2>1, <2>3 DEF LazyReset
  <2>4. ASSUME NEW q \in Quotas, NEW v, row' = [row EXCEPT ![q].used = v]
        PROVE  AdminInv'
    <3>1. \A p \in Quotas : Live(p) => Live(p)'
      BY <2>4 DEF TypeOK, Row
    <3> QED BY <1>a, <2>1, <3>1
  <2>5. \/ UNCHANGED row
        \/ \E q \in Quotas : LazyReset(r, q)
        \/ \E q \in Quotas : \E v : row' = [row EXCEPT ![q].used = v]
    BY <1>1 DEF RequestStep, BeginReserve, Reserved, Degrade, Reject, DeferredRelease,
           Released, Settle, Charge, ChargeRefused, ReleaseItem, AddUsed, SettleItem
  <2> QED BY <2>2, <2>3, <2>4, <2>5
<1>2. CASE JobStep
  <2>1. UNCHANGED adm
    BY <1>2 DEF JobStep, JobTick, JobSelect, JobReset, JobDone
  <2>2. \A q \in Quotas : Live(q) => Live(q)'
    BY <1>2, <1>b DEF JobStep, JobTick, JobSelect, JobReset, JobDone
  <2> QED BY <1>a, <2>1, <2>2
<1>3. CASE AdminStep
  <2>1. ASSUME NEW q \in Quotas, NEW op, NEW lim, NEW on, AdminRead(q, op, lim, on)
        PROVE  AdminInv'
    BY <2>1 DEF AdminRead
  <2>2. ASSUME NEW q \in Quotas, NEW lim, NEW on, CreateQuota(q, lim, on) PROVE AdminInv'
    BY <2>2 DEF CreateQuota
  <2>3. ASSUME NEW q \in Quotas, DeleteQuota(q) PROVE AdminInv'
    BY <2>3 DEF DeleteQuota
  <2>4. CASE UpdateSave \/ ResetSave
    BY <2>4 DEF UpdateSave, ResetSave, NoOp
  <2> QED BY <1>3, <2>1, <2>2, <2>3, <2>4 DEF AdminStep
<1>4. CASE Reload \/ Tick \/ UNCHANGED vars
  BY <1>4 DEF Reload, Tick, vars
<1>5. CASE Crash
  BY <1>5 DEF Crash, NoOp
<1> QED BY <1>1, <1>2, <1>3, <1>4, <1>5 DEF Next

\* A live row holds of a request exactly what its receipt stands for.
LEMMA ShareNext ==
    ASSUME TypeOK, \A r \in Requests : Control(r), AdminInv,
           \A r \in Requests, q \in Quotas : ShareOf(r, q), [Next]_vars,
           NEW s \in Requests, NEW p \in Quotas
    PROVE  ShareOf(s, p)'
<1> USE DEF ShareOf, Outstanding, Share, Live, Goto
<1>a. /\ pc \in [Requests -> Labels] /\ req \in [Requests -> Locals] /\ req[s] \in Locals
      /\ row \in [Quotas -> Row] /\ row[p] \in Row
      /\ acct \in [Quotas -> Account] /\ acct[p] \in Account
  BY DEF TypeOK
<1>b. Control(s) /\ ShareOf(s, p)
  OBVIOUS
<1>c. ASSUME pc'[s] = pc[s], req'[s] = req[s], Live(p)' => Live(p), acct'[p] = acct[p]
      PROVE  ShareOf(s, p)'
  BY <1>b, <1>c DEF Amount
<1>d. ASSUME acct'[p] = CleanAcct PROVE ShareOf(s, p)'
  BY <1>d DEF CleanAcct
<1>e. ASSUME NEW q \in Quotas, NEW t, NEW job, ResetRow(q, t, job), pc'[s] = pc[s], req'[s] = req[s]
      PROVE  ShareOf(s, p)'
  <2>1. CASE q = p
    BY <1>a, <1>d, <1>e, <2>1 DEF ResetRow
  <2>2. CASE q # p
    BY <1>a, <1>c, <1>e, <2>2 DEF ResetRow
  <2> QED BY <2>1, <2>2
<1>1. ASSUME NEW r \in Requests, RequestStep(r) PROVE ShareOf(s, p)'
  <2>a. Amount(p, s) \in Nat \ {0}
    BY AmountPos
  <2>1. CASE BeginReserve(r)
    BY <1>a, <1>b, <2>a, <2>1 DEF BeginReserve, Locals, Control, Amount
  <2>2. CASE Reserved(r)
    BY <1>a, <1>b, <2>a, <2>2 DEF Reserved, Locals, Control, Amount
  <2>3. CASE Degrade(r)
    BY <1>a, <1>b, <2>a, <2>3 DEF Degrade, Locals, Control, Amount
  <2>4. CASE Reject(r)
    BY <1>a, <1>b, <2>a, <2>4 DEF Reject, Locals, Control, Amount
  <2>5. CASE DeferredRelease(r)
    <3>1. acct' = acct /\ row' = row
      BY <2>5 DEF DeferredRelease
    <3>2. CASE s # r
      <4>1. pc'[s] = pc[s] /\ req'[s] = req[s]
        BY <1>a, <2>5, <3>2 DEF DeferredRelease
      <4> QED BY <1>c, <3>1, <4>1
    <3>3. CASE s = r /\ req[s].closed
      <4>1. pc[s] = "settle" /\ req[s].todo = {} /\ pc'[s] = "done" /\ req'[s] = req[s]
        BY <1>a, <1>b, <2>5, <3>3 DEF DeferredRelease, Control
      <4>2. req[s].settled
        BY <1>b, <4>1 DEF Control
      <4> QED BY <1>b, <3>1, <4>1, <4>2 DEF Amount
    <3>4. CASE s = r /\ ~req[s].closed
      <4>1. /\ pc[s] = "held" /\ pc'[s] = "release"
            /\ req'[s].items = req[s].items /\ req'[s].todo = req[s].items
            /\ req'[s].settled = req[s].settled /\ req'[s].actual = req[s].actual
        BY <1>a, <1>b, <2>5, <3>4 DEF DeferredRelease, Control, Locals
      <4>2. ~req[s].settled
        BY <1>b, <4>1 DEF Control
      <4> QED BY <1>b, <3>1, <4>1, <4>2 DEF Amount
    <3> QED BY <3>2, <3>3, <3>4
  <2>6. CASE Released(r)
    BY <1>a, <1>b, <2>a, <2>6 DEF Released, Locals, Control, Amount
  <2>7. ASSUME NEW n \in Usages, Settle(r, n) PROVE ShareOf(s, p)'
    <3>1. acct' = acct /\ row' = row
      BY <2>7 DEF Settle
    <3>2. CASE s # r
      BY <1>a, <1>c, <2>7, <3>1, <3>2 DEF Settle
    <3>3. CASE s = r
      <4>1. /\ pc[s] = "held" /\ pc'[s] = "settle" /\ req'[s].items = req[s].items
            /\ req'[s].todo = {q \in req[s].items : Kind[q] = "tokens"}
        BY <1>a, <2>7, <3>3 DEF Settle, Locals
      <4>2. ~req[s].settled
        BY <1>b, <4>1 DEF Control
      <4> QED BY <1>b, <3>1, <4>1, <4>2 DEF Amount
    <3> QED BY <3>2, <3>3
  <2>8. ASSUME NEW q \in Quotas, LazyReset(r, q) PROVE ShareOf(s, p)'
    <3>0. req' = req /\ pc[r] = "reserve" /\ pc' = [pc EXCEPT ![r] = "charge"]
      BY <2>8 DEF LazyReset
    <3>1. pc'[s] = pc[s] \/ (pc[s] = "reserve" /\ pc'[s] = "charge")
      <4>1. pc \in [Requests -> Labels]
        BY <1>a
      <4>2. s # r => pc'[s] = pc[s]
        BY <3>0, <4>1
      <4>3. s = r => pc'[s] = "charge"
        BY <3>0, <4>1
      <4>4. pc[r] = "reserve"
        BY <3>0
      <4> QED BY <4>2, <4>3, <4>4
    <3>2. CASE ResetRow(q, req[r].at, FALSE) /\ q = p
      <4>1. acct'[p] = CleanAcct
        BY <1>a, <3>2 DEF ResetRow
      <4> QED BY <1>d, <4>1
    <3>3. CASE ~(ResetRow(q, req[r].at, FALSE) /\ q = p)
      <4>1. acct'[p] = acct[p] /\ (Live(p)' => Live(p))
        BY <1>a, <2>8, <3>3 DEF LazyReset, ResetRow
      <4>2. req' = req
        BY <3>0
      <4> QED BY <1>b, <3>1, <4>1, <4>2 DEF Amount
    <3> QED BY <3>2, <3>3
  <2>9. ASSUME NEW q \in Quotas, Charge(r, q) PROVE ShareOf(s, p)'
    <3>1. /\ row'[p].state = row[p].state
          /\ acct'[p].since = IF p = q THEN acct[p].since \cup {r} ELSE acct[p].since
          /\ acct[q].by[r] = 0 => acct'[q].by[r] = Amount(q, r)
          /\ ~(p = q /\ s = r) => acct'[p].by[s] = acct[p].by[s]
      <4>1. TypeOK /\ Amount(q, r) \in Int
        BY AmountPos
      <4> HIDE DEF ShareOf, Live, Outstanding, Share, Goto
      <4> QED BY <2>9, <4>1, ChargeEffect
    <3>2. CASE s # r
      <4>1. pc'[s] = pc[s] /\ req'[s] = req[s]
        BY <1>a, <2>9, <3>2 DEF Charge
      <4> QED BY <1>b, <3>1, <3>2, <4>1 DEF Amount
    <3>3. CASE s = r
      <4>1. /\ pc[s] \in {"reserve", "charge"} /\ pc'[s] = "reserve" /\ q \in req[s].todo
            /\ req'[s].items = req[s].items \cup {q} /\ req'[s].settled = req[s].settled
            /\ Live(q)
        BY <1>a, <2>9, <3>3 DEF Charge, AtCharge, Chargeable, First, Locals
      <4>2. ~req[s].settled /\ q \notin req[s].items
        BY <1>b, <4>1 DEF Control
      <4>3. CASE p # q
        BY <1>b, <3>1, <4>1, <4>2, <4>3 DEF Amount
      <4>4. CASE p = q
        <5>1. acct[p].by[s] = 0
          BY <1>b, <4>1, <4>2, <4>4
        <5>2. acct'[p].by[s] = Amount(p, s) /\ s \in acct'[p].since
          BY <3>1, <3>3, <4>4, <5>1
        <5> QED BY <4>1, <4>2, <4>4, <5>2 DEF Amount
      <4> QED BY <4>3, <4>4
    <3> QED BY <3>2, <3>3
  <2>10. ASSUME NEW q \in Quotas, ChargeRefused(r, q) PROVE ShareOf(s, p)'
    BY <1>a, <1>b, <2>a, <2>10 DEF ChargeRefused, AtCharge, Locals, Control, Amount
  <2>11. ASSUME NEW q \in Quotas, ReleaseItem(r, q) PROVE ShareOf(s, p)'
    <3>0. Amount(q, r) \in Nat \ {0} /\ -Amount(q, r) \in Int
      BY AmountPos
    <3>1. /\ pc' = pc /\ pc[r] \in {"rollback", "release"} /\ q \in req[r].todo
          /\ req'[s].items = req[s].items /\ req'[s].settled = req[s].settled
          /\ req'[s].actual = req[s].actual
          /\ req'[s].todo = IF s = r THEN req[s].todo \ {q} ELSE req[s].todo
      BY <1>a, <2>11 DEF ReleaseItem, First, Locals
    <3>2. /\ row'[p].state = row[p].state
          /\ acct'[p].since = acct[p].since
          /\ acct'[p].by[s] = IF p = q /\ s = r /\ Live(q) /\ (r \in acct[p].since \/ -Amount(q, r) > 0)
                              THEN acct[p].by[s] + -Amount(q, r) ELSE acct[p].by[s]
      <4> HIDE DEF ShareOf, Live
      <4> QED BY <2>11, <3>0, AddUsedEffect DEF ReleaseItem
    <3>3. acct'[p].by[s] = IF s = r /\ p = q /\ Live(q) /\ r \in acct[p].since
                           THEN acct[p].by[s] - Amount(q, r) ELSE acct[p].by[s]
      <4>1. ~(-Amount(q, r) > 0) /\ acct[p].by[s] \in Int
        BY <1>a, <3>0 DEF Account
      <4> QED BY <3>0, <3>2, <4>1
    <3>4. CASE ~(s = r /\ p = q)
      BY <1>b, <3>1, <3>2, <3>3, <3>4 DEF Amount
    <3>5. CASE s = r /\ p = q /\ Live(p)
      <4>1. ~req[s].settled /\ req[s].todo \subseteq req[s].items
        BY <1>b, <3>1, <3>5 DEF Control
      <4>2. s \in acct[p].since => acct[p].by[s] = Amount(p, s)
        BY <1>b, <3>1, <3>5, <4>1
      <4>3. s \in acct[p].since => acct'[p].by[s] = 0
        BY <2>a, <3>3, <3>5, <4>2
      <4>4. s \notin acct[p].since => acct'[p].by[s] = acct[p].by[s]
        BY <3>3, <3>5
      <4>5. ~Outstanding(s, p)'
        BY <3>1, <3>5
      <4>6. s \notin acct[p].since => acct[p].by[s] = 0
        BY <1>b, <3>1, <3>5
      <4> QED BY <3>2, <4>3, <4>4, <4>5, <4>6
    <3> QED BY <3>2, <3>4, <3>5
  <2>12. ASSUME NEW q \in Quotas, SettleItem(r, q) PROVE ShareOf(s, p)'
    <3> DEFINE delta == req[r].actual - Amount(q, r)
    <3>0. delta \in Int /\ Amount(q, r) \in Nat \ {0}
      BY AmountPos DEF TypeOK, Locals
    <3>1. /\ pc' = pc /\ pc[r] = "settle" /\ q \in req[r].todo
          /\ req'[s].items = req[s].items /\ req'[s].settled = req[s].settled
          /\ req'[s].actual = req[s].actual
          /\ req'[s].todo = IF s = r THEN req[s].todo \ {q} ELSE req[s].todo
      BY <1>a, <2>12 DEF SettleItem, First, Locals
    <3>2. /\ row'[p].state = row[p].state
          /\ acct'[p].since = acct[p].since
          /\ acct'[p].by[s] = IF p = q /\ s = r /\ Live(q) /\ (r \in acct[p].since \/ delta > 0)
                              THEN acct[p].by[s] + delta ELSE acct[p].by[s]
      <4> HIDE DEF ShareOf, Live
      <4>1. CASE delta # 0
        BY <2>12, <3>0, <4>1, AddUsedEffect DEF SettleItem
      <4>2. CASE delta = 0
        <5>1. acct[p].by[s] \in Int
          BY <1>a DEF Account
        <5>2. row' = row /\ acct' = acct
          BY <2>12, <4>2 DEF SettleItem
        <5> HIDE DEF delta
        <5> QED BY <4>2, <5>1, <5>2
      <4> QED BY <4>1, <4>2
    <3> HIDE DEF delta
    <3>5. CASE ~(s = r /\ p = q)
      <4>1. acct'[p].by[s] = acct[p].by[s]
        BY <3>2, <3>5
      <4> QED BY <1>b, <3>1, <3>2, <3>5, <4>1 DEF Amount
    <3>6. CASE s = r /\ p = q /\ Live(p)
      <4>1. /\ req[s].settled /\ req[s].todo \subseteq req[s].items
            /\ Kind[p] = "tokens" /\ req[s].actual \in Nat
        BY <1>a, <1>b, <3>1, <3>6 DEF Control, Locals
      <4>2. s \in acct[p].since => acct'[p].by[s] = acct[p].by[s] + delta
        BY <3>0, <3>2, <3>6
      <4>3. s \in acct[p].since => acct[p].by[s] = Amount(p, s)
        BY <1>b, <3>1, <3>6, <4>1
      <4>4. s \in acct[p].since => acct'[p].by[s] = req[s].actual
        BY <2>a, <3>0, <3>6, <4>1, <4>2, <4>3 DEF delta
      <4>5. Outstanding(s, p)' /\ Share(s, p)' = req[s].actual
        BY <3>1, <3>6, <4>1
      <4> QED BY <3>1, <3>2, <3>6, <4>1, <4>4, <4>5
    <3> QED BY <3>2, <3>5, <3>6
  <2> QED
    BY <1>1, <2>1, <2>2, <2>3, <2>4, <2>5, <2>6, <2>7, <2>8, <2>9, <2>10, <2>11, <2>12
       DEF RequestStep
<1>2. CASE JobStep
  <2>1. pc'[s] = pc[s] /\ req'[s] = req[s]
    BY <1>2 DEF JobStep, JobTick, JobSelect, JobReset, JobDone
  <2>2. ASSUME NEW q \in Quotas, JobReset(q) PROVE ShareOf(s, p)'
    BY <1>c, <1>e, <2>1, <2>2 DEF JobReset
  <2>3. CASE UNCHANGED <<row, acct>>
    BY <1>c, <2>1, <2>3
  <2> QED BY <1>2, <2>2, <2>3 DEF JobStep, JobTick, JobSelect, JobDone
<1>3. CASE AdminStep
  <2>0. pc'[s] = pc[s] /\ req'[s] = req[s]
    BY <1>3 DEF AdminStep, AdminRead, CreateQuota, DeleteQuota, UpdateSave, ResetSave
  <2>1. ASSUME NEW q \in Quotas, NEW op, NEW lim, NEW on, AdminRead(q, op, lim, on)
        PROVE  ShareOf(s, p)'
    BY <1>c, <2>0, <2>1 DEF AdminRead
  <2>2. ASSUME NEW q \in Quotas, NEW lim, NEW on, CreateQuota(q, lim, on) PROVE ShareOf(s, p)'
    <3>1. CASE q = p
      BY <1>a, <1>d, <2>2, <3>1 DEF CreateQuota
    <3>2. CASE q # p
      BY <1>a, <1>c, <2>0, <2>2, <3>2 DEF CreateQuota
    <3> QED BY <3>1, <3>2
  <2>3. ASSUME NEW q \in Quotas, DeleteQuota(q) PROVE ShareOf(s, p)'
    <3>1. Live(p)' => Live(p)
      BY <1>a, <2>3 DEF DeleteQuota, Row
    <3> QED BY <1>c, <2>0, <2>3, <3>1 DEF DeleteQuota
  <2>4. CASE UpdateSave
    <3>1. Live(p)' => Live(p)
      BY <1>a, <2>4 DEF UpdateSave, AdminInv
    <3>2. acct'[p].since = acct[p].since /\ acct'[p].by = acct[p].by
      BY <1>a, <2>4 DEF UpdateSave, Account
    <3> QED BY <1>b, <2>0, <3>1, <3>2 DEF Amount
  <2>5. CASE ResetSave
    <3>1. CASE adm.q = p
      BY <1>a, <1>d, <2>5, <3>1 DEF ResetSave
    <3>2. CASE adm.q # p
      BY <1>a, <1>c, <2>0, <2>5, <3>2 DEF ResetSave
    <3> QED BY <3>1, <3>2
  <2> QED BY <1>3, <2>1, <2>2, <2>3, <2>4, <2>5 DEF AdminStep
<1>4. CASE Reload \/ Tick \/ UNCHANGED vars
  BY <1>c, <1>4 DEF Reload, Tick, vars
<1>5. CASE Crash
  BY <1>a, <1>b, <1>5 DEF Crash, InFlight, Finished, Amount
<1> QED BY <1>1, <1>2, <1>3, <1>4, <1>5 DEF Next

-----------------------------------------------------------------------------
\* One request more in a row.
\* It grows or shrinks by one when one request's share changes sign.
LEMMA ChargedAdd ==
    ASSUME NEW q \in Quotas, NEW r \in Requests, acct[q].by[r] = 0, acct'[q].by[r] > 0,
           \A s \in Requests : s # r => acct'[q].by[s] = acct[q].by[s]
    PROVE  Cardinality(Charged(q)') = Cardinality(Charged(q)) + 1
<1>1. Charged(q)' = Charged(q) \cup {r} /\ r \notin Charged(q)
  BY DEF Charged
<1> QED BY <1>1, ChargedFinite, FS_AddElement

\* One request less.
LEMMA ChargedRemove ==
    ASSUME NEW q \in Quotas, NEW r \in Requests, acct[q].by[r] > 0, acct'[q].by[r] = 0,
           \A s \in Requests : s # r => acct'[q].by[s] = acct[q].by[s]
    PROVE  Cardinality(Charged(q)') = Cardinality(Charged(q)) - 1
<1>1. Charged(q)' = Charged(q) \ {r} /\ r \in Charged(q)
  BY DEF Charged
<1> QED BY <1>1, ChargedFinite, FS_RemoveElement

\* The same requests.
LEMMA ChargedSame ==
    ASSUME NEW q \in Quotas, \A s \in Requests : acct'[q].by[s] = acct[q].by[s]
    PROVE  Charged(q)' = Charged(q)
BY DEF Charged

\* A reset empties the row.
LEMMA ChargedClean ==
    ASSUME NEW q \in Quotas, acct'[q] = CleanAcct
    PROVE  Cardinality(Charged(q)') = 0
<1>1. Charged(q)' = {}
  BY DEF Charged, CleanAcct
<1> QED BY <1>1, FS_EmptySet

\* The counter of a "requests" row follows the requests charged in it.
LEMMA CounterNext ==
    ASSUME TypeOK, \A r \in Requests : Control(r), AdminInv,
           \A r \in Requests, q \in Quotas : ShareOf(r, q), [Next]_vars,
           NEW p \in Quotas, Counter(p)
    PROVE  Counter(p)'
<1>a. /\ row \in [Quotas -> Row] /\ row[p] \in Row /\ acct \in [Quotas -> Account]
      /\ row[p].used \in Nat /\ row[p].limit \in Nat \ {0}
      /\ acct[p].stray \in Nat /\ acct[p] \in Account
  BY DEF TypeOK, Row, Account
<1>n. Cardinality(Charged(p)) \in Nat
  BY ChargedFinite
<1>b. ASSUME row'[p] = row[p], acct'[p] = acct[p] PROVE Counter(p)'
  <2>1. Charged(p)' = Charged(p)
    BY <1>b, ChargedSame
  <2> QED BY <1>b, <2>1 DEF Counter
<1>c. ASSUME row'[p].used = 0, row'[p].limit \in Nat, acct'[p] = CleanAcct PROVE Counter(p)'
  <2>1. Cardinality(Charged(p)') = 0
    BY <1>c, ChargedClean
  <2>2. acct'[p].stray = 0
    BY <1>c DEF CleanAcct
  <2> QED BY <1>c, <2>1, <2>2 DEF Counter
<1>d. ASSUME NEW q \in Quotas, NEW t, NEW job, ResetRow(q, t, job) PROVE Counter(p)'
  <2>1. CASE q = p
    <3>1. row'[p].used = 0 /\ row'[p].limit = row[p].limit /\ acct'[p] = CleanAcct
      BY <1>a, <1>d, <2>1 DEF ResetRow, Row
    <3> QED BY <1>a, <1>c, <3>1
  <2>2. CASE q # p
    BY <1>a, <1>b, <1>d, <2>2 DEF ResetRow
  <2> QED BY <2>1, <2>2
<1>1. ASSUME NEW r \in Requests, RequestStep(r) PROVE Counter(p)'
  <2>1. CASE UNCHANGED <<row, acct>>
    BY <1>b, <2>1
  <2>2. ASSUME NEW q \in Quotas, LazyReset(r, q) PROVE Counter(p)'
    BY <1>d, <2>1, <2>2 DEF LazyReset
  <2>3. ASSUME NEW q \in Quotas, Charge(r, q), Kind[p] = "requests", ~acct'[p].edited
        PROVE Counter(p)'
    <3>c. Charge(r, q) /\ TypeOK /\ Amount(q, r) \in Int
      BY <2>3, AmountPos
    <3>0. row'[p].limit = row[p].limit /\ acct'[p].stray = acct[p].stray
          /\ acct'[p].edited = acct[p].edited
      BY <3>c, ChargeEffect
    <3>u. p = q => row'[p].used = row[p].used + Amount(q, r)
      BY <1>a, <3>c DEF Charge, Row
    <3>b. /\ p # q => row'[p].used = row[p].used
          /\ acct[q].by[r] = 0 => acct'[q].by[r] = Amount(q, r)
          /\ \A s \in Requests : ~(p = q /\ s = r) => acct'[p].by[s] = acct[p].by[s]
      <4>1. p # q => row'[p].used = row[p].used
        BY <3>c, ChargeEffect
      <4>2. acct[q].by[r] = 0 => acct'[q].by[r] = Amount(q, r)
        BY <3>c, ChargeEffect
      <4>3. ASSUME NEW s \in Requests, ~(p = q /\ s = r) PROVE acct'[p].by[s] = acct[p].by[s]
        BY <3>c, <4>3, ChargeOthers
      <4> QED BY <4>1, <4>2, <4>3
    <3>1. CASE p # q
      <4>1. Charged(p)' = Charged(p)
        BY <3>1, <3>b, ChargedSame
      <4> QED BY <3>0, <3>1, <3>b, <4>1 DEF Counter
    <3>2. CASE p = q
      <4>1. Amount(p, r) = 1
        BY <2>3 DEF Amount
      <4>2. /\ q \in req[r].todo /\ pc[r] \in {"reserve", "charge"} /\ Live(q)
            /\ row[q].used + Amount(q, r) <= row[q].limit
        BY <2>3 DEF Charge, AtCharge, Chargeable, First
      <4>3. q \notin req[r].items
        BY <4>2 DEF Control
      <4>4. acct[p].by[r] = 0
        BY <3>2, <4>2, <4>3 DEF ShareOf, Outstanding
      <4>5. Cardinality(Charged(p)') = Cardinality(Charged(p)) + 1
        BY <3>2, <3>b, <4>1, <4>4, ChargedAdd
      <4> QED BY <1>a, <1>n, <2>3, <3>0, <3>2, <3>u, <4>1, <4>2, <4>5 DEF Counter
    <3> QED BY <3>1, <3>2
  <2>4. ASSUME NEW q \in Quotas, NEW d \in Int, AddUsed(r, q, d), p # q PROVE Counter(p)'
    <3>1. /\ row'[p].limit = row[p].limit /\ row'[p].used = row[p].used
          /\ acct'[p].edited = acct[p].edited /\ acct'[p].stray = acct[p].stray
          /\ \A s \in Requests : acct'[p].by[s] = acct[p].by[s]
      BY <2>4, AddUsedEffect
    <3>2. Charged(p)' = Charged(p)
      BY <3>1, ChargedSame
    <3> QED BY <3>1, <3>2 DEF Counter
  <2>5. ASSUME NEW q \in Quotas, ReleaseItem(r, q) PROVE Counter(p)'
    <3>0. Amount(q, r) \in Nat \ {0} /\ -Amount(q, r) \in Int
      BY AmountPos
    <3>1. CASE p # q
      BY <2>4, <2>5, <3>0, <3>1 DEF ReleaseItem
    <3>2. CASE ~Live(q)
      BY <2>1, <2>5, <3>2 DEF ReleaseItem, AddUsed
    <3>3. CASE p = q /\ Live(p) /\ Kind[p] = "requests" /\ ~acct'[p].edited
      <4>1. Amount(p, r) = 1
        BY <3>3 DEF Amount
      <4>2. /\ row'[p].limit = row[p].limit /\ row'[p].used = Floor0(row[p].used + -1)
            /\ acct'[p].edited = acct[p].edited
            /\ acct'[p].stray = IF ~(r \in acct[p].since \/ -1 > 0)
                               THEN acct[p].stray - -1 ELSE acct[p].stray
            /\ \A s \in Requests : acct'[p].by[s] =
                  IF s = r /\ (r \in acct[p].since \/ -1 > 0)
                  THEN acct[p].by[s] + -1 ELSE acct[p].by[s]
        <5>1. AddUsed(r, p, -1) /\ -1 \in Int
          BY <2>5, <3>3, <4>1 DEF ReleaseItem
        <5> QED BY <3>3, <5>1, AddUsedEffect
      <4>3. /\ pc[r] \in {"rollback", "release"} /\ p \in req[r].todo
            /\ p \in req[r].items
        BY <2>5, <3>3 DEF ReleaseItem, First, Control
      <4>4. row'[p].used <= row[p].used /\ row'[p].used >= row[p].used - 1
            /\ row'[p].used \in Nat /\ (row[p].used > 0 => row'[p].used = row[p].used - 1)
        BY <1>a, <4>2 DEF Floor0
      <4>5. CASE r \in acct[p].since
        <5>1. acct[p].by[r] = 1
          BY <3>3, <4>1, <4>3, <4>5 DEF ShareOf, Outstanding, Share
        <5>2. acct'[p].by[r] = 0 /\ acct'[p].stray = acct[p].stray
          BY <4>2, <4>5, <5>1
        <5>3. Cardinality(Charged(p)') = Cardinality(Charged(p)) - 1
          BY <4>2, <5>1, <5>2, ChargedRemove
        <5>4. Cardinality(Charged(p)') \in Nat
          <6>1. Charged(p)' \subseteq Requests /\ IsFiniteSet(Requests)
            BY QuotaAssumption DEF Charged
          <6> QED BY <6>1, FS_Subset, FS_CardinalityType
        <5> QED BY <1>a, <1>n, <3>3, <4>2, <4>4, <5>2, <5>3, <5>4 DEF Counter
      <4>6. CASE r \notin acct[p].since
        <5>1. acct'[p].stray = acct[p].stray + 1
          BY <1>a, <4>2, <4>6
        <5>2. Charged(p)' = Charged(p)
          BY <4>2, <4>6, ChargedSame
        <5> QED BY <1>a, <1>n, <3>3, <4>2, <4>4, <5>1, <5>2 DEF Counter
      <4> QED BY <4>5, <4>6
    <3> QED BY <3>1, <3>2, <3>3 DEF Counter
  <2>6. ASSUME NEW q \in Quotas, SettleItem(r, q) PROVE Counter(p)'
    <3> DEFINE delta == req[r].actual - Amount(q, r)
    <3>0. delta \in Int
      <4>1. req[r].actual \in Nat
        BY DEF TypeOK, Locals
      <4> QED BY <4>1, AmountPos
    <3>1. CASE p # q
      BY <2>1, <2>4, <2>6, <3>0, <3>1 DEF SettleItem
    <3>2. CASE p = q
      <4>1. Kind[p] = "tokens"
        BY <2>6, <3>2 DEF SettleItem, First, Control
      <4> QED BY <4>1 DEF Counter
    <3> QED BY <3>1, <3>2
  <2> QED
    BY <1>1, <2>1, <2>2, <2>3, <2>5, <2>6
       DEF RequestStep, BeginReserve, Reserved, Degrade, Reject, DeferredRelease,
           Released, Settle, ChargeRefused, Counter
<1>2. CASE JobStep
  BY <1>2, <1>b, <1>d DEF JobStep, JobTick, JobSelect, JobReset, JobDone
<1>3. CASE AdminStep
  <2>1. ASSUME NEW q \in Quotas, NEW op, NEW lim, NEW on, AdminRead(q, op, lim, on)
        PROVE  Counter(p)'
    BY <1>b, <2>1 DEF AdminRead
  <2>2. ASSUME NEW q \in Quotas, NEW lim \in Limits, NEW on \in BOOLEAN, CreateQuota(q, lim, on) PROVE Counter(p)'
    <3>1. CASE q = p
      <4>1. row'[p].used = 0 /\ row'[p].limit = lim /\ acct'[p] = CleanAcct
        BY <1>a, <2>2, <3>1 DEF CreateQuota, NewRow
      <4> QED BY <1>c, <4>1, QuotaAssumption
    <3>2. CASE q # p
      BY <1>a, <1>b, <2>2, <3>2 DEF CreateQuota
    <3> QED BY <3>1, <3>2
  <2>3. ASSUME NEW q \in Quotas, DeleteQuota(q) PROVE Counter(p)'
    <3>1. row'[p].used = row[p].used /\ row'[p].limit = row[p].limit /\ acct' = acct
      BY <1>a, <2>3 DEF DeleteQuota, Row
    <3>2. Charged(p)' = Charged(p)
      BY <3>1, ChargedSame
    <3> QED BY <3>1, <3>2 DEF Counter
  <2>4. CASE UpdateSave
    <3>1. CASE adm.q = p
      <4>1. acct'[p].edited = TRUE
        BY <1>a, <2>4, <3>1 DEF UpdateSave, Account
      <4> QED BY <4>1 DEF Counter
    <3>2. CASE adm.q # p
      BY <1>a, <1>b, <2>4, <3>2 DEF UpdateSave
    <3> QED BY <3>1, <3>2
  <2>5. CASE ResetSave
    <3>1. CASE adm.q = p
      <4>1. row'[p].used = 0 /\ row'[p].limit \in Nat /\ acct'[p] = CleanAcct
        <5>1. adm.copy \in Row
          BY DEF TypeOK, Operation
        <5> QED BY <1>a, <2>5, <3>1, <5>1 DEF ResetSave, Row
      <4> QED BY <1>c, <4>1
    <3>2. CASE adm.q # p
      BY <1>a, <1>b, <2>5, <3>2 DEF ResetSave
    <3> QED BY <3>1, <3>2
  <2> QED BY <1>3, <2>1, <2>2, <2>3, <2>4, <2>5 DEF AdminStep
<1>4. CASE Reload \/ Tick \/ Crash \/ UNCHANGED vars
  BY <1>b, <1>4 DEF Reload, Tick, Crash, vars
<1> QED BY <1>1, <1>2, <1>3, <1>4 DEF Next

-----------------------------------------------------------------------------
\* A correction of d moves the counter and the sum together, up to the floor.
LEMMA Corrected ==
    ASSUME NEW u \in Nat, NEW t \in Int, NEW y \in Nat, NEW d \in Int, u <= t, t <= u + y
    PROVE  /\ t + d >= 0 => Floor0(u + d) <= t + d /\ t + d <= Floor0(u + d) + y
           /\ d <= 0 => Floor0(u + d) <= t /\ t <= Floor0(u + d) + (y - d)
BY DEF Floor0

\* The sum follows the one request whose share changes.
LEMMA HeldShift ==
    ASSUME TypeOK, NEW p \in Quotas, acct' \in [Quotas -> Account], NEW r \in Requests, NEW d \in Int,
           acct'[p].by[r] = acct[p].by[r] + d,
           \A s \in Requests : s # r => acct'[p].by[s] = acct[p].by[s]
    PROVE  SumFunctionOnSet(acct'[p].by, Requests) = SumFunctionOnSet(acct[p].by, Requests) + d
<1>1. IsFiniteSet(Requests)
  BY QuotaAssumption
<1>2. (\A s \in Requests : acct[p].by[s] \in Int) /\ (\A s \in Requests : acct'[p].by[s] \in Int)
  BY DEF TypeOK, Account
<1> QED BY <1>1, <1>2, SumShift

LEMMA HeldSame ==
    ASSUME NEW p \in Quotas, \A s \in Requests : acct'[p].by[s] = acct[p].by[s]
    PROVE  SumFunctionOnSet(acct'[p].by, Requests) = SumFunctionOnSet(acct[p].by, Requests)
<1>1. IsFiniteSet(Requests)
  BY QuotaAssumption
<1> QED BY <1>1, SumSame

LEMMA HeldInt ==
    ASSUME TypeOK, NEW p \in Quotas
    PROVE  SumFunctionOnSet(acct[p].by, Requests) \in Int
<1>1. IsFiniteSet(Requests)
  BY QuotaAssumption
<1>2. \A s \in Requests : acct[p].by[s] \in Int
  BY DEF TypeOK, Account
<1> QED BY <1>1, <1>2, SumType

LEMMA HeldNat ==
    ASSUME NEW p \in Quotas, acct' \in [Quotas -> Account], \A s \in Requests : acct'[p].by[s] >= 0
    PROVE  SumFunctionOnSet(acct'[p].by, Requests) >= 0
<1>1. IsFiniteSet(Requests)
  BY QuotaAssumption
<1>2. \A s \in Requests : acct'[p].by[s] \in Nat
  BY DEF Account
<1> QED BY <1>1, <1>2, SumBound

\* Release's and Settle's corrections, when they leave no request below zero.
LEMMA BalanceAdd ==
    ASSUME TypeOK, NEW p \in Quotas, Balance(p), NEW r \in Requests, NEW q \in Quotas, NEW d \in Int,
           AddUsed(r, q, d),
           p = q /\ Live(q) /\ (r \in acct[p].since \/ d > 0) => acct[p].by[r] + d >= 0
    PROVE  Balance(p)'
<1>1. /\ row[p].used \in Nat /\ acct[p].stray \in Nat /\ \A s \in Requests : acct[p].by[s] \in Int
      /\ SumFunctionOnSet(acct[p].by, Requests) \in Int
  BY HeldInt DEF TypeOK, Row, Account
<1>2. /\ acct' \in [Quotas -> Account] /\ acct'[p].edited = acct[p].edited
      /\ row'[p].used = IF p = q /\ Live(q) THEN Floor0(row[p].used + d) ELSE row[p].used
      /\ acct'[p].stray = IF p = q /\ Live(q) /\ ~(r \in acct[p].since \/ d > 0)
                         THEN acct[p].stray - d ELSE acct[p].stray
      /\ \A s \in Requests : acct'[p].by[s] =
            IF p = q /\ s = r /\ Live(q) /\ (r \in acct[p].since \/ d > 0)
            THEN acct[p].by[s] + d ELSE acct[p].by[s]
  BY AddUsedEffect
<1>3. \A s \in Requests : acct'[p].by[s] >= 0
  BY <1>1, <1>2 DEF Balance
<1>4. SumFunctionOnSet(acct'[p].by, Requests) >= 0
  BY <1>2, <1>3, HeldNat
<1>5. CASE ~(p = q /\ Live(q))
  <2>1. SumFunctionOnSet(acct'[p].by, Requests) = SumFunctionOnSet(acct[p].by, Requests)
    BY <1>2, <1>5, HeldSame
  <2> QED BY <1>2, <1>3, <1>5, <2>1 DEF Balance
<1>6. CASE p = q /\ Live(q) /\ (r \in acct[p].since \/ d > 0)
  <2>1. SumFunctionOnSet(acct'[p].by, Requests) = SumFunctionOnSet(acct[p].by, Requests) + d
    BY <1>2, <1>6, HeldShift
  <2>2. ~acct[p].edited =>
           /\ Floor0(row[p].used + d) <= SumFunctionOnSet(acct[p].by, Requests) + d
           /\ SumFunctionOnSet(acct[p].by, Requests) + d <= Floor0(row[p].used + d) + acct[p].stray
    BY <1>1, <1>4, <2>1, Corrected DEF Balance
  <2>3. row'[p].used = Floor0(row[p].used + d) /\ acct'[p].stray = acct[p].stray
    BY <1>2, <1>6
  <2> QED BY <1>2, <1>3, <2>1, <2>2, <2>3 DEF Balance
<1>7. CASE p = q /\ Live(q) /\ ~(r \in acct[p].since \/ d > 0)
  <2>1. SumFunctionOnSet(acct'[p].by, Requests) = SumFunctionOnSet(acct[p].by, Requests)
    BY <1>2, <1>7, HeldSame
  <2>2. ~acct[p].edited =>
           /\ Floor0(row[p].used + d) <= SumFunctionOnSet(acct[p].by, Requests)
           /\ SumFunctionOnSet(acct[p].by, Requests) <= Floor0(row[p].used + d) + (acct[p].stray - d)
    <3>1. d <= 0
      BY <1>7
    <3> QED BY <1>1, <3>1, Corrected DEF Balance
  <2>3. row'[p].used = Floor0(row[p].used + d) /\ acct'[p].stray = acct[p].stray - d
    BY <1>2, <1>7
  <2> QED BY <1>2, <1>3, <2>1, <2>2, <2>3 DEF Balance
<1> QED BY <1>5, <1>6, <1>7

\* Reserve's conditional increment.
LEMMA BalanceCharge ==
    ASSUME TypeOK, NEW p \in Quotas, Balance(p), NEW r \in Requests, NEW q \in Quotas, Charge(r, q),
           acct[q].by[r] = 0
    PROVE  Balance(p)'
<1>1. /\ row[p].used \in Nat /\ acct[p].stray \in Nat /\ \A s \in Requests : acct[p].by[s] \in Int
      /\ SumFunctionOnSet(acct[p].by, Requests) \in Int /\ Amount(q, r) \in Nat
  BY HeldInt, AmountPos DEF TypeOK, Row, Account
<1>2. /\ acct' \in [Quotas -> Account] /\ acct'[p].edited = acct[p].edited /\ acct'[p].stray = acct[p].stray
      /\ p # q => row'[p].used = row[p].used
      /\ acct'[q].by[r] = Amount(q, r)
  BY ChargeEffect
<1>3. \A s \in Requests : ~(p = q /\ s = r) => acct'[p].by[s] = acct[p].by[s]
  BY ChargeOthers
<1>4. \A s \in Requests : acct'[p].by[s] >= 0
  BY <1>1, <1>2, <1>3 DEF Balance
<1>5. CASE p # q
  <2>1. SumFunctionOnSet(acct'[p].by, Requests) = SumFunctionOnSet(acct[p].by, Requests)
    BY <1>3, <1>5, HeldSame
  <2> QED BY <1>2, <1>4, <1>5, <2>1 DEF Balance
<1>6. CASE p = q
  <2>1. acct'[p].by[r] = acct[p].by[r] + Amount(q, r) /\ Amount(q, r) \in Int
    BY <1>1, <1>2, <1>6
  <2>2. SumFunctionOnSet(acct'[p].by, Requests) = SumFunctionOnSet(acct[p].by, Requests) + Amount(q, r)
    BY <1>2, <1>3, <1>6, <2>1, HeldShift
  <2>3. row'[p].used = row[p].used + Amount(q, r)
    BY <1>6 DEF Charge, TypeOK, Row
  <2> QED BY <1>1, <1>2, <1>4, <2>2, <2>3 DEF Balance
<1> QED BY <1>5, <1>6

\* The counter of a row follows the sum of what the requests have in it.
LEMMA BalanceNext ==
    ASSUME TypeOK, \A r \in Requests : Control(r), AdminInv,
           \A r \in Requests, q \in Quotas : ShareOf(r, q), [Next]_vars,
           NEW p \in Quotas, Balance(p)
    PROVE  Balance(p)'
<1>a. /\ row \in [Quotas -> Row] /\ row[p] \in Row /\ acct \in [Quotas -> Account] /\ acct[p] \in Account
  BY DEF TypeOK
<1>b. ASSUME row'[p].used = row[p].used, acct'[p] = acct[p] PROVE Balance(p)'
  BY <1>b DEF Balance
<1>c. ASSUME row'[p].used = 0, acct'[p] = CleanAcct PROVE Balance(p)'
  <2>1. IsFiniteSet(Requests) /\ \A r \in Requests : CleanAcct.by[r] = 0
    BY QuotaAssumption DEF CleanAcct
  <2>2. SumFunctionOnSet(acct'[p].by, Requests) = 0
    BY <1>c, <2>1, SumZeros
  <2>3. acct'[p].stray = 0
    BY <1>c DEF CleanAcct
  <2> QED BY <1>c, <2>1, <2>2, <2>3 DEF Balance
<1>d. ASSUME NEW q \in Quotas, NEW t, NEW job, ResetRow(q, t, job) PROVE Balance(p)'
  <2>1. CASE q = p
    <3>1. row'[p].used = 0 /\ acct'[p] = CleanAcct
      BY <1>a, <1>d, <2>1 DEF ResetRow, Row
    <3> QED BY <1>c, <3>1
  <2>2. CASE q # p
    BY <1>a, <1>b, <1>d, <2>2 DEF ResetRow
  <2> QED BY <2>1, <2>2
<1>1. ASSUME NEW r \in Requests, RequestStep(r) PROVE Balance(p)'
  <2>1. CASE UNCHANGED <<row, acct>>
    BY <1>b, <2>1
  <2>2. ASSUME NEW q \in Quotas, LazyReset(r, q) PROVE Balance(p)'
    BY <1>d, <2>1, <2>2 DEF LazyReset
  <2>3. ASSUME NEW q \in Quotas, Charge(r, q) PROVE Balance(p)'
    <3>1. /\ q \in req[r].todo /\ pc[r] \in {"reserve", "charge"} /\ Live(q)
      BY <2>3 DEF Charge, AtCharge, Chargeable, First
    <3>2. q \notin req[r].items
      BY <3>1 DEF Control
    <3>3. acct[q].by[r] = 0
      BY <3>1, <3>2 DEF ShareOf, Outstanding
    <3> QED BY <2>3, <3>3, BalanceCharge
  <2>4. ASSUME NEW q \in Quotas, ReleaseItem(r, q) PROVE Balance(p)'
    <3>0. Amount(q, r) \in Nat \ {0} /\ -Amount(q, r) \in Int
      BY AmountPos
    <3>1. AddUsed(r, q, -Amount(q, r))
      BY <2>4 DEF ReleaseItem
    <3>2. ASSUME Live(q), r \in acct[q].since PROVE acct[q].by[r] = Amount(q, r)
      <4>1. /\ pc[r] \in {"rollback", "release"} /\ q \in req[r].todo
            /\ q \in req[r].items /\ ~req[r].settled
        BY <2>4 DEF ReleaseItem, First, Control
      <4> QED BY <3>2, <4>1 DEF ShareOf, Outstanding, Share
    <3>3. ~(-Amount(q, r) > 0)
      BY <3>0
    <3>4. p = q /\ Live(q) /\ (r \in acct[p].since \/ -Amount(q, r) > 0) => acct[p].by[r] + -Amount(q, r) >= 0
      BY <3>0, <3>2, <3>3
    <3> QED BY <3>0, <3>1, <3>4, BalanceAdd
  <2>5. ASSUME NEW q \in Quotas, SettleItem(r, q) PROVE Balance(p)'
    <3> DEFINE delta == req[r].actual - Amount(q, r)
    <3>0. delta \in Int /\ req[r].actual \in Nat /\ Amount(q, r) \in Nat /\ acct[q].by[r] \in Int
      <4>1. req[r].actual \in Nat /\ acct[q].by[r] \in Int
        BY DEF TypeOK, Locals, Account
      <4> QED BY <4>1, AmountPos
    <3>1. delta = 0 => UNCHANGED <<row, acct>>
      BY <2>5 DEF SettleItem
    <3>2. delta # 0 => AddUsed(r, q, delta)
      BY <2>5 DEF SettleItem
    <3>3. ASSUME Live(q), r \in acct[q].since PROVE acct[q].by[r] = Amount(q, r)
      <4>1. /\ pc[r] = "settle" /\ q \in req[r].todo /\ q \in req[r].items
        BY <2>5 DEF SettleItem, First, Control
      <4> QED BY <3>3, <4>1 DEF ShareOf, Outstanding, Share
    <3>4. p = q => acct[q].by[r] >= 0
      BY DEF Balance
    <3>5. p = q /\ Live(q) /\ (r \in acct[p].since \/ delta > 0) => acct[p].by[r] + delta >= 0
      BY <3>0, <3>3, <3>4
    <3> HIDE DEF delta
    <3> QED BY <2>1, <3>0, <3>1, <3>2, <3>5, BalanceAdd
  <2> QED
    BY <1>1, <2>1, <2>2, <2>3, <2>4, <2>5
       DEF RequestStep, BeginReserve, Reserved, Degrade, Reject, DeferredRelease,
           Released, Settle, ChargeRefused
<1>2. CASE JobStep
  BY <1>2, <1>b, <1>d DEF JobStep, JobTick, JobSelect, JobReset, JobDone
<1>3. CASE AdminStep
  <2>1. ASSUME NEW q \in Quotas, NEW op, NEW lim, NEW on, AdminRead(q, op, lim, on)
        PROVE  Balance(p)'
    BY <1>b, <2>1 DEF AdminRead
  <2>2. ASSUME NEW q \in Quotas, NEW lim \in Limits, NEW on \in BOOLEAN, CreateQuota(q, lim, on) PROVE Balance(p)'
    <3>1. CASE q = p
      BY <1>a, <1>c, <2>2, <3>1 DEF CreateQuota, NewRow
    <3>2. CASE q # p
      BY <1>a, <1>b, <2>2, <3>2 DEF CreateQuota
    <3> QED BY <3>1, <3>2
  <2>3. ASSUME NEW q \in Quotas, DeleteQuota(q) PROVE Balance(p)'
    <3>1. row'[p].used = row[p].used /\ acct' = acct
      BY <1>a, <2>3 DEF DeleteQuota, Row
    <3> QED BY <1>b, <3>1
  <2>4. CASE UpdateSave
    <3>1. CASE adm.q = p
      <4>1. acct'[p].edited = TRUE /\ acct'[p].by = acct[p].by
        BY <1>a, <2>4, <3>1 DEF UpdateSave, Account
      <4> QED BY <4>1 DEF Balance
    <3>2. CASE adm.q # p
      BY <1>a, <1>b, <2>4, <3>2 DEF UpdateSave
    <3> QED BY <3>1, <3>2
  <2>5. CASE ResetSave
    <3>1. CASE adm.q = p
      <4>1. row'[p].used = 0 /\ acct'[p] = CleanAcct
        <5>1. adm.copy \in Row
          BY DEF TypeOK, Operation
        <5> QED BY <1>a, <2>5, <3>1, <5>1 DEF ResetSave, Row
      <4> QED BY <1>c, <4>1
    <3>2. CASE adm.q # p
      BY <1>a, <1>b, <2>5, <3>2 DEF ResetSave
    <3> QED BY <3>1, <3>2
  <2> QED BY <1>3, <2>1, <2>2, <2>3, <2>4, <2>5 DEF AdminStep
<1>4. CASE Reload \/ Tick \/ Crash \/ UNCHANGED vars
  BY <1>b, <1>4 DEF Reload, Tick, Crash, vars
<1> QED BY <1>1, <1>2, <1>3, <1>4 DEF Next

\* One more period's worth of requests, on top of n of them.
LEMMA OneMorePeriod ==
    ASSUME NEW lim \in Nat, NEW n \in Nat, NEW kept \in Nat, NEW strays \in Nat, NEW c \in Nat,
           NEW stray \in Nat, kept <= lim * n + strays, c <= lim + stray
    PROVE  kept + c <= lim * (n + 1) + (strays + stray)
<1> DEFINE m == lim * n
<1>1. m \in Nat /\ lim * (n + 1) = m + lim
  OBVIOUS
<1> HIDE DEF m
<1>2. kept <= m + strays
  BY DEF m
<1> QED BY <1>1, <1>2

\* A reset either opens a new period, or adds what this round admitted to the
\* period it is in; a reset of an expired row opens a new one.
LEMMA PeriodicReset ==
    ASSUME TypeOK, NEW q \in Quotas, Counter(q), Periodic(q), NEW t \in Nat, NEW job \in BOOLEAN,
           ResetRow(q, t, job), Live(q), job \/ row[q].resetAt <= t
    PROVE  Periodic(q)'
<1> DEFINE e == NextReset(Period[q], t)
           p == past[q]
           c == Cardinality(Charged(q))
           R == [end |-> p.end, kept |-> p.kept + c, strays |-> p.strays + acct[q].stray,
                 repeats |-> p.repeats + 1, byJob |-> p.byJob \/ job]
<1>1. /\ e \in Nat /\ t < e /\ p \in PeriodHistory /\ c \in Nat /\ acct[q].stray \in Nat
      /\ row[q].limit \in Nat /\ row[q].resetAt \in Nat /\ row[q].used \in Nat
  BY NextResetNat, NextResetLater, ChargedFinite, QuotaAssumption DEF TypeOK, Account, Row
<1>2. row'[q].resetAt = e /\ row'[q].limit = row[q].limit
  BY DEF ResetRow, TypeOK, Row
<1>3. past'[q] = IF acct[q].edited \/ e > p.end THEN NewPeriod(e) ELSE R
  BY DEF ResetRow, Renew, TypeOK
<1>4. CASE acct[q].edited \/ e > p.end
  <2>1. past'[q] = [end |-> e, kept |-> 0, strays |-> 0, repeats |-> 0, byJob |-> FALSE]
    BY <1>3, <1>4 DEF NewPeriod
  <2>2. row'[q].limit * 0 = 0
    BY <1>1, <1>2
  <2> HIDE DEF e
  <2> QED BY <1>2, <2>1, <2>2 DEF Periodic
<1>5. CASE ~acct[q].edited /\ ~(e > p.end)
  <2>1. past'[q] = R
    BY <1>3, <1>5
  <2>2. p.byJob \/ job
    <3>1. SUFFICES ASSUME ~p.byJob, ~job PROVE FALSE
      OBVIOUS
    <3>2. row[q].resetAt = p.end /\ row[q].resetAt <= t
      BY <1>5, <3>1 DEF Periodic
    <3> QED BY <1>1, <1>5, <3>2
  <2>3. past'[q].byJob
    <3>1. past'[q].byJob = R.byJob
      BY <2>1
    <3>2. R.byJob = (p.byJob \/ job)
      BY Zenon
    <3> HIDE DEF p, R
    <3> QED BY <2>2, <3>1, <3>2
  <2>4. ASSUME Kind[q] = "requests"
        PROVE  past'[q].kept <= row'[q].limit * past'[q].repeats + past'[q].strays
    <3>1. p.kept <= row[q].limit * p.repeats + p.strays
      BY <1>5, <2>4 DEF Periodic
    <3>2. c <= row[q].limit + acct[q].stray
      <4>1. c <= row[q].used + acct[q].stray /\ row[q].used <= row[q].limit
        BY <1>5, <2>4 DEF Counter
      <4> HIDE DEF c
      <4> QED BY <1>1, <4>1
    <3>3. p.kept \in Nat /\ p.repeats \in Nat /\ p.strays \in Nat
      BY <1>1 DEF PeriodHistory
    <3>4. /\ past'[q].kept = p.kept + c /\ past'[q].repeats = p.repeats + 1
          /\ past'[q].strays = p.strays + acct[q].stray
      BY <2>1
    <3> HIDE DEF p, c
    <3>5. p.kept + c <= row[q].limit * (p.repeats + 1) + (p.strays + acct[q].stray)
      BY <1>1, <3>1, <3>2, <3>3, OneMorePeriod
    <3> QED BY <1>2, <3>4, <3>5
  <2> QED BY <2>3, <2>4 DEF Periodic
<1> QED BY <1>4, <1>5

\* The period of a row, what it admitted and its reset_at stay in step.
LEMMA PeriodicNext ==
    ASSUME TypeOK, AdminInv, [Next]_vars, NEW p \in Quotas, Counter(p), Periodic(p)
    PROVE  Periodic(p)'
<1>a. /\ row \in [Quotas -> Row] /\ row[p] \in Row /\ acct \in [Quotas -> Account] /\ acct[p] \in Account
      /\ past \in [Quotas -> PeriodHistory] /\ now \in Nat
  BY DEF TypeOK
<1>b. ASSUME past'[p] = past[p], acct'[p].edited = acct[p].edited, row'[p].limit = row[p].limit,
             row'[p].state = row[p].state, row'[p].resetAt = row[p].resetAt
      PROVE  Periodic(p)'
  BY <1>b DEF Periodic, Live
<1>c. ASSUME NEW q \in Quotas, NEW t \in Nat, NEW job \in BOOLEAN, ResetRow(q, t, job), Live(q),
             job \/ row[q].resetAt <= t
      PROVE  Periodic(p)'
  <2>1. CASE q = p
    BY <1>c, <2>1, PeriodicReset
  <2>2. CASE q # p
    BY <1>a, <1>b, <1>c, <2>2 DEF ResetRow, Renew
  <2> QED BY <2>1, <2>2
<1>d. ASSUME NEW e \in Nat, past'[p] = NewPeriod(e), row'[p].resetAt = e, row'[p].limit \in Nat
      PROVE  Periodic(p)'
  <2>1. past'[p] = [end |-> e, kept |-> 0, strays |-> 0, repeats |-> 0, byJob |-> FALSE]
    BY <1>d DEF NewPeriod
  <2>2. row'[p].limit * 0 = 0
    BY <1>d
  <2> QED BY <1>d, <2>1, <2>2 DEF Periodic
<1>e. ASSUME NEW q \in Quotas, NEW v, row' = [row EXCEPT ![q].used = v], UNCHANGED past,
             acct'[p].edited = acct[p].edited
      PROVE  Periodic(p)'
  <2>1. row'[p].limit = row[p].limit /\ row'[p].state = row[p].state /\ row'[p].resetAt = row[p].resetAt
    BY <1>a, <1>e DEF Row
  <2> QED BY <1>b, <1>e, <2>1
<1>1. ASSUME NEW r \in Requests, RequestStep(r) PROVE Periodic(p)'
  <2>1. CASE UNCHANGED <<row, acct, past>>
    BY <1>b, <2>1
  <2>2. ASSUME NEW q \in Quotas, LazyReset(r, q) PROVE Periodic(p)'
    <3>1. req[r].at \in Nat /\ FALSE \in BOOLEAN
      BY DEF TypeOK, Locals
    <3>2. \/ UNCHANGED <<row, acct, past>>
          \/ Live(q) /\ row[q].resetAt <= req[r].at /\ ResetRow(q, req[r].at, FALSE)
      BY <2>2 DEF LazyReset
    <3> QED BY <1>c, <2>1, <3>1, <3>2
  <2>3. ASSUME NEW q \in Quotas, Charge(r, q) PROVE Periodic(p)'
    <3>1. acct'[p].edited = acct[p].edited
      BY <2>3, ChargeEffect
    <3>2. row' = [row EXCEPT ![q].used = row[q].used + Amount(q, r)] /\ UNCHANGED past
      BY <2>3 DEF Charge
    <3> QED BY <1>e, <3>1, <3>2
  <2>4. ASSUME NEW q \in Quotas, NEW d \in Int, AddUsed(r, q, d), UNCHANGED past PROVE Periodic(p)'
    <3>1. acct'[p].edited = acct[p].edited
      BY <2>4, AddUsedEffect
    <3>2. UNCHANGED <<row, acct>> \/ row' = [row EXCEPT ![q].used = Floor0(row[q].used + d)]
      BY <2>4 DEF AddUsed
    <3> QED BY <1>e, <2>1, <2>4, <3>1, <3>2
  <2>5. ASSUME NEW q \in Quotas, ReleaseItem(r, q) PROVE Periodic(p)'
    <3>1. -Amount(q, r) \in Int
      BY AmountPos
    <3> QED BY <2>4, <2>5, <3>1 DEF ReleaseItem
  <2>6. ASSUME NEW q \in Quotas, SettleItem(r, q) PROVE Periodic(p)'
    <3> DEFINE delta == req[r].actual - Amount(q, r)
    <3>1. delta \in Int
      <4>1. req[r].actual \in Nat /\ Amount(q, r) \in Nat
        BY AmountPos DEF TypeOK, Locals
      <4> QED BY <4>1
    <3>2. UNCHANGED past /\ (AddUsed(r, q, delta) \/ UNCHANGED <<row, acct>>)
      BY <2>6 DEF SettleItem
    <3> HIDE DEF delta
    <3> QED BY <2>1, <2>4, <3>1, <3>2
  <2> QED
    BY <1>1, <2>1, <2>2, <2>3, <2>5, <2>6
       DEF RequestStep, BeginReserve, Reserved, Degrade, Reject, DeferredRelease,
           Released, Settle, ChargeRefused
<1>2. CASE JobStep
  <2>1. CASE UNCHANGED <<row, acct, past>>
    BY <1>b, <2>1
  <2>2. ASSUME NEW q \in Quotas, JobReset(q) PROVE Periodic(p)'
    <3>1. bg.at \in Nat /\ TRUE \in BOOLEAN
      BY DEF TypeOK
    <3>2. UNCHANGED <<row, acct, past>> \/ (Live(q) /\ ResetRow(q, bg.at, TRUE))
      BY <2>2 DEF JobReset
    <3> QED BY <1>c, <2>1, <3>1, <3>2
  <2> QED BY <1>2, <2>1, <2>2 DEF JobStep, JobTick, JobSelect, JobDone
<1>3. CASE AdminStep
  <2>1. CASE UNCHANGED <<row, acct, past>>
    BY <1>b, <2>1
  <2>2. ASSUME NEW q \in Quotas, NEW lim \in Limits, NEW on \in BOOLEAN, CreateQuota(q, lim, on)
        PROVE  Periodic(p)'
    <3>1. CASE q = p
      <4>1. NextReset(Period[p], now) \in Nat /\ lim \in Nat
        BY <1>a, NextResetNat, QuotaAssumption
      <4>2. past'[p] = NewPeriod(NextReset(Period[p], now)) /\ row'[p] = NewRow(p, now, lim, on, "live")
        BY <1>a, <2>2, <3>1 DEF CreateQuota
      <4>3. row'[p].resetAt = NextReset(Period[p], now) /\ row'[p].limit = lim
        BY <4>2 DEF NewRow
      <4> QED BY <1>d, <4>1, <4>2, <4>3
    <3>2. CASE q # p
      BY <1>a, <1>b, <2>2, <3>2 DEF CreateQuota
    <3> QED BY <3>1, <3>2
  <2>3. ASSUME NEW q \in Quotas, DeleteQuota(q) PROVE Periodic(p)'
    <3>1. /\ row'[p].limit = row[p].limit /\ row'[p].resetAt = row[p].resetAt
          /\ Live(p)' => Live(p)
          /\ UNCHANGED <<acct, past>>
      BY <1>a, <2>3 DEF DeleteQuota, Row, Live
    <3> QED BY <3>1 DEF Periodic
  <2>4. CASE UpdateSave
    <3>1. CASE adm.q = p
      <4>1. acct'[p].edited
        BY <1>a, <2>4, <3>1 DEF UpdateSave, Account
      <4> QED BY <4>1 DEF Periodic
    <3>2. CASE adm.q # p
      BY <1>a, <1>b, <2>4, <3>2 DEF UpdateSave
    <3> QED BY <3>1, <3>2
  <2>5. CASE ResetSave
    <3>1. CASE adm.q = p
      <4>1. NextReset(Period[p], now) \in Nat /\ adm.copy \in Row
        BY <1>a, NextResetNat, QuotaAssumption DEF TypeOK, Operation
      <4>2. /\ past'[p] = NewPeriod(NextReset(Period[p], now))
            /\ row'[p].resetAt = NextReset(Period[p], now) /\ row'[p].limit = adm.copy.limit
        BY <1>a, <2>5, <3>1, <4>1 DEF ResetSave, Row
      <4>3. adm.copy.limit \in Nat
        BY <4>1 DEF Row
      <4> QED BY <1>d, <4>1, <4>2, <4>3
    <3>2. CASE adm.q # p
      BY <1>a, <1>b, <2>5, <3>2 DEF ResetSave
    <3> QED BY <3>1, <3>2
  <2> QED BY <1>3, <2>1, <2>2, <2>3, <2>4, <2>5 DEF AdminStep, AdminRead
<1>4. CASE Reload \/ Tick \/ Crash \/ UNCHANGED vars
  BY <1>b, <1>4 DEF Reload, Tick, Crash, vars
<1> QED BY <1>1, <1>2, <1>3, <1>4 DEF Next

LEMMA InitInd == Init => IndInv
<1> SUFFICES ASSUME Init PROVE IndInv
  OBVIOUS
<1>1. ASSUME NEW q \in Quotas PROVE Counter(q)
  <2>1. Charged(q) = {}
    BY DEF Init, Charged, CleanAcct
  <2>2. Cardinality(Charged(q)) = 0
    BY <2>1, FS_EmptySet
  <2>3. row[q].used = 0 /\ row[q].limit = InitLimit[q] /\ acct[q].stray = 0
    BY DEF Init, NewRow, CleanAcct
  <2> QED BY <2>2, <2>3, QuotaAssumption DEF Counter
<1>2. ASSUME NEW r \in Requests, NEW q \in Quotas PROVE ShareOf(r, q)
  BY DEF Init, ShareOf, CleanAcct
<1>3. ASSUME NEW r \in Requests PROVE Control(r)
  BY DEF Init, Control, NoLocals
<1>4. ASSUME NEW q \in Quotas PROVE Periodic(q)
  <2>1. past[q] = [end |-> row[q].resetAt, kept |-> 0, strays |-> 0, repeats |-> 0, byJob |-> FALSE]
    BY DEF Init, NewPeriod
  <2>2. row[q].limit \in Nat /\ row[q].limit * 0 = 0
    BY QuotaAssumption DEF Init, NewRow
  <2> QED BY <2>1, <2>2 DEF Periodic
<1> QED BY <1>1, <1>2, <1>3, <1>4 DEF IndInv, AdminInv, Init, NoOp

\* Every step of the system preserves the inductive invariant.
LEMMA NextInd == TypeOK /\ IndInv /\ [Next]_vars => IndInv'
<1> SUFFICES ASSUME TypeOK, IndInv, [Next]_vars PROVE IndInv'
  OBVIOUS
<1>0. /\ \A r \in Requests : Control(r)
      /\ AdminInv
      /\ \A r \in Requests, q \in Quotas : ShareOf(r, q)
      /\ \A q \in Quotas : Counter(q)
      /\ \A q \in Quotas : Periodic(q)
  BY DEF IndInv
<1>1. \A r \in Requests : Control(r)'
  BY <1>0, ControlNext
<1>2. AdminInv'
  BY <1>0, AdminNext
<1>3. \A r \in Requests, q \in Quotas : ShareOf(r, q)'
  BY <1>0, ShareNext
<1>4. \A q \in Quotas : Counter(q)'
  BY <1>0, CounterNext
<1>5. \A q \in Quotas : Periodic(q)'
  BY <1>0, PeriodicNext
<1> QED BY <1>1, <1>2, <1>3, <1>4, <1>5 DEF IndInv

\* The inductive invariant holds in every reachable state.
THEOREM Invariance == Spec => [](TypeOK /\ IndInv)
<1>1. Init => TypeOK /\ IndInv
  BY InitType, InitInd
<1>2. TypeOK /\ IndInv /\ [Next]_vars => (TypeOK /\ IndInv)'
  BY NextType, NextInd
<1> QED BY <1>1, <1>2, PTL DEF Spec

\* used_value of a "requests" row agrees with the requests charged in it, for
\* every number of concurrent requests, limit and table of quotas.
THEOREM RequestsAccountedThm == Spec => []RequestsAccounted
<1>1. TypeOK /\ IndInv => RequestsAccounted
  BY DEF IndInv, Counter, RequestsAccounted
<1> QED BY <1>1, Invariance, PTL

\* used_value of a token row agrees with the sum of what the requests have in it,
\* for every number of concurrent requests, estimate, usage and table of quotas.
THEOREM TokensAccountedThm == Spec => []TokensAccounted
<1> DEFINE Balanced == \A q \in Quotas : Balance(q)
<1>1. Init => Balanced
  <2> SUFFICES ASSUME Init, NEW q \in Quotas PROVE Balance(q)
    OBVIOUS
  <2>1. acct[q] = CleanAcct /\ row[q].used = 0
    BY DEF Init, NewRow
  <2>2. IsFiniteSet(Requests) /\ \A r \in Requests : CleanAcct.by[r] = 0
    BY QuotaAssumption DEF CleanAcct
  <2>3. SumFunctionOnSet(acct[q].by, Requests) = 0
    BY <2>1, <2>2, SumZeros
  <2> QED BY <2>1, <2>2, <2>3 DEF Balance, CleanAcct
<1>2. TypeOK /\ IndInv /\ Balanced /\ [Next]_vars => Balanced'
  BY BalanceNext DEF IndInv
<1>3. TypeOK /\ Balanced => TokensAccounted
  <2>1. TypeOK => \A q \in Quotas : SumFunction(acct[q].by) = SumFunctionOnSet(acct[q].by, Requests)
    BY DEF TypeOK, Account, SumFunction
  <2> QED BY <2>1 DEF TokensAccounted, Balance
<1> QED BY <1>1, <1>2, <1>3, Invariance, PTL DEF Spec

\* However often a row is reset, the requests that keep a charge in one period are
\* at most limit, plus stray refunds and one limit more for each reset into the
\* same period; and none but the job's reset of a row that has not expired is one.
THEOREM PeriodCapThm == Spec => []PeriodCap
<1>1. TypeOK /\ IndInv => PeriodCap
  <2> SUFFICES ASSUME TypeOK, IndInv, NEW q \in Quotas, Kind[q] = "requests", ~acct[q].edited
               PROVE  /\ past[q].kept + Cardinality(Charged(q))
                             <= row[q].limit * (1 + past[q].repeats) + past[q].strays + acct[q].stray
                      /\ past[q].repeats > 0 => past[q].byJob
    BY DEF PeriodCap
  <2>1. /\ row[q].used \in Nat /\ row[q].limit \in Nat /\ acct[q].stray \in Nat
        /\ past[q].kept \in Nat /\ past[q].repeats \in Nat /\ past[q].strays \in Nat
    BY DEF TypeOK, Row, Account, PeriodHistory
  <2>2. /\ Cardinality(Charged(q)) <= row[q].used + acct[q].stray /\ row[q].used <= row[q].limit
        /\ past[q].kept <= row[q].limit * past[q].repeats + past[q].strays
        /\ ~past[q].byJob => past[q].repeats = 0
    BY DEF IndInv, Counter, Periodic
  <2>3. Cardinality(Charged(q)) \in Nat /\ 1 + past[q].repeats = past[q].repeats + 1
    BY <2>1, ChargedFinite
  <2>4. Cardinality(Charged(q)) <= row[q].limit + acct[q].stray
    BY <2>1, <2>2, <2>3
  <2>5. past[q].kept + Cardinality(Charged(q))
           <= row[q].limit * (past[q].repeats + 1) + (past[q].strays + acct[q].stray)
    BY <2>1, <2>2, <2>3, <2>4, OneMorePeriod
  <2>6. row[q].limit * (past[q].repeats + 1) \in Nat
    BY <2>1
  <2> QED BY <2>1, <2>2, <2>3, <2>5, <2>6
<1> QED BY <1>1, Invariance, PTL

\* A finished request leaves exactly its request count or real usage if it was
\* settled, and nothing if it was refused or failed.
THEOREM FinalChargeThm == Spec => []FinalCharge
<1>1. TypeOK /\ IndInv => FinalCharge
  <2> SUFFICES ASSUME TypeOK, IndInv, NEW r \in Requests, NEW q \in Quotas,
                      pc[r] = "done", Live(q), r \in acct[q].since
               PROVE  acct[q].by[r] = IF ~req[r].settled \/ q \notin req[r].items THEN 0
                                      ELSE IF Kind[q] = "requests" THEN 1 ELSE req[r].actual
    BY DEF FinalCharge
  <2>1. acct[q].by[r] = IF Outstanding(r, q) THEN Share(r, q) ELSE 0
    BY DEF IndInv, ShareOf
  <2>2. Outstanding(r, q) <=> req[r].settled /\ q \in req[r].items
    BY DEF Outstanding, TypeOK, Locals
  <2>3. Kind[q] = "requests" \/ Kind[q] = "tokens"
    BY QuotaAssumption
  <2> QED BY <2>1, <2>2, <2>3 DEF Share, Amount
<1> QED BY <1>1, Invariance, PTL

=============================================================================
