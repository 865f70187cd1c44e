------------------------------ MODULE MCQuota ------------------------------
(* TLC instances of Quota, explored side by side: two requests over a period  *)
(* boundary with the minute job ("period"), and three requests that race      *)
(* while the administrator edits, resets, creates and deletes rows ("edits"). *)
EXTENDS Quota, TLC

CONSTANTS r1, r2, r3, k1, k2, gpt, mini

VARIABLE scene

mcVars == <<vars, scene>>

\* One daily request quota over everything, in front of one daily token quota
\* for the alias gpt that degrades to mini.
TwoKinds == (1 :> "requests") @@ (2 :> "tokens")
Daily == [q \in 1..NumQuotas |-> 2]
EveryKey == [q \in 1..NumQuotas |-> AnyKey]
WideThenGpt == (1 :> AnyAlias) @@ (2 :> gpt)
SecondDegrades == (1 :> NoAlias) @@ (2 :> mini)
AllK1 == [r \in Requests |-> k1]
AllGpt == [r \in Requests |-> gpt]
AllAllowed == [r \in Requests |-> Aliases]
EstTwo == [r \in Requests |-> 2]
LimitTwo == (1 :> 1) @@ (2 :> 3)
LimitRace == (1 :> 2) @@ (2 :> 3)
Symm == Permutations(Requests)

MCInit ==
    /\ scene \in {"period", "edits"}
    /\ now = IF scene = "period" THEN 1 ELSE MaxNow
    /\ row = IF scene = "period" THEN [q \in Quotas |-> NewRow(q, now, LimitTwo[q], TRUE, "live")]
             ELSE [q \in Quotas |-> NewRow(q, now, LimitRace[q], TRUE, IF q \in InitRows THEN "live" ELSE "absent")]
    /\ snap = Snapshot
    /\ pc = [r \in Requests |-> "arrived"] /\ req = [r \in Requests |-> NoLocals]
    /\ bg = IdleJob /\ adm = NoOp
    /\ admOps = IF scene = "period" THEN MaxAdmin ELSE 0
    /\ acct = [q \in Quotas |-> CleanAcct]
    /\ past = [q \in Quotas |-> NewPeriod(row[q].resetAt)]

\* In "period" two of the requests run; when both are settled one has used less than
\* was estimated and one more.
Running == {r \in Requests : pc[r] # "arrived"}
Settled(n) == {r \in Requests : req[r].settled /\ req[r].actual = n}

\* A round of the job that begins with no row expired changes nothing, and a reload
\* matters to a request that is still to begin: the others are left out.
MCNext ==
    /\ Next
    /\ bg = IdleJob /\ bg' # IdleJob => \E q \in Quotas : row[q].resetAt <= now
    /\ scene = "period" => Cardinality(Running') <= 2
    /\ scene = "period" /\ Cardinality(Running) = 2 /\ (\E r \in Requests : InFlight(r))
           => snap' = snap \/ pc' # pc
    /\ scene = "period" => \A n \in Usages : Cardinality(Settled(n)') <= 1
    /\ scene = "edits" => \A r \in Requests : req'[r].settled => req'[r].actual # 0
    /\ UNCHANGED scene

MCSpec == MCInit /\ [][MCNext]_mcVars

=============================================================================
