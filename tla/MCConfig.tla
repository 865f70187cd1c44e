------------------------------ MODULE MCConfig ------------------------------
(* TLC instances of the hot reload.  Two instances with two handlers, with   *)
(* one and a restart, and with one and something that cannot be read or saved *)
(* are explored side by side with a status page over one instance: with one   *)
(* failure and one operation, and with two operations, also after a version   *)
(* that was recorded empty.                                                   *)
EXTENDS StatusPage

VARIABLE scene

mcVars == <<cfgVars, pageVars, scene>>

MCInit ==
    /\ ConfigInit /\ StatusInit
    /\ scene \in {"instances", "page"}
    /\ status[1] = "ok"
    /\ crashes = MaxCrashes \/ errors = MaxErrors
    /\ versions = <<EmptySnapshot>> => scene = "page" /\ errors > 0 /\ crashes > 0
    /\ scene = "page" => crashes = MaxCrashes
    /\ ops = IF crashes = MaxCrashes /\ (errors = MaxErrors \/ MaxCrashes = 0) THEN 0 ELSE MaxOps - 1

\* The first administrator works on the first instance.  What follows a lost
\* increment is no longer of interest.
Instances ==
    /\ scene = "instances" /\ ~lost
    /\ ConfigNext
    /\ hs'[1].pc # "idle" => hs'[1].at = 1
    /\ UNCHANGED pageVars

Page ==
    /\ scene = "page"
    /\ \/ StatusNext(1, 1)
       \/ (Runs(1) \/ Handle(1) \/ (pressed = "none" /\ Starts(1, 1))) /\ UNCHANGED pageVars

MCNext == (Instances \/ Page) /\ UNCHANGED scene

\* There are finitely many handlers, restarts and failures: what goes on by
\* itself starves none of the others when some of it goes on.
MCSpec ==
    /\ MCInit /\ [][MCNext]_mcVars
    /\ WF_mcVars(Works /\ UNCHANGED <<pageVars, scene>>)
    /\ WF_mcVars(Polls /\ UNCHANGED scene)

=============================================================================
