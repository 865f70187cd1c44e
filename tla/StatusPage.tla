----------------------------- MODULE StatusPage -----------------------------
(* The page that shows the state of the hot reload (ConfigStatus.tsx), over   *)
(* the instances of ConfigRuntime: it asks again every five seconds, and has  *)
(* a button that reloads and one that rolls back.  Its requests go to         *)
(* whichever instance answers.                                                *)
EXTENDS ConfigRuntime

VARIABLES
    watching,  \* the page is mounted
    view,      \* the snapshot and status it shows, with their instance
    answer,    \* the answer on its way to it
    pressed    \* the mutation of a button that is pending

pageVars == <<watching, view, answer, pressed>>

NoView == [at |-> 0, snap |-> EmptySnapshot, status |-> "none"]

StatusInit == watching = FALSE /\ view = NoView /\ answer = NoView /\ pressed = "none"

\* The page is opened, or left; its mutations run on.
Open == ~watching /\ watching' = TRUE /\ UNCHANGED <<cfgVars, view, answer, pressed>>
Close == watching /\ watching' = FALSE /\ answer' = NoView /\ UNCHANGED <<cfgVars, view, pressed>>

\* configStatus of the server: Info() of one instance.
Info(i) == [at |-> i, snap |-> snap[i], status |-> status[i]]

\* Mutant: the page asks again after its own buttons only.
RefetchAfterButton ==
    /\ watching /\ answer = NoView /\ pressed # "none"
    /\ \E i \in Inst : answer' = Info(i) /\ answer' # view
    /\ UNCHANGED <<cfgVars, watching, view, pressed>>

\* refetchInterval, and the invalidations after a button.
Refetch ==
    /\ watching /\ answer = NoView
    /\ \E i \in Inst : answer' = Info(i) /\ answer' # view
    /\ UNCHANGED <<cfgVars, watching, view, pressed>>

Shown ==
    /\ answer # NoView
    /\ view' = answer /\ answer' = NoView
    /\ UNCHANGED <<cfgVars, watching, pressed>>

\* An answer is lost; the next one is five seconds off.
Missed ==
    /\ answer # NoView /\ answer' = NoView
    /\ Fails
    /\ UNCHANGED <<dbVars, instVars, hs, ops, crashes, lost, watching, view, pressed>>

\* A button is disabled while its request runs.
reloadMutation(a, i) == watching /\ pressed = "none" /\ pressed' = "reload" /\ reloadConfig(a, i) /\ UNCHANGED <<watching, view, answer>>
rollbackMutation(a, i) == watching /\ pressed = "none" /\ pressed' = "rollback" /\ Rollback(a, i) /\ UNCHANGED <<watching, view, answer>>
Pressed(a) == pressed # "none" /\ hs[a].pc = "idle" /\ pressed' = "none" /\ UNCHANGED <<cfgVars, watching, view, answer>>

StatusNext(a, i) ==
    \/ Open \/ Close \/ Refetch \/ Shown \/ Missed
    \/ reloadMutation(a, i) \/ rollbackMutation(a, i) \/ Pressed(a)

Polls == Refetch \/ Shown

-----------------------------------------------------------------------------

\* The page comes to show what an instance uses now, without a reload of the
\* page, whoever changed it and whatever answers were lost.
ViewCatchesUp ==
    (watching /\ \A i \in Inst : view # Info(i)) ~> (~watching \/ \E i \in Inst : view = Info(i))

=============================================================================
