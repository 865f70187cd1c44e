------------------------------- MODULE MCLive -------------------------------
(* TLC instances explored side by side: the call log with no card mounted,    *)
(* the card over rows that are stored and are broadcast in their order, and   *)
(* the settings pages.                                                        *)
EXTENDS LiveAudit, SettingsForms

\* The first to be typed requires MFA of all, the second does not; what others
\* store does, and has it enabled.
MCRequiredOn == {<<"mine", 0>>, <<"theirs", 1>>}
MCEnabledOn == {On, <<"theirs", 1>>}

VARIABLE scene

mcVars == <<liveVars, formVars, scene>>

\* Every row has been stored, and is still to be broadcast.
CardInit ==
    /\ wpc = [r \in Rows |-> "kept"] /\ queue = <<>> /\ batch = <<>>
    /\ db = Rows /\ refused = {} /\ held = {} /\ up = TRUE /\ drops = 0 /\ sent = <<>>
    /\ link = "none" /\ buf = <<>> /\ wire = <<>> /\ base = 0 /\ since = 0
    /\ dropped = {} /\ seen = {} /\ zombies = 0
    /\ phase = "off" /\ events = <<>> /\ total = 0 /\ frozen = NotPaused
    /\ stops = 0 /\ faults \in 0..MaxFaults

MCInit ==
    /\ FormsInit
    /\ scene \in {"log", "card", "forms"}
    /\ IF scene = "card" THEN CardInit ELSE LiveInit
    /\ mine = MaxSaves - 1 \/ others = MaxOthers
    /\ scene # "forms" => page = "failover" /\ mine = MaxSaves - 1 /\ others = MaxOthers

MCNext ==
    \/ /\ scene = "log" /\ LiveNext
       /\ phase' = "off"
       /\ UNCHANGED <<formVars, scene>>
    \/ /\ scene = "card" /\ LiveNext
       /\ \A r, s \in Rows : r < s /\ wpc'[r] = "kept" => wpc'[s] = "kept"
       /\ UNCHANGED <<formVars, scene>>
    \/ scene = "forms" /\ FormsNext /\ UNCHANGED <<liveVars, scene>>

\* The writer loop runs by itself, the process is started again, and so do the server's side of a connection
\* and the browser's; rows, restarts and failures are finitely many.
MCSpec ==
    /\ MCInit /\ [][MCNext]_mcVars
    /\ WF_mcVars(Stores /\ UNCHANGED <<formVars, scene>>)
    /\ WF_mcVars(Start /\ UNCHANGED <<formVars, scene>>)
    /\ WF_mcVars(Connects /\ UNCHANGED <<formVars, scene>>)

=============================================================================
