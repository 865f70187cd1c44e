--------------------------- MODULE ConfigRuntime ---------------------------
(* The hot reload of the configuration (runtime/manager.go, bundle.go): every *)
(* instance keeps a snapshot of the tables and the counter it was loaded at;  *)
(* the administrative handlers write a table, increment the counter in        *)
(* config_meta and wake the reload loop of their own instance, the others     *)
(* find the counter changed when they poll.  Counter and version share one    *)
(* record, which is read, changed and saved whole by several writers.         *)
EXTENDS Integers, Sequences

CONSTANTS
    Inst,                          \* the instances
    Admins,                        \* handlers that can run at a time
    MaxOps, MaxCrashes, MaxErrors  \* bounds: handlers, ends of a process, failures

ASSUME ConfigAssumption == Inst # {} /\ MaxOps \in Nat /\ MaxCrashes \in Nat /\ MaxErrors \in Nat

VARIABLES
    cfg,       \* the tables in the database: the write that made each what it is
    counter,   \* config_meta.counter
    versions,  \* the last two good versions recorded, the newest last
    snap,      \* of each instance: the snapshot,
    count,     \* the counter it was loaded at (dbCount),
    status,    \* "new" before the first load, then "ok" or "error",
    trig,      \* an event in the channel of the loop,
    rl,        \* and the reload in flight
    hs,        \* the handlers
    ops, crashes, errors,   \* how many there have been
    lost       \* history: an increment of the counter was overwritten or never made

dbVars == <<cfg, counter, versions>>
instVars == <<snap, count, status, trig, rl>>
cfgVars == <<dbVars, instVars, hs, ops, crashes, errors, lost>>

\* Two of the tables and the settings records, in the order of Reload.  A table
\* can be empty; settings that are Empty are the defaults.
Tables == {"aliases", "apikeys", "settings"}
After == [aliases |-> "apikeys", apikeys |-> "settings", settings |-> "swap"]
Empty == -1
EmptySnapshot == [t \in Tables |-> Empty]
NoReload == [pc |-> "idle", by |-> "loop", start |-> 0, read |-> EmptySnapshot, errs |-> FALSE, meta |-> 0]
NoHandler == [pc |-> "idle", op |-> "none", at |-> CHOOSE i \in Inst : TRUE, meta |-> 0, target |-> EmptySnapshot]
Ops == {"save", "reload", "rollback"}

\* The instances have just been started, or have loaded what there is; the
\* version they recorded then is that, or empty (see RecordVersion).
ConfigInit ==
    /\ cfg = [t \in Tables |-> 0]
    /\ counter = 0
    /\ \/ /\ versions = <<>>
          /\ snap = [i \in Inst |-> EmptySnapshot]
          /\ status = [i \in Inst |-> "new"]
       \/ /\ versions \in {<<cfg>>, <<EmptySnapshot>>}
          /\ snap = [i \in Inst |-> cfg]
          /\ status = [i \in Inst |-> "ok"]
    /\ count = [i \in Inst |-> 0]
    /\ trig = [i \in Inst |-> FALSE]
    /\ rl = [i \in Inst |-> NoReload]
    /\ hs = [a \in Admins |-> NoHandler]
    /\ ops \in 0 .. MaxOps /\ crashes \in {0, MaxCrashes} /\ errors \in {0, MaxErrors}
    /\ lost = FALSE

-----------------------------------------------------------------------------
(* Reload.                                                                    *)

Busy(i) == rl[i].pc # "idle"

\* Something in the database cannot be read or saved.
Fails == errors < MaxErrors /\ errors' = errors + 1

\* The meta record, read to compare the counter and again to start; what
\* cannot be read is a record of defaults, with the counter 0.
currentMeta(seen, start) == IF seen = counter /\ start = counter THEN UNCHANGED errors ELSE Fails

ReloadIfChanged(i, seen) == seen # count[i] \/ status[i] = "new"

\* The counter is captured before the tables are read.
Reload(i, by, start) == rl' = [rl EXCEPT ![i] = [NoReload EXCEPT !.pc = "aliases", !.by = by, !.start = start]]

\* A reload that is due, unless one is in flight.
MayReload(i, by, due, start) == IF due /\ ~Busy(i) THEN Reload(i, by, start) ELSE UNCHANGED rl

\* Mutant: without the poll, the loop wakes up for the events of its own instance.
LoopUnpolled(i) ==
    /\ trig[i] /\ trig' = [trig EXCEPT ![i] = FALSE]
    /\ \E seen, start \in {counter, 0} :
        currentMeta(seen, start) /\ MayReload(i, "loop", ReloadIfChanged(i, seen), start)
    /\ UNCHANGED <<dbVars, snap, count, status, hs, ops, crashes, lost>>

\* The loop wakes up, by an event or the poll; the first load asks nothing.
Loop(i) ==
    /\ trig' = [trig EXCEPT ![i] = FALSE]
    /\ \E seen, start \in {counter, 0} :
        currentMeta(seen, start) /\ MayReload(i, "loop", ReloadIfChanged(i, seen), start)
    /\ rl' # rl \/ trig' # trig
    /\ UNCHANGED <<dbVars, snap, count, status, hs, ops, crashes, lost>>

\* One table is read; an error leaves it empty in the new snapshot, and is
\* noted.  That of a settings record is discarded, its defaults are used.
ReadTable(i) ==
    LET t == rl[i].pc
        Got(v, e) == rl' = [rl EXCEPT ![i].read[t] = v, ![i].errs = @ \/ e, ![i].pc = After[t]]
    IN  /\ t \in Tables
        /\ \/ Got(cfg[t], FALSE) /\ UNCHANGED errors
           \/ Fails /\ Got(Empty, t # "settings")
        /\ UNCHANGED <<dbVars, snap, count, status, trig, hs, ops, crashes, lost>>

\* Mutant: the counter is taken when the tables have been read.
SwapCountsNow(i) ==
    /\ rl[i].pc = "swap"
    /\ snap' = [snap EXCEPT ![i] = rl[i].read]
    /\ count' = [count EXCEPT ![i] = counter]
    /\ status' = [status EXCEPT ![i] = IF rl[i].errs THEN "error" ELSE "ok"]
    /\ rl' = [rl EXCEPT ![i].pc = "record"]
    /\ UNCHANGED <<dbVars, trig, hs, ops, crashes, errors, lost>>

Swap(i) ==
    /\ rl[i].pc = "swap"
    /\ snap' = [snap EXCEPT ![i] = rl[i].read]
    /\ count' = [count EXCEPT ![i] = rl[i].start]
    /\ status' = [status EXCEPT ![i] = IF rl[i].errs THEN "error" ELSE "ok"]
    /\ rl' = [rl EXCEPT ![i].pc = "record"]
    /\ UNCHANGED <<dbVars, trig, hs, ops, crashes, errors, lost>>

\* recordVersion: what the database holds by now becomes a version, good when
\* the reload was; an export that fails is an empty one.  The digest that
\* should keep copies out covers the time of the export: no two are equal.
RecordVersion(i) ==
    LET Good(v) == versions' = IF status[i] # "ok" THEN versions
                               ELSE Append(IF Len(versions) < 2 THEN versions ELSE Tail(versions), v)
    IN  /\ rl[i].pc = "record"
        /\ \/ Good(cfg) /\ UNCHANGED errors
           \/ Fails /\ Good(EmptySnapshot)
           \/ Fails /\ UNCHANGED versions               \* it is not inserted
        /\ rl' = [rl EXCEPT ![i].pc = "meta"]
        /\ UNCHANGED <<cfg, counter, snap, count, status, trig, hs, ops, crashes, lost>>

\* The record of config_meta is loaded, defaults if it cannot be, and saved
\* with the version in it.
MetaLoad(i) ==
    /\ rl[i].pc = "meta"
    /\ \E c \in {counter, 0} :
        /\ currentMeta(c, c)
        /\ rl' = [rl EXCEPT ![i].pc = "save", ![i].meta = c]
    /\ UNCHANGED <<dbVars, snap, count, status, trig, hs, ops, crashes, lost>>

MetaSave(i) ==
    /\ rl[i].pc = "save"
    /\ \/ counter' = rl[i].meta /\ lost' = (lost \/ counter # rl[i].meta) /\ UNCHANGED errors
       \/ Fails /\ UNCHANGED <<counter, lost>>
    /\ rl' = [rl EXCEPT ![i] = NoReload]
    /\ UNCHANGED <<cfg, versions, snap, count, status, trig, hs, ops, crashes>>

ReloadStep(i) == ReadTable(i) \/ Swap(i) \/ RecordVersion(i) \/ MetaLoad(i) \/ MetaSave(i)

-----------------------------------------------------------------------------
(* The handlers.                                                              *)

Begin(a, i, op, pc, target) ==
    /\ hs[a].pc = "idle" /\ ops < MaxOps
    /\ ops' = ops + 1
    /\ hs' = [hs EXCEPT ![a] = [NoHandler EXCEPT !.pc = pc, !.op = op, !.at = i, !.target = target]]

\* Any handler that saves: the write is committed, Bump comes after it.
Write(a, i) ==
    /\ Begin(a, i, "save", "bump", EmptySnapshot)
    /\ \E t \in Tables : cfg' = [cfg EXCEPT ![t] = ops']
    /\ UNCHANGED <<counter, versions, instVars, crashes, errors, lost>>

reloadConfig(a, i) ==
    /\ Begin(a, i, "reload", "bump", EmptySnapshot)
    /\ UNCHANGED <<dbVars, instVars, crashes, errors, lost>>

\* The version before the newest one is looked up, and restored in a
\* transaction; without one the request is refused.
Rollback(a, i) ==
    /\ Len(versions) = 2
    /\ Begin(a, i, "rollback", "restore", versions[1])
    /\ UNCHANGED <<dbVars, instVars, crashes, errors, lost>>

\* Mutant: the settings are cleared like a table.
Clears(b) == [cfg EXCEPT !["aliases"] = b["aliases"], !["settings"] = b["settings"]]

\* A table is cleared and filled again, of the settings those in the bundle
\* are saved, and the keys are left alone.
Restored(b) == [cfg EXCEPT !["aliases"] = b["aliases"],
                           !["settings"] = IF b["settings"] = Empty THEN @ ELSE b["settings"]]

RestoreBundle(a) ==
    /\ hs[a].pc = "restore"
    /\ \/ /\ cfg' = Restored(hs[a].target)
          /\ hs' = [hs EXCEPT ![a].pc = "bump"]
       \/ hs' = [hs EXCEPT ![a] = NoHandler] /\ UNCHANGED cfg     \* rolled back
    /\ UNCHANGED <<counter, versions, instVars, ops, crashes, errors, lost>>

\* Bump, first half.
BumpLoad(a) ==
    /\ hs[a].pc = "bump"
    /\ hs' = [hs EXCEPT ![a].pc = "bumped", ![a].meta = counter]
    /\ UNCHANGED <<dbVars, instVars, ops, crashes, errors, lost>>

BumpSave(a) ==
    LET i == hs[a].at
    IN  /\ hs[a].pc = "bumped"
        /\ counter' = hs[a].meta + 1
        /\ lost' = (lost \/ counter # hs[a].meta)
        /\ trig' = [trig EXCEPT ![i] = TRUE]
        /\ hs' = [hs EXCEPT ![a] = IF @.op = "save" THEN NoHandler ELSE [@ EXCEPT !.pc = "load"]]
        /\ UNCHANGED <<cfg, versions, snap, count, status, rl, ops, crashes, errors>>

\* The record cannot be loaded or saved: only the event is left of the Bump.
BumpFails(a) ==
    LET i == hs[a].at
    IN  /\ hs[a].pc \in {"bump", "bumped"}
        /\ Fails
        /\ trig' = [trig EXCEPT ![i] = TRUE]
        /\ lost' = (lost \/ hs[a].op # "reload")
        /\ hs' = [hs EXCEPT ![a] = IF @.op = "save" THEN NoHandler ELSE [@ EXCEPT !.pc = "load"]]
        /\ UNCHANGED <<dbVars, snap, count, status, rl, ops, crashes>>

\* The reload button and the rollback reload themselves, unless a reload is in
\* flight: then they answer at once.
HandlerReload(a) ==
    LET i == hs[a].at
    IN  /\ hs[a].pc = "load"
        /\ \E seen, start \in {counter, 0} :
            /\ currentMeta(seen, start)
            /\ MayReload(i, "handler", hs[a].op = "rollback" \/ ReloadIfChanged(i, seen), start)
        /\ hs' = [hs EXCEPT ![a] = NoHandler]
        /\ UNCHANGED <<dbVars, snap, count, status, trig, ops, crashes, lost>>

Handle(a) == RestoreBundle(a) \/ BumpLoad(a) \/ BumpSave(a) \/ BumpFails(a) \/ HandlerReload(a)

\* An instance ends, with its handlers, and is started again.
Restart(i) ==
    /\ crashes < MaxCrashes /\ crashes' = crashes + 1
    /\ snap' = [snap EXCEPT ![i] = EmptySnapshot]
    /\ count' = [count EXCEPT ![i] = 0]
    /\ status' = [status EXCEPT ![i] = "new"]
    /\ trig' = [trig EXCEPT ![i] = FALSE]
    /\ rl' = [rl EXCEPT ![i] = NoReload]
    /\ hs' = [a \in Admins |-> IF hs[a].at = i THEN NoHandler ELSE hs[a]]
    /\ lost' = (lost \/ \E a \in Admins : hs[a].at = i /\ hs[a].pc \in {"bump", "bumped"} /\ hs[a].op # "reload")
    /\ UNCHANGED <<dbVars, ops, errors>>

-----------------------------------------------------------------------------

Runs(i) == Loop(i) \/ ReloadStep(i)

Starts(a, i) == Write(a, i) \/ reloadConfig(a, i) \/ Rollback(a, i)

ConfigNext ==
    \/ \E i \in Inst : Runs(i) \/ Restart(i)
    \/ \E a \in Admins : Handle(a) \/ \E i \in Inst : Starts(a, i)

\* What goes on by itself: the loops, the reloads and the handlers.
Works == (\E i \in Inst : Runs(i)) \/ (\E a \in Admins : Handle(a))

ConfigSpec == ConfigInit /\ [][ConfigNext]_cfgVars

-----------------------------------------------------------------------------
(* Properties.                                                                *)

Values == Nat \cup {Empty}
Snapshots == [Tables -> Values]
Reloads == [pc : {"idle", "swap", "record", "meta", "save"} \cup Tables,
            by : {"loop", "handler"}, start : Nat, read : Snapshots, errs : BOOLEAN, meta : Nat]
Handlers == [pc : {"idle", "restore", "bump", "bumped", "load"}, op : Ops \cup {"none"},
             at : Inst, meta : Nat, target : Snapshots]

\* The types of the tables, the instances and the processes.  A restored
\* version may have left the aliases empty, never the keys or the settings.
ConfigTypeOK ==
    /\ cfg \in Snapshots /\ cfg["apikeys"] # Empty /\ cfg["settings"] # Empty
    /\ counter \in Nat
    /\ versions \in Seq(Snapshots)
    /\ snap \in [Inst -> Snapshots] /\ count \in [Inst -> Nat]
    /\ status \in [Inst -> {"new", "ok", "error"}]
    /\ trig \in [Inst -> BOOLEAN]
    /\ rl \in [Inst -> Reloads]
    /\ hs \in [Admins -> Handlers]
    /\ ops \in Nat /\ crashes \in Nat /\ errors \in Nat
    /\ lost \in BOOLEAN

\* A committed write whose Bump is not made yet.
Unannounced == \E a \in Admins : hs[a].pc \in {"bump", "bumped"}

\* The defaults are used in the place of settings that could not be read.
OnDefaults(i) == snap[i]["settings"] = Empty

\* What an instance uses of the tables, and of the settings unless it is on
\* their defaults, is what the database holds.
UsesDatabase(i) ==
    \A t \in Tables : snap[i][t] = cfg[t] \/ (t = "settings" /\ OnDefaults(i))

\* An instance that sees no change in the counter has no change to see: the
\* counter of a snapshot never covers a write its tables were read before,
\* although reads, writes and Bumps interleave and the record of the counter
\* may be unreadable (manager.go:200-204).  A table that could not be read,
\* settings that are then the defaults, and an increment overwritten, by a
\* stale record or by one that could not be read, are the exceptions.
UnchangedIsCurrent ==
    ~lost /\ ~Unannounced =>
        \A i \in Inst : ~ReloadIfChanged(i, counter) /\ status[i] = "ok" => UsesDatabase(i)

\* Every instance comes to use the configuration in the database, whichever
\* instance the administrator works on (manager.go:133), unless an increment
\* was lost, a table could not be read, or the settings and they are defaults.
Visible ==
    \A i \in Inst : ~UsesDatabase(i) ~> (lost \/ status[i] = "error" \/ UsesDatabase(i))

\* What a rollback would restore is a really different configuration
\* (manager.go:395).
RollbackTargetDiffers == Len(versions) = 2 => versions[1] # versions[2]

=============================================================================
