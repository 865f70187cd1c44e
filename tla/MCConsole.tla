----------------------------- MODULE MCConsole -----------------------------
(* TLC instances of Console: scenes, explored side by side where a run names *)
(* several.  The tab alone against the server and the other administrators;  *)
(* two devices that race for the same bound account; two devices logged in   *)
(* to an unbound one that both bind a second factor.                         *)
EXTENDS Console, TLC

CONSTANTS tab, phone, Scenes, MaxTime

VARIABLE scene

\* The tab starts with at most one duty of the account open, and with one the other
\* administrators are done; the devices find an account that nobody administers
\* meanwhile.
MCInit ==
    /\ ConInit
    /\ scene \in Scenes
    /\ scene \in {"devices", "binding"} => ~user.must /\ ~user.required /\ adm = MaxAdmin
    /\ scene = "devices" => user.bound
    /\ scene = "binding" => ~user.bound
    /\ now = IF scene = "devices" THEN 2 ELSE 1
    /\ slot = IF scene = "devices" THEN 1 ELSE MaxSlot
    /\ scene = "tab" =>
         /\ ~(user.must /\ (user.bound \/ user.required))
         /\ adm = IF user.must \/ user.required THEN MaxAdmin ELSE 0

\* Later times, a second secret and a second binding are for the devices that bind.
Short ==
    /\ now' <= MaxTime /\ made'.binds \in {made.binds, 1} /\ made'.secrets <= 1
    /\ \A c \in Callers : calls'[c].op = "setup" => calls[c].op = "setup" \/ made.secrets = 0

\* The age of the cached answer is looked at when a page comes up, and the debounce
\* when a 401 is heard: that time passes is explored just before.
Timely ==
    /\ me'.age > me.age => (~mounted /\ route \in Guarded) \/ (mounted /\ route = "security" /\ ~sec.on)
    /\ DebounceEnds => meCall.st = "401" \/ (calls[browser].pc = "done" /\ Ans = "401")

\* The person at the tab types the current code, or a wrong one; recovery codes and
\* older codes are typed on the devices.
Plain ==
    LET a == calls'[browser].arg
    IN  a.kind # "rec" /\ (a.kind = "totp" => a.code = slot)

\* The threshold is left to the devices, and there are no failures where two of
\* them bind.
MCNext ==
    /\ \/ scene = "tab" /\ TabNext /\ user'.failed < LockAfter /\ Short /\ Timely /\ Plain
       \/ scene = "devices" /\ DevicesNext(Callers) /\ Short
       \/ scene = "binding" /\ DevicesNext(Callers) /\ user'.failed = 0
    /\ scene' = scene

\* The devices differ in nothing; the tab's scene has no other device.
Symm == Permutations(Callers)

MCSpec == MCInit /\ [][MCNext]_<<vars, scene>>

=============================================================================
