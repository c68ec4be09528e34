----------------------------- MODULE HookInstall -----------------------------
(***************************************************************************)
(* Connecting the hooks (integration.rs).  The installation scripts of     *)
(* every operating system and the daemons of a Codex App edit the one      *)
(* settings file of a provider, which its user and the provider edit too.  *)
(* For Codex the writers take turns by a lock file, which is removed by    *)
(* age when its holder is gone; for Claude there is no lock.  A file that  *)
(* Windows and WSL share holds one hook with a route for each.             *)
(*                                                                         *)
(* All hook events are treated alike and are one here.  A hook of another  *)
(* program is a group of its own, or a second handler in our group.        *)
(***************************************************************************)
EXTENDS Integers, FiniteSets

CONSTANTS
    Scripts,    \* runs of the scripts that install, update and uninstall
    Daemons,    \* daemons that see a Codex App
    Side,       \* the side, an operating system, of each of these
    Nobody,
    Foreign,    \* hooks of other programs
    HookStarts  \* where a behaviour begins, who takes part, its bounds (edits, faults)

Sides == {"posix", "windows"}
Writers == Scripts \union Daemons
Providers == {"claude", "codex"}
Routes == {"none", "noop", "old", "new"}
Absent == [s \in Sides |-> "none"]
Shapes == {"none", "object", "refused", "dangling"}

\* What lies before the group of our hook, in it, and after it.
HookFiles ==
    [shape: Shapes, before: SUBSET Foreign, own: [Sides -> Routes],
     mixed: SUBSET Foreign, after: SUBSET Foreign, twin: BOOLEAN]

NoHooks ==
    [shape |-> "none", before |-> {}, own |-> Absent, mixed |-> {}, after |-> {},
     twin |-> FALSE]

Positions == 0..Cardinality(Foreign)
Trusts == [on: BOOLEAN, route: Routes]
Answers == {"fails", "older", "supported"}
HookBudgets == [edits: Nat, faults: Nat]

\* A hook of ours is what makes a group ours.
Sound(f) ==
    /\ f.own = Absent => f.mixed = {} /\ f.after = {} /\ ~f.twin
    /\ f.shape \in {"none", "dangling"} => f = [NoHooks EXCEPT !.shape = f.shape]

ASSUME HookAssumption ==
    /\ IsFiniteSet(Foreign)
    /\ Scripts \intersect Daemons = {}
    /\ Nobody \notin Writers
    /\ Side \in [Writers -> Sides]
    /\ HookStarts \subseteq
         [provider: Providers, hooks: HookFiles, cli: [Sides -> SUBSET Answers],
          approved: BOOLEAN, absent: SUBSET Writers, edits: Nat, faults: Nat]
    /\ \A start \in HookStarts : Sound(start.hooks)

VARIABLES
    provider,   \* whose settings file it is
    hooks,      \* the file
    trust,      \* config.toml: what the user trusts and has switched on, by position
    cli,        \* what each installed command line of the provider answers
    running,    \* is the service of a side installed and running?
    lock,       \* the lock file: who created it, and is it 60 s old?
    at,         \* the next step of each writer
    verb,       \* what each writer is to do
    view,       \* the file as each writer read it
    saved,      \* foreign hooks that some backup holds
    shown,      \* hook_routes: the health each daemon shows
    hookLeft,   \* edits of the user and faults still to come
    kept,       \* history: foreign hooks the user added and did not take away
    late,       \* history: those added between a writer's backup and its write
    robbed,     \* history: a lock was removed under a writer that had it
    edited      \* history: the user wrote the file since a writer read it

userVars == <<trust, cli, kept, late, edited>>
lockVars == <<lock, robbed>>
hooksVars == <<provider, hooks, userVars, running, lockVars, at, verb, view, saved,
               shown, hookLeft>>

Locked == {"load", "backup", "write", "finish", "abort"}
HookSteps == {"idle", "resolve", "inspect", "lock", "breaking", "ok", "failed", "skipped",
          "done", "dead"} \union Locked
Ended == {"failed", "skipped", "done", "dead"}
Verdicts == {"HEALTHY", "NEEDS TRUST", "NEEDS ATTENTION"}

-----------------------------------------------------------------------------
(* The file and what the writers make of it. *)

Foreigners(f) == f.before \union f.mixed \union f.after

\* without_owned_hooks on every group: what was in our group stays where it was.
Stripped(f) ==
    [f EXCEPT !.before = Foreigners(f), !.own = Absent, !.mixed = {}, !.after = {},
              !.twin = FALSE]

(* Mutant: the other side's route is not looked at. *)
CodexRouteAlone(s, own) == [r \in Sides |-> IF r = s THEN "new" ELSE "noop"]

\* The other side's route is retained; where there is none, a valid no-op.
CodexRoute(s, own) ==
    [r \in Sides |-> IF r = s THEN "new" ELSE IF own[r] = "none" THEN "noop" ELSE own[r]]

DesiredRoute(p, s, own) ==
    IF p = "codex" THEN CodexRoute(s, own) ELSE [r \in Sides |-> "new"]

Updated(p, s, v, f) ==
    IF v = "install"
    THEN [Stripped(f) EXCEPT !.own = DesiredRoute(p, s, f.own), !.shape = "object"]
    ELSE Stripped(f)

\* verify_hooks: ours is there once, as desired, and alone in its group.
Verified(p, s, f) ==
    /\ f.shape = "object"
    /\ f.own # Absent /\ f.own = DesiredRoute(p, s, f.own)
    /\ ~f.twin /\ f.mixed = {}

Entry(f, t, s) == t[s][Cardinality(f.before)]

\* audit_codex_hooks: the hook is current, and the user trusts this very route
\* in this position and has not switched it off.
Audit(f, t, s) ==
    LET current == f.own[s] = "new" /\ ~f.twin /\ f.shape = "object" IN
    IF current /\ Entry(f, t, s).on
    THEN IF Entry(f, t, s).route = f.own[s] THEN "HEALTHY" ELSE "NEEDS TRUST"
    ELSE "NEEDS ATTENTION"

Healthy(s) == Audit(hooks, trust, s) = "HEALTHY"

Approval(start) ==
    [s \in Sides |-> [i \in Positions |->
        [on |-> TRUE,
         route |-> IF start.approved /\ i = Cardinality(start.hooks.before)
                   THEN start.hooks.own[s] ELSE "none"]]]

HooksInitWith(start) ==
    /\ provider = start.provider
    /\ hooks = start.hooks
    /\ trust = Approval(start)
    /\ cli = start.cli
    /\ running = [s \in Sides |-> TRUE]
    /\ lock = [by |-> Nobody, old |-> FALSE]
    /\ at = [a \in Writers |-> IF a \in start.absent THEN "dead" ELSE "idle"]
    /\ verb = [a \in Writers |-> "install"]
    /\ view = [a \in Writers |-> NoHooks]
    /\ saved = {}
    /\ shown = [d \in Daemons |-> "NEEDS ATTENTION"]
    /\ hookLeft = [edits |-> start.edits, faults |-> start.faults]
    /\ kept = Foreigners(start.hooks)
    /\ late = {}
    /\ robbed = FALSE
    /\ edited = [a \in Writers |-> FALSE]

HooksInit == \E start \in HookStarts : HooksInitWith(start)

Fault == hookLeft.faults > 0 /\ hookLeft' = [hookLeft EXCEPT !.faults = @ - 1]

-----------------------------------------------------------------------------
(* The scripts: which command they give, and what follows from its result. *)

Goto(a, step) == at' = [at EXCEPT ![a] = step]

\* What a writer read is gone with the call.
Forget(a) ==
    /\ view' = [view EXCEPT ![a] = NoHooks]
    /\ edited' = [edited EXCEPT ![a] = FALSE]

\* Both writers refuse a dangling link before anything else.
Enter(a, v) ==
    /\ verb' = [verb EXCEPT ![a] = v]
    /\ Goto(a, IF hooks.shape = "dangling" THEN "failed"
               ELSE IF provider = "codex" THEN "lock" ELSE "load")

Contract(answer) == answer = "supported"
FilePresent == hooks.shape \notin {"none", "dangling"}

Update(s) ==
    /\ at[s] = "idle"
    /\ Goto(s, IF provider = "claude" THEN "resolve" ELSE "inspect")
    /\ UNCHANGED <<provider, hooks, userVars, running, lockVars, verb, view, saved,
                   shown, hookLeft>>

\* resolve-claude: some installation of Claude is supported.
Resolve(s) ==
    /\ at[s] = "resolve"
    /\ Goto(s, IF \E c \in cli[Side[s]] : Contract(c) THEN "inspect" ELSE "skipped")
    /\ UNCHANGED <<provider, hooks, userVars, running, lockVars, verb, view, saved,
                   shown, hookLeft>>

\* check-claude, check-codex: the hooks of an unsupported Codex are removed.
Inspect(s) ==
    /\ at[s] = "inspect"
    /\ \/ /\ \E c \in cli[Side[s]] : Contract(c)
          /\ Enter(s, "install")
       \/ /\ \A c \in cli[Side[s]] : ~Contract(c)
          /\ provider = "codex" /\ FilePresent
          /\ Enter(s, "remove")
       \/ /\ \A c \in cli[Side[s]] : ~Contract(c)
          /\ ~(provider = "codex" /\ FilePresent)
          /\ Goto(s, "skipped") /\ UNCHANGED verb
    /\ UNCHANGED <<provider, hooks, userVars, running, lockVars, view, saved, shown,
                   hookLeft>>

Uninstall(s) ==
    /\ at[s] = "idle"
    /\ \/ FilePresent /\ Enter(s, "uninstall")
       \/ /\ ~FilePresent
          /\ verb' = [verb EXCEPT ![s] = "uninstall"] /\ Goto(s, "ok")
    /\ UNCHANGED <<provider, hooks, userVars, running, lockVars, view, saved, shown,
                   hookLeft>>

\* After an install the scripts verify what is in the file now.
CheckAfter(s) ==
    /\ at[s] = "ok" /\ verb[s] # "uninstall"
    /\ Goto(s, IF verb[s] = "install" /\ ~Verified(provider, Side[s], hooks)
               THEN "failed" ELSE "done")
    /\ UNCHANGED <<provider, hooks, userVars, running, lockVars, verb, view, saved,
                   shown, hookLeft>>

\* The service is stopped after the hooks are removed; a daemon in the middle
\* of an update is killed and leaves its lock.
StopService(s) ==
    /\ at[s] = "ok" /\ verb[s] = "uninstall"
    /\ running' = [running EXCEPT ![Side[s]] = FALSE]
    /\ at' = [a \in Writers |->
                IF a = s THEN "done"
                ELSE IF a \in Daemons /\ Side[a] = Side[s] THEN "dead" ELSE at[a]]
    /\ UNCHANGED <<provider, hooks, userVars, lockVars, verb, view, saved, shown,
                   hookLeft>>

(* The daemon: refresh_codex_app_adapter, once a minute while an App runs. *)
Sync(d) ==
    /\ at[d] = "idle" /\ running[Side[d]] /\ provider = "codex"
    /\ Enter(d, "install")
    /\ UNCHANGED <<provider, hooks, userVars, running, lockVars, view, saved, shown,
                   hookLeft>>

Report(d) ==
    /\ at[d] \in {"idle", "ok", "failed"} /\ running[Side[d]] /\ provider = "codex"
    /\ shown' = [shown EXCEPT ![d] = IF at[d] = "failed" THEN "NEEDS ATTENTION"
                                     ELSE Audit(hooks, trust, Side[d])]
    /\ Goto(d, "idle")
    /\ UNCHANGED <<provider, hooks, userVars, running, lockVars, verb, view, saved,
                   hookLeft>>

-----------------------------------------------------------------------------
(* AppHookLock. *)

(* Mutant: the lock is created although it is there. *)
TakeLockShared(a) ==
    /\ at[a] = "lock"
    /\ lock' = [by |-> a, old |-> FALSE]
    /\ Goto(a, "load")
    /\ UNCHANGED <<provider, hooks, userVars, running, robbed, verb, view, saved, shown,
                   hookLeft>>

TakeLock(a) ==
    /\ at[a] = "lock" /\ lock.by = Nobody
    /\ lock' = [by |-> a, old |-> FALSE]
    /\ Goto(a, "load")
    /\ UNCHANGED <<provider, hooks, userVars, running, robbed, verb, view, saved, shown,
                   hookLeft>>

FindStale(a) ==
    /\ at[a] = "lock" /\ lock.old
    /\ Goto(a, "breaking")
    /\ UNCHANGED <<provider, hooks, userVars, running, lockVars, verb, view, saved,
                   shown, hookLeft>>

Holding == lock.by # Nobody /\ at[lock.by] \in Locked

\* Two seconds in vain.
GiveUp(a) ==
    /\ at[a] = "lock" /\ lock.by # Nobody /\ ~lock.old
    /\ Goto(a, "failed")
    /\ UNCHANGED <<provider, hooks, userVars, running, lockVars, verb, view, saved,
                   shown, hookLeft>>

\* The lock file is removed, whoever it belongs to by now; a failure is ignored.
RemoveLock(a) ==
    \/ /\ lock' = [by |-> Nobody, old |-> FALSE]
       /\ robbed' = (robbed \/ (Holding /\ lock.by # a))
       /\ UNCHANGED hookLeft
    \/ Fault /\ UNCHANGED lockVars

BreakLock(a) ==
    /\ at[a] = "breaking"
    /\ RemoveLock(a)
    /\ Goto(a, "lock")
    /\ UNCHANGED <<provider, hooks, userVars, running, verb, view, saved, shown>>

Unlock(a) ==
    /\ at[a] \in {"finish", "abort"}
    /\ IF provider = "codex" THEN RemoveLock(a) ELSE UNCHANGED <<lockVars, hookLeft>>
    /\ Goto(a, IF at[a] = "finish" THEN "ok" ELSE "failed")
    /\ Forget(a)
    /\ UNCHANGED <<provider, hooks, trust, cli, kept, late, running, verb, saved, shown>>

-----------------------------------------------------------------------------
(* update_hooks and update_codex_app_hooks. *)

Load(a) ==
    /\ at[a] = "load"
    /\ view' = [view EXCEPT ![a] = hooks]
    /\ edited' = [edited EXCEPT ![a] = FALSE]
    /\ Goto(a, IF hooks.shape = "refused" THEN "abort"
               ELSE IF Updated(provider, Side[a], verb[a], hooks) = hooks THEN "finish"
               ELSE "backup")
    /\ UNCHANGED <<provider, hooks, trust, cli, kept, late, running, lockVars, verb,
                   saved, shown, hookLeft>>

(* Mutant: backs up what the writer read. *)
BackupOfView(a) ==
    /\ at[a] = "backup"
    /\ \/ /\ saved' = saved \union Foreigners(view[a])
          /\ Goto(a, "write") /\ UNCHANGED hookLeft
       \/ Fault /\ Goto(a, "abort") /\ UNCHANGED saved
    /\ UNCHANGED <<provider, hooks, userVars, running, lockVars, verb, view, shown>>

\* save_object: a copy of the file as it is now, then the new one in its place.
Backup(a) ==
    /\ at[a] = "backup"
    /\ \/ /\ saved' = saved \union Foreigners(hooks)
          /\ Goto(a, "write") /\ UNCHANGED hookLeft
       \/ Fault /\ Goto(a, "abort") /\ UNCHANGED saved
    /\ UNCHANGED <<provider, hooks, userVars, running, lockVars, verb, view, shown>>

\* The write fails, or only the mode cannot be restored.
Write(a) ==
    /\ at[a] = "write"
    /\ \/ /\ hooks' = Updated(provider, Side[a], verb[a], view[a])
          /\ Goto(a, "finish") /\ UNCHANGED hookLeft
       \/ Fault /\ Goto(a, "abort") /\ UNCHANGED hooks
       \/ /\ hooks' = Updated(provider, Side[a], verb[a], view[a])
          /\ Fault /\ Goto(a, "abort")
    /\ UNCHANGED <<provider, userVars, running, lockVars, verb, view, saved, shown>>

-----------------------------------------------------------------------------
(* Time and crashes. *)

\* Sixty seconds pass over a lock; for a writer at work that is a stall.
Age ==
    /\ lock.by # Nobody /\ ~lock.old
    /\ lock' = [lock EXCEPT !.old = TRUE]
    /\ IF Holding THEN Fault ELSE UNCHANGED hookLeft
    /\ UNCHANGED <<provider, hooks, userVars, running, robbed, at, verb, view, saved,
                   shown>>

\* A script is gone for good; the service manager starts a daemon again.
CrashWriter(a) ==
    /\ at[a] \notin {"idle"} \union Ended
    /\ Fault
    /\ Goto(a, IF a \in Daemons THEN "idle" ELSE "dead")
    /\ Forget(a)
    /\ UNCHANGED <<provider, hooks, trust, cli, kept, late, running, lockVars, verb,
                   saved, shown>>

-----------------------------------------------------------------------------
(* The user, and the provider's own settings dialog. *)

Edit == hookLeft.edits > 0 /\ hookLeft' = [hookLeft EXCEPT !.edits = @ - 1]

Rewrites(f) ==
    /\ Edit
    /\ hooks' = f
    /\ edited' = [a \in Writers |-> edited[a] \/ at[a] \in {"backup", "write"}]
    /\ UNCHANGED <<provider, trust, cli, running, lockVars, at, verb, view, saved,
                   shown>>

Adds(h) ==
    /\ kept' = kept \union {h}
    /\ late' = IF \E a \in Writers : at[a] = "write" THEN late \union {h} ELSE late

AddGroup(h) ==
    /\ hooks.shape \in {"none", "object"} /\ h \notin Foreigners(hooks)
    /\ Adds(h)
    /\ Rewrites(IF hooks.own = Absent
                THEN [hooks EXCEPT !.shape = "object", !.before = @ \union {h}]
                ELSE [hooks EXCEPT !.after = @ \union {h}])

AddHandler(h) ==
    /\ hooks.own # Absent /\ hooks.mixed = {} /\ h \notin Foreigners(hooks)
    /\ Adds(h)
    /\ Rewrites([hooks EXCEPT !.mixed = {h}])

TakeAway(h) ==
    /\ h \in Foreigners(hooks)
    /\ kept' = kept \ {h} /\ UNCHANGED late
    /\ Rewrites([hooks EXCEPT !.before = @ \ {h}, !.mixed = @ \ {h}, !.after = @ \ {h}])

\* Our hook is deleted by hand, or copied into a second group.
Tamper ==
    /\ hooks.own # Absent
    /\ UNCHANGED <<kept, late>>
    /\ Rewrites(Stripped(hooks)) \/ Rewrites([hooks EXCEPT !.twin = TRUE])

\* Trust is given to a definition, on and off to a place.
Decide(s, entry) ==
    /\ hooks.own # Absent
    /\ Edit
    /\ trust' = [trust EXCEPT ![s][Cardinality(hooks.before)] = entry]
    /\ UNCHANGED <<provider, hooks, cli, running, lockVars, at, verb, view, saved, shown,
                   kept, late, edited>>

TrustHook(s) == Decide(s, [Entry(hooks, trust, s) EXCEPT !.route = hooks.own[s]])
SwitchOff(s) == Decide(s, [Entry(hooks, trust, s) EXCEPT !.on = FALSE])

\* The command lines of the provider are installed, updated and removed.
ChangeCli(s, answers) ==
    /\ Edit
    /\ cli' = [cli EXCEPT ![s] = answers]
    /\ UNCHANGED <<provider, hooks, trust, running, lockVars, at, verb, view, saved,
                   shown, kept, late, edited>>

User ==
    \/ \E h \in Foreign : AddGroup(h) \/ AddHandler(h) \/ TakeAway(h)
    \/ Tamper
    \/ \E s \in Sides : TrustHook(s) \/ SwitchOff(s)
    \/ \E s \in Sides : \E answers \in {{}, {"older"}, {"supported"}} : ChangeCli(s, answers)

ScriptStep(s) ==
    \/ Update(s) \/ Resolve(s) \/ Inspect(s) \/ Uninstall(s) \/ CheckAfter(s)
    \/ StopService(s)

WriterStep(a) ==
    \/ TakeLock(a) \/ FindStale(a) \/ GiveUp(a) \/ BreakLock(a) \/ Unlock(a)
    \/ Load(a) \/ Backup(a) \/ Write(a)

HooksNext ==
    \/ \E s \in Scripts : ScriptStep(s)
    \/ \E d \in Daemons : Sync(d) \/ Report(d)
    \/ \E a \in Writers : WriterStep(a) \/ CrashWriter(a)
    \/ Age
    \/ User

HooksSpec == HooksInit /\ [][HooksNext]_hooksVars

-----------------------------------------------------------------------------
(* Properties. *)

HookTypeOK ==
    /\ provider \in Providers
    /\ hooks \in HookFiles
    /\ trust \in [Sides -> [Positions -> Trusts]]
    /\ cli \in [Sides -> SUBSET Answers]
    /\ running \in [Sides -> BOOLEAN]
    /\ lock \in [by: Writers \union {Nobody}, old: BOOLEAN]
    /\ at \in [Writers -> HookSteps]
    /\ verb \in [Writers -> {"install", "remove", "uninstall"}]
    /\ view \in [Writers -> HookFiles]
    /\ saved \subseteq Foreign
    /\ shown \in [Daemons -> Verdicts]
    /\ hookLeft \in HookBudgets
    /\ kept \subseteq Foreign /\ late \subseteq Foreign
    /\ robbed \in BOOLEAN
    /\ edited \in [Writers -> BOOLEAN]

\* Every hook of another program that the user added and did not take away is in
\* the file or in a backup, whatever writers did, failed at or were killed in, but
\* for one that the user added between the backup of a writer and its write
\* (update_hooks has no lock, and the user knows of none).
NothingLost == kept \subseteq Foreigners(hooks) \union saved \union late

\* While no lock is removed under its holder, the writers of Codex exclude each
\* other: only the one that has the lock is at the file, and it writes over just
\* what it read, unless the user, who knows of no lock, wrote in between.
WritesFresh ==
    provider = "codex" /\ ~robbed =>
        \A a \in Writers :
            /\ at[a] \in Locked => lock.by = a
            /\ at[a] \in {"backup", "write"} => edited[a] \/ view[a] = hooks

\* An install for one side keeps the route of the other, and what the other
\* side's user has approved stays healthy where our group is the last one.
Installs(a) == at[a] = "write" /\ at'[a] # "write" /\ verb[a] = "install" /\ hooks' # hooks

OtherSideKept ==
    [][provider = "codex" /\ ~robbed =>
        \A a \in Writers : Installs(a) /\ ~edited[a] =>
            \A s \in Sides \ {Side[a]} :
                /\ hooks.own[s] # "none" => hooks'.own[s] = hooks.own[s]
                /\ hooks.mixed = {} /\ hooks.after = {} /\ Healthy(s) => Healthy(s)']_hooksVars

=============================================================================
