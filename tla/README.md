# Verification of the memory supervisor

TLA+ modules of the memory supervisor for coding agents, the TLC runs that check
them and the theorems TLAPS proves about them. Sources are named relative to
`src/` of the repository; line numbers are in `PROJECT.json`, under `map`.

## 1. The system

One resident daemon (`supervisor.rs`, `run_daemon`) ticks about once a second. A
tick is one sequential pass: clean up old files, drain notifications, drain hook
observations, sample memory, update the level, list processes, assess the
pressure, reconcile what is paused, answer owner requests, contain (logically,
then physically), manage the probation, resume what may run again, update the
protection episode, publish `state.json`. Nothing in it is threaded; what makes
it hard is everything around it:

* **The operating system.** A process can exit, be continued by somebody else or
  give its PID to another process between any two lines of a tick. Signals may be
  refused.
* **The disk.** `runtime.json` is the only memory the daemon has across a crash.
  It is written as a whole at some twenty places of the tick, each of which may
  fail; the signal that a write describes is sent before it, or after it.
* **Short-lived partners.** Hook processes (`gate.rs`), owner commands
  (`control.rs`), dispatchers (`notify.rs`) and the App guard (`app_guard.rs`)
  talk to the daemon through files that each of them creates and the other
  removes. They outlive the daemon, or it outlives them.
* **Time.** Windows, cooldowns, deadlines and time limits are differences of wall
  clock stamps, some of which are kept in `runtime.json` and some only in memory.

## 2. Components, state and correctness

| component | state | operations | what makes it correct | module |
| --- | --- | --- | --- | --- |
| Physical pauses | `stopped`, `incidents`, `probation`, `pending_control`, `resume_cooldown` in `runtime.json` | suspend, roll back, reconcile, resume, terminate, probation, relapse | every process the daemon stopped is owned by a record, in memory and on disk; an owner's word is last; pauses end | `PauseLedger` |
| Notification outbox | event files, `notification_events`, answer files, the episode | queue, drain, dispatch, merge, time out | no event is lost, none is sent twice, deliveries stand, edges alternate | `NotificationOutbox` |
| App guard | token files of one pause, `pending_physical` | arm, commit, signal, acknowledge, resume, cancel, take over | only the holder of the token signals; a token taken back stays taken back; a stopped server is owned and runs again whoever dies | `AppGuard` |
| Held assessment and pressure windows | the held action, `assessment_better_since` and `_target`, `recovery_since`, `critical_since`, `last_pressure_action_at` | escalate, relax, announce, resume, pause | never milder than the window's worst proposal; relaxes in the end; nothing resumes within the window; changes reach the disk | `PressureWindows` |
| Utilization level | `level`, `better_since` | escalate, relax | for display and notices only | not modelled |
| Logical containment | `logical_agents`, epochs, App control, observation files | hooks, drain, tighten and relax in batches, lifecycle, receipts, surface gate, last resort | an epoch names one state; subordinates before leads; released only after calm, the gate last; an App Server is stopped only over agents that know | `LogicalRoster`, `ContainmentLoop`, `AppContainment` |
| Admission gate, federation, power switch | `state.json`, the lease, peer files, the power-off marker | tick, publish, merge, renew the lease, age, turn off and on | a lease does not outlive what is published; no level echoes; off is off | `SharedAdmission` |
| Codex App adapter | threads, invocations, process owners | observe, reconcile | ownership only from live evidence of one generation | an input of `AppContainment` |
| Policy, runaway evidence | samples | assess | floating-point; results are inputs of the models | not modelled |
| Hook integration (`integration.rs`) | a provider's settings file, shared with its user and with the other operating system; the Codex lock file; the user's trust | update, remove, verify, audit; lock, break a stale lock | nothing of the user's is lost; writers exclude each other; one side leaves the other's route alone | `HookInstall` |
| Migration of earlier names (`migrate_install_names`) | two pointers, the directories they name, the settings, under three names | move, follow a pointer, rewrite keys | nothing is lost wherever it stops; what has settled is what the user had | `InstallNames` |
| Storage, platform, transports, status, configuration, other scripts | none of their own | input and output | stated where the models use them | external |

How they interact: hooks and owners write files the daemon drains; the daemon
writes `runtime.json` (its own memory) and `state.json` (what hooks, status and
peers read); dispatchers and the App guard are children that answer by files.

## 3. Modules and runs

| module | models | used by |
| --- | --- | --- |
| `PauseLedger` | pauses of CLI processes and their ledger | `PauseLedger_proofs`, `MCPauseSolo`, `MCPausePair`, `MCPauseLedger` |
| `EpisodeEdges` | the promise: episodes are announced in turn, once each | `NotificationOutbox` (INSTANCE, property `EdgesPromised`) |
| `NotificationOutbox` | events from the ledger to the transports and back | `NotificationOutbox_proofs`, `MCNotificationOutbox` |
| `AppGuard` | the shared App Server's pause, with its independent guard | `AppGuard_proofs`, `MCInstalled`, `MCAppGuard` |
| `PressureWindows` | how evidence becomes the held action, and when it makes the daemon act | `PressureWindows_proofs`, `MCPressureHeld`, `MCPressureWindows` |
| `LogicalRoster` | the ladder of restrictions, the classes of tools, what an observation does to a record, which agents a batch moves: operators only | `ContainmentLoop`, `AppContainment` |
| `ContainmentLoop` | hooks, drain and batches of one CLI process | `ContainmentLoop_proofs`, `MCContainment`, `MCAdmission` |
| `AppContainment` | the same for the agents of one App Server, with its surface gate and last resort | `AppContainment_proofs`, `MCContainment`, `MCAdmission` |
| `SharedAdmission` | kernels that share memory, their leases, the power switch | `SharedAdmission_proofs`, `MCAdmission` |
| `HookInstall` | who writes the hooks into a settings file: scripts, daemons, the user | `Install_proofs`, `MCInstalled` |
| `InstallNames` | how an install takes over the files of earlier releases | `Install_proofs`, `MCInstalled` |

In all but `PressureWindows` a step is the code between two effects another party
can see: a signal, a write of `runtime.json`, a file created, renamed or removed. So
the model can crash between a signal and the write that records it, and a process can
exit, be continued or be replaced between its listing and its signal. `ledger` is
the ledger in memory, `disk` is `runtime.json`, `pc` is the daemon's position in
its tick, and `lost` is a history of the exceptions a property names. Every kind of
fault has its bound (`MaxCrashes`, ...) and `MaxFaults` bounds all of them together;
the newer modules have one budget of faults for all kinds.

An `MC` module may hold several models, or several instances of one, side by side. A
behaviour then belongs to one of them, `part`, chosen in its first state; the
variables of the others keep their initial values. This adds the state spaces and
does not multiply them: it is a way to put the bounds that belong to one question
into one run. A property whose definition in the module speaks of the constants that
differ is stated again in the `MC` module (`SoloRequestsAnswered`), all others are the
module's own. The type invariants are proved (section 4); only the outbox's is checked
by a run as well.

### PauseLedger

State: the ledgers, what the operating system says of every PID (`os`), the
owner's requests (`listed`: those this tick has yet to process; `asked` and `reply`:
the one it processed last and what became of its result file), and `op`, what the
handler in hand knows. Actions follow the
tick: `TickStart`, `Reconcile*` (`reconcile_stopped`, one entry at a time),
`Control*` (`process_control_requests`: list the files, then per request the intent,
the signal, the commit, the write of the result and the removal of the request, each
of which may fail; the errors of the last two are ignored, as in the code), `Detect*` and `Suspend*`
(`alert_and_suspend`, `suspend_candidate`), `Probation*` and `Relapse*`
(`manage_lead_probation`), `Pressure*`, `LastResort` and `Recover*`
(`apply_pressure_actions`).

Every save prunes first, as `persist` does (`Recent`, `Retained`, `Pruned`), also when
the write then fails: an incident that is not `suspended` goes once it is a day old
(`Day`), and the oldest of all go that are over the limit, `suspended` or not. Saves
of the parts of the ledger that are not modelled prune as well (`OtherSave`). A handler
that puts its copy of the ledger back after a failed write undoes the pruning in memory
(`Restored`). `dropped` is a history of the open incidents lost in this way, and
`IncidentsAgree` names what that means: a managed process has no open incident only if
the ledger was over its limit, or if the process is on probation (monitored or failed)
and a day went by. So a lead whose probation failed and whose owner does not come back
within a day stays stopped without an incident; the owner's request then opens one
with the reason `recovered-runtime`.

| run | question | verdict |
| --- | --- | --- |
| `pause_safety` | Is every process the daemon stopped owned by a record, and is the record on disk before the next tick? Is an owner's intent on disk before its signal? Do incidents and the `stopped` table agree between ticks, with one open incident per process at most? Does neither suspension path overrule an owner's resume while its cooldown runs? | holds, but for the crash window and the two ignored resumes that `PauseOwned` names, and the two ways in which a save drops an open incident that `IncidentsAgree` names |
| `pause_pair` | With a lead and a worker: does every pressure pause end once memory stays safe? Is every owner request consumed, and not before its result was written or that write failed? | holds under the fairness below |
| `pause_failed_probation` | Does a failed probation end with the owner's choice? | violated: it stays, and blocks automatic recovery of workers |
| `pause_unloadable` | Can the daemon load every file it writes? | violated: a pending control of a process no longer stopped |

Bounds: `pause_safety` has five parts: one lead under a PID that a second generation
may take over, with one owner request and one fault; the same lead without a
successor under any two of a failed write, a refused signal and a crash; a worker
whose start token a listing may miss; a lead with one pause, days that pass, an
owner's request and one fault, which may be a failed listing, write or removal of the
control files; a lead and a worker with days that pass and a ledger that keeps one
incident (128 in the code), so that the second pause drops the first incident.
`pause_pair` has a lead and a worker under a crash, without an owner; and a worker alone
with an owner's request under any two of a refused signal, a failed access to the
control files and a crash. The conflicts the properties are about need two
parties and one or two faults (a signal and its failed rollback). A third process
adds no new relation: every handler treats processes one at a time and the ledger is
keyed by PID; the theorems of section 4 hold for any set of processes. The ledger of
incidents holds two, which is one for each process or one closed and one open. The
control files fail once: a second failure meets a request that is where it was after
the first. 

Fairness: the daemon's steps are weakly fair (`run_daemon` loops for ever and the
service manager restarts it). `Recover`, `ProbationPrepare` and
`ProbationComplete` are strongly fair: their windows are differences of stored
time stamps, so they stay passed however often the tick goes by.

Abstractions: the assessment is an input of each tick (safe, critical or in
between); the hard-cap reasons are the pressure reasons; an incident is `old` or
not, and a day makes all of them old that a save may drop for their age; candidates are any eligible process, since
the sort only picks one of them; cooldowns and windows may pass at any time; a
tick whose process listing failed (it returns early and changes nothing here) is
a tick that does not happen.

Three things the model has and no run asks about: the signal of a pause comes
before its record, so a crash between the two leaves a process stopped that no
record names (`PauseOwned` has this window as an exception); a *prepared* probation survives an
owner's resume of the same process (the probation then resumes what already
runs), and with `ReuseMidTick` a PID may change hands between the tick's listing
and the owner's signal, which `process_control_requests` sends on the strength of
that listing. Between ticks PIDs are reused where `MaxGen` is 2.

Observations. A request whose file cannot be removed is processed again by the next
tick, which finds nothing to resume and writes an error over the result of the request
that succeeded. The same happens when the daemon crashes between the commit of a request
and the removal of its file: the owner is told of an error for a resume that took
effect. A result that cannot be written is lost without a trace, the request being
removed all the same; `SoloRequestsAnswered` therefore promises that a request is
consumed, and its result only if the write succeeds.

### NotificationOutbox and EpisodeEdges

`EpisodeEdges` is the promise: an episode is announced when it begins and when
it ends, in turn, once each. `NotificationOutbox` is how the code keeps it: the
edge is saved with the episode, then queued as a file, then forgotten; the drain
takes files into the ledger, saves it, removes the files, dispatches, and saves
again; answers come back as files. `EdgesPromised` is the refinement: the
episode and the edges queued so far implement `EpisodeEdges`.

| run | question | verdict |
| --- | --- | --- |
| `outbox_live` | Under every kind of fault: does no queued event disappear, is no event dispatched twice, does a recorded delivery stand, do edges reach the queue as promised? Are edges announced in the end, and does every queued event get its answer or its time limit? | holds under `MCFairSpec`; an event may be dispatched once more per crash (the dispatcher starts before its record) |

Bounds: the run has two parts. What has to agree is asked of an alert, an episode and
two answers of hooks in a ledger that holds all three events, under one fault and with
a runtime another handler may degrade. What has to get through is asked of an episode
that fills a ledger of two, with a channel configured, under any two faults, a
dispatcher that cannot be started among them. The safety properties are checked in both.
Fairness, asked of the second part: the tick and the restart are weakly fair; the
passing of 30 s is strongly fair, because the daemon looks at the time only when a
drain starts. Nothing is assumed of dispatchers: they may
never answer. `QueuedSettled` is asked only of a runtime that is not degraded: once
`runtime_error` is set, `persist_runtime` refuses until a restart, so no drain takes
a file and no event is dispatched. The 24 h retention of the ledger and the hourly
cleanup of files are not modelled; the bound of the ledger is (`Latest`).

### AppGuard

State: the server process, the ledgers as far as the server is concerned, the
phase files of each episode (`files`), the guard of each episode (`guard`, its
next step) and the daemon. The token is one file that is renamed; who renames it
first has it. `Guard*` are the steps of `run_resume_guard`; `Prepare` to
`Cancel` those of `suspend_codex_app_last_resort`; `Reconcile*`, `Control*` and
`Recover*` the parts of the tick that meet an App pause.

| run | question | verdict |
| --- | --- | --- |
| `guard_safety` (`MCInstalled`) | Two pauses in turn: does a guard that is about to signal have its episode on disk, is a token taken back never used, and is a stopped server always the daemon's? | holds, but for the exceptions in `lost` |
| `guard_live` | Does the guard release the server whatever the daemon does, does the daemon take over from a guard that died, and does safe memory free the server? | holds under `FairSpec` |
| `guard_stranded` | Does the guard resume the server in every case? | violated: a recovery of the daemon between the guard's last look and its signal |

`lost` holds the episodes that `apply_pressure_actions` closed while the token
was out, those cancelled although the guard's own release was refused, and all of
them when `runtime.json` could not be loaded. What follows a lost pause is lost as
well: a server left stopped by it is taken for the paused one of the next episode,
and `reconcile_stopped` then closes that one while its guard is still out. So
`AuthorityHeld` speaks of a guard before which no pause was lost. Three faults show
it; two do not, and the first proof of `AuthorityIsHeld` failed there.

Bounds: `MCInstalled` has two episodes with one fault where an old guard can meet a
later pause, two with an owner's request and no fault, and one with both and a second
fault; `guard_live` one episode with two faults and one request. Fairness: guards are
processes of their own and weakly fair, the daemon and its restart as above,
`Recover` strongly.

Abstractions: there is one server process, whose PID is not reused; the 10 s,
5 s and 20 s of the waits may pass at any time; `terminate` is `kill`; only the
shared-host scope has a guard, and the blind-child scope is left out; a second
App Server is seen or not seen at each tick.

Observations the runs rest on. A guard that dies after the daemon has marked the
pause active is not replaced until memory is safe, because `pending_physical` is
gone and `reconcile_stopped` then has nothing to look at (`TakenOver` speaks of
unconfirmed pauses only). An owner's request that takes a dead guard's token and
then cannot write its intent removes the evidence that the guard has died. A
guard reads its episode once after the delay and then resumes: if it is stalled
in between for a whole further pause, it ends that one early. And a recovery in
the safe branch of a pause not yet confirmed leaves `pending_physical` of a server
no longer stopped: a `runtime.json` that `load` rejects, as in `pause_unloadable`.

### PressureWindows

State: the held action (`held`, and `onDisk` in `runtime.json`), the window of
`stabilize_assessment` (`betterFor`, `target`), those of `apply_pressure_actions`
(`recoveryFor`, `criticalFor`, `sinceAction`), whether the notice of the latest
change is queued, and what the latest tick did. A window is its age, which goes no
further than the limit it is compared with. A step is a whole tick (`Tick`, with
`Stabilize`, `Probation`, `Apply` and `Save` as its parts) or a `Restart`.
`Evidence` is the set of what the sensors may find together: the proposed action,
whether distress is normal, whether there is a collapse (and whose) or an exceeded
cap, whether the App counts as recovered, and whose turn the tick is. `lastSeen`
and `forgotten` are histories: the time since an action at least as strict was
proposed, and what a restart dropped because it had not been saved.

| run | question | verdict |
| --- | --- | --- |
| `windows_held` | Under a failed write, a lost notice and a crash: is what is held never milder than what was proposed within the window, is a change saved or its notice queued, is no CLI process resumed within the window of a reason to hold, and does holding end once nothing worse than Observe is proposed? | holds |
| `windows_cap` | Is a worker that grows above the hard cap paused in the end? | violated: with headroom on the machine the App counts as recovered, and the tick returns before the cap is looked at |

Bounds: `Window` is 3 and `2 * Reaction` is 2, so that the two windows differ; ticks
are 1 or 2 apart, so that a window is met exactly and overshot. Larger numbers add
no new order of events, and the theorems hold for all of them. Fairness: ticks
happen for ever (weak fairness of `beat' = ~beat`: each tick turns `beat`, a restart
does not),
because `run_daemon` loops and the service manager restarts it; nothing is assumed
of the evidence but what `Reopens` itself says.

Abstractions: a crash within a tick counts as one before or after it; evidence on
which nothing depends has one value; a file of the outbox is never lost once
queued (that is `NotificationOutbox`'s business); the stamp of the last action is
on disk or is not (`Restart` allows both); the wall clock does not go back.

Observations. The recovery window is one for two notions of safe: a tick safe for
the App alone starts it, and a CLI process may then be resumed in the first tick
that is safe for the machine. `ResumeAfterCalm` shows that this is not early:
the held action has its own window. `critical_since` is not touched in a tick that
logical containment, a leak or a probation took, so "critical for two reactions"
may span ticks nobody looked at.

### ContainmentLoop

State: what each agent really does (`doing`) and the hook it waits in (`held`), the
files of observations (`queue`), the roster with its epoch in memory, in the copy a
drain falls back to (`before`) and on disk, and what is published (`pub`). Actions:
`Hook*` (`gate.rs`, from a start to a tool and its end), `TickStart`, `DrainOne` to
`RemoveFiles` (`drain_hook_observations`), `Prune` (`cleanup_artifacts`), `Contain`
(`manage_cli_logical_containment` with the seven ways it ends), `Publish`, `Crash`,
`Restart`, `Stale`. `blind`, `quiet` and `missed` are histories: agents whose
present work no hook could record, for how long every tick was safe, and a danger in
ticks that never reached the actuator.

### AppContainment

The same agents in one App Server: hooks carry receipts, what they read of their
agent. `SafeOpen` to `Brake` are the ways through `manage_codex_app_containment`, with
`n` failed writes in each; `Pause` is `apply_codex_app_blind_backstop` for the server
all agents share, `Replaced` is `revoke_codex_app_generation`. The clocks of the
control state are saved, so they are ages that grow on disk too. `saw` is what the
last finished hook of an agent had read.

| run | question | verdict |
| --- | --- | --- |
| `containment` | Does an epoch name one state in every copy a hook or a restarted daemon may hold? Does a process count as growing without work only while no agent works? Are leads restricted last, and agents released only after calm? Is the App Server stopped only over agents that have acknowledged the hand-off in force, and does its gate open last? | holds, but for `blind` and `missed` and the cases `unseen` and `unsaved` below |
| `admission` | When memory stays calm, does everything open again, in these two and between kernels? Does a lasting last boundary take every agent to its hand-off? Does a lease lag by its own life at most, and is off off? | holds |

Three exceptions are what the code does. A recovery of the App that began before a
crash counts the time without a daemon, since `recovery_since` is saved; and a tick
that cannot list the processes ends before the actuators (`Skipped`), so that
`recovery_since` runs on through a danger found in it (`unseen` in both cases; for the
CLI loop, whose clock is not saved, the second is `missed`). And a release of an App
agent that could not be saved falls through to the gate, which then opens although
agents are restricted (`unsaved`).

Bounds: one lead and one subordinate, who may be at work at first or join later; two
or three hooks in all, an alarm or two, one fault. With one fault and two hooks an
observation can be lost, doubled, late or overtaken by a batch, which is what the
properties are about; the order of subordinates and leads needs one of each. Fairness:
the daemon and its restart, and a hook that waits at the brake (it has a time limit)
are weakly fair; `Resume` of the App Server is strongly fair, since its window is a
difference of stored stamps. Nothing is assumed of hooks.

Abstractions: how growth is measured, attributed and predicted is an input
(`Findings`, `TicksLeft`, the agents due for a rung are any that have rungs left);
hooks that run amid a tick do what they do just before it contains; one observation
of an App agent waits at a time; notices about a batch are left out; a process of
its own per agent is not modelled.

### SharedAdmission

Kernels that share memory. A daemon's loop is `Top`, `Tick`, `WriteState`,
`UpdateLease`, `Publish`, with `Exit`, `ExitPeer`, `Panic` and `Crash`; `Off*`, `On*`,
`TurnOn` and `Clear*` are `maintain_power` and `power.sh`. Files carry ages: one too
old is None. Time passes between any two steps, for all. `warned` counts how long what
is published has told of danger. Nobody looks whether a removal succeeds, neither when
the daemon leaves nor in `clear_local_publication`, and the latter finds the peer file
only by the instance that `state.json` names (`named`; a state that was never written
names none). So a peer file can outlive a confirmed "off" (`kept`): `OffHolds` says
that this is the only way, that nobody renews the file, and that it holds the peers
back no longer than it is fresh. The lease cannot be left: the script that says "off"
fails when it cannot remove it. The run is `admission`, above: two kernels, of which
one has an owner and pauses processes, with one fault; and that one beside a kernel
that is not running, with two uses of the power switch and one fault; readings of
green and red, files fresh for one step. An echo needs two kernels and two publications, a
lease that lags one. Fairness: each daemon's steps, the owner's command once begun,
and time. Abstractions: a process paused is one bit with its record; levels for peers
are never above the kernel's own.

### HookInstall and InstallNames

`HookInstall` is the settings file of one provider (`hooks`): our group, the groups
of other programs before and after it, handlers somebody else put into it, and a
second copy of ours. A hook command holds a route for each side, because Windows
and WSL may share one Codex home. Writers are runs of the scripts, one process from
`Update` or `Uninstall` to `CheckAfter` or `StopService`, and daemons that see a Codex
App (`Sync`, `Report`). Each goes through `load`, `backup` and `write` of
`update_hooks`; for Codex under `AppHookLock` (`TakeLock`, `FindStale`, `GiveUp`,
`BreakLock`, `Unlock`), for Claude without. `User` is what happens beside them: other
hooks come and go, ours is deleted, doubled, trusted or switched off, the command
lines of the provider change.

`InstallNames` is one pass of `migrate_install_names` as a plan of thirteen steps and
what each is in the middle of (`doing`): a rename, or, across devices, a copy that is
published and a source that is then removed. `Break` ends a run anywhere; `Begin`
starts the next one with whatever is there.

| run | question | verdict |
| --- | --- | --- |
| `guard_safety` (`MCInstalled`) | Is every hook the user added in the file, in a backup, or added between a writer's backup and its write? Do the writers of Codex work alone, on what they read? Does one side's install leave the other's route, and the other's health, alone? Does nothing of an earlier release get lost, and does a run that gets through leave what the user had? | holds |

Bounds: two scripts of different sides and a daemon, of which two or three take part;
two hooks of other programs; one edit or none; one fault. A lost update needs two
writers and a lock that is removed under one of them, which needs one fault; an edit in
between needs the edit. Names: two legacy names and the new one, and two faults, so
that a run may fail, be repeated and fail again; one kind varies at a time, with the
pointer and the directory it names together. Deadlock is not checked in this run,
because scripts end; `guard_live` checks it for the guard.

Abstractions: all hook events are treated alike and are one; quoting, and how a
command is recognised as ours, is `own`; the first two names of the cache stand for
its three; the directory of the settings stands for its files, which move one by one;
`rewrite_legacy_notifications` and what `install_paths` computes are left out.

Observations. Removing the hooks for one side removes the route of the other with
them (`without_owned_hooks` does not look at routes). An uninstall removes the hooks
before it stops the service, so the daemon's next `Sync` may put them back. A writer
that finds a lock stale removes whichever lock is there when it gets to it, and
`Drop` removes the lock by name, so two waiters on one dead lock can rob each other:
`robbed` is this, and the exclusion holds only without it. A stale lock that cannot
be removed makes `acquire` loop without sleeping. An install moves our group to the
end, and Codex trusts by position: health of the other side is kept only where the
group was last already.

## 4. What is proved

Every theorem holds for all values of the constants that satisfy the module's
assumptions: any set of processes, agents, kernels, any number of episodes and
faults, any length of the windows. Each proof has one lemma per action or group of
actions, and TLC has checked each inductive invariant on a small instance before.

| module | theorem | states |
| --- | --- | --- |
| `PauseLedger_proofs` | `TypeCorrect` | `TypeOK`: both ledgers stay well formed |
| | `IntentIsDurable` | `IntentBeforeSignal`: when the signal of an owner's request is sent, that request is on disk |
| | `PausesAreDurable` | `OwnershipDurable`: a pause recorded in memory is on disk unless it is being rolled back or the runtime is degraded |
| | `PausesAreOwned` | `PauseOwned`: what the daemon stopped is in its ledger, in hand, or a named exception; if no PID changes hands within a tick |
| `PauseLedger_proofs` | `OneOpen` | `OneOpenIncident` |
| | `HistoryIsTrue` | `IncidentsAgree`: history and table say the same between ticks |
| | `OwnerIsRespected` | `OwnerResumeRespected`: no process its owner resumed is picked before its cooldown ends |
| `NotificationOutbox_proofs` | `TypeCorrect` | `TypeOK`: no event is twice in a ledger or in the queue |
| | `QueuedIsKept` | `QueuedKept`: an event whose file was written is in the queue or on disk |
| | `SentIsOnce` | `SentOnce`: an event is dispatched once, and once more for each crash |
| | `DeliveriesAreKept` | `DeliveredKept`: a recorded delivery stands |
| | `EdgesArePromised` | `EdgesPromised`: the refinement of `EpisodeEdges` |
| | `RoomForAll` | when the hypothesis of the last four holds |
| `AppGuard_proofs` | `TypeCorrect` | `TypeOK`, with the token being one file at a time |
| | `AuthorityIsHeld` | `AuthorityHeld`: a guard that may stop the server has its episode on disk |
| | `StoppedIsOwned` | `StoppedOwned`: a stopped server is in the table of a running daemon |
| | `CancelIsFinal` | `CancelFinal`: no guard signals with a token taken back |
| `PressureWindows_proofs` | `TypeCorrect`, `HeldAlwaysCovers`, `ResumesAfterCalm`, `ChangesAreSaved` | every invariant of `windows_held` |
| `SharedAdmission_proofs` | `TypeCorrect` | `AdmissionTypeOK` |
| | `LeasesLag` | `LeaseLags`: a lease outlives the first published sign of danger by `LeaseFor` at most |
| | `OffIsOff` | `OffHolds` |
| `ContainmentLoop_proofs` | `TypeCorrect` | `TypeOK` |
| | `EpochsNameStates` | `EpochNamesState` |
| | `WorkIsKnown` | `MismatchUnlessBlind` |
| | `ReleasedAfterCalm`, `LeadsLast` | `ReopenAfterCalm`, `LeadsYieldLast` (action properties) |
| `AppContainment_proofs` | `TypeCorrect` | `AppTypeOK` |
| | `InformedFirst` | `HandoffBeforePause`: the server is stopped only over agents that have read the hand-off in force and begun no heavy work since |
| | `GateIsLast` | `GateOpensLast`: the gate keeps heavy tools out while an agent is restricted |
| | `CalmComesFirst` | `AppReopensAfterCalm`: nothing is released before memory was safe |
| `Install_proofs` | `HookTypes`, `NamesTypes` | `HookTypeOK`, `NamesTypeOK` |
| | `HooksNotLost` | `NothingLost`: what the user added is in the file, in a backup, or came between a backup and its write |
| | `WritesAreFresh` | `WritesFresh`: who is at the Codex file has the lock, and writes over what it read |
| | `OtherSideStays` | `OtherSideKept` (action property) |
| | `NamesAreKept` | `NamesKept`: wherever a migration stops, what there was is at some place, as it was or renewed |
| | `NamesSettle` | `SettledAtEnd`: a run that gets through leaves what the user had, under its new name |

The inductive invariants, and why they are needed:

* **PauseLedger.** `StepOK` says that a handler between its signal and its commit
  knows the identity it works on; without it the commit could write anything.
  `IntentInv` adds that disk and memory agree on the request in hand. `DurableInv`
  says what may be in memory and not on disk at each position of the tick. `OwnInv`
  is `AllHeld` (the property, with the exceptions per process), `ListTrue` (what the
  tick's listing says of a process is still true of its identity) and `InHand` (what
  a handler knows of the process it has stopped). `ListTrue` is where the hypothesis
  `~ReuseMidTick` of `PausesAreOwned` enters: the rollback of a relapse in
  `manage_lead_probation` and the owner's signal go to a PID that was checked before
  a write; were it handed on in between, the daemon would stop or continue a process
  no record names. All runs but for that hazard make the same assumption.
* **Incidents.** `BookInv` keeps accounts of both ledgers: no twin incidents, an open
  incident is of a marked process or of the one on probation, a marked process that
  lives has one, marks are of generations that existed. `HandInv` says how far the
  handler in hand has got with them. Without the account of the file a crash could
  bring back a state in which they disagree. The accounts are kept modulo `dropped`:
  `Booked` allows a marked process without an open incident for the two named losses
  only, and `BookedPruned` shows that pruning keeps that, the order of the incidents
  included.
* **Cooldown.** `CoolInv` follows a process its owner resumed through four places:
  the cooldown in memory, on disk, the mark that `reconcile_stopped` will turn into a
  cooldown after a crash, and the commit of the owner's request.
* **NotificationOutbox.** `BookInv`: a running daemon and its file know the same
  events, the same episode and the same edge owed, because a drain that cannot be saved
  gives back what it took and an edge that cannot be saved is not taken (`SameBooks`);
  what was queued is in the queue or on disk (`NoneLost`); a file is removed when its
  event is on disk (`RemovedKnown`); an edge in the queue or the ledger has been told
  (`TakenTold`), and what is owed is the latest edge, not told before (`OwedTrue`).
  `SentInv` counts dispatches against the marks of the daemon's ledger and the crashes
  that lost them; `DeliveryInv` says that the daemon knows every delivery on disk. The
  refinement maps the edge owed to None once its file has been written: queueing is
  `Announce`, saving the edge is `Begin` or `End`, all else stutters. These four theorems
  suppose `[]Roomy`: what is known and what arrives fits into the ledger. The code
  drops the oldest of 128 events whether their files are gone or not, so a dropped event
  whose file could not be removed, or an edge told but not noted, is taken again for a
  new one. `RoomForAll` shows the hypothesis met by every run of no more events than
  that.
* **AppGuard.** `GuardInv` is the types, `TokenInv` (one file at a time, and which
  file says how far the guard has come), `NumberInv` (episodes and ledgers are
  numbered in the same order; what is not on disk is newer than what is) and
  `AuthorityInv` (a token that is out, or can still be committed, has its episode in
  every ledger the daemon may go back to; a token taken back leaves nothing that can
  signal; a stopped server is owned by its guard, its ledger or the handler in hand).
* **PressureWindows.** `HeldCovers` is not inductive: when a window ends, what is
  adopted has to cover the time before the window as well as the time in it.
  `TargetCovers` says so of an open window.
* **SharedAdmission.** `SnapLags`: a snapshot found calm and not yet written is no
  older than the life of the lease it will give. `Stopping`: what the owner's command
  relies on from one of its steps to the next.
* **ContainmentLoop.** `EpochInv`: every view ever shown tells, for an epoch not above
  the one on disk, what the roster said; `MindInv` adds the times of observations and
  what the roster will know when the files that wait are applied, in their order;
  `BatchInv` adds that the clock of the actuator is not ahead of the history.
* **AppContainment.** `SavedInv`: the file has the daemon's roster, epoch and gate (the
  clocks may differ), since a batch or a gate that cannot be saved is taken back; so a
  crash forgets no restriction and opens no gate. `CalmInv`: `recovery_since` is no
  older than the calm, unless it outlived a crash or a danger no tick looked at. `HandoffInv` follows what a hook had
  read: `Informed` finds it, for an agent at work, in the roster or in the observation
  that waits for the drain; `WaitInv` says that a hook waiting at the gate is the only
  one of its agent, so that its old reading is not behind the roster; and `ShownInv`
  that an agent whose hook has read something is shown in `state.json` from then on, so
  that a hook which finds nothing there does not leave an older receipt standing.

* **HookInstall.** `NothingLost` needs `WritesSaved`: what a writer is about to write
  over is in a backup or has come late, whoever else was at the file in between. `WritesFresh` is inductive with the
  types, since every step by which a holder could lose the lock counts as `robbed`.
  Both ask little of most steps: `Calm` says that a step touches neither the file nor
  what is kept nor any writer at work, and one frame lemma covers all that are.
* **InstallNames.** `Sane` adds to the types where in a step a run can be (`Steady`):
  what is about to be renamed, copied or removed is there, a copy that is published
  equals its source, and the new name was free. Without it a repeated run could
  remove a source that had not been copied. `SettledAtEnd` speaks of the end of a run
  only; `Settling` is what leads there: at each position, what the steps before it have
  settled (`MovesDone`, `FollowsDone`, `Ready`, `RewriteDone`); of each kind, that
  nothing was touched until its new name was taken, and then by what is `Owed` to it
  (`InOrder`), which holds across runs that failed; and that a renewed pointer names a
  directory that is there (`Followed`). `Changes` and `Progress` say once, for all
  actions, how a step can change a name and how a run gets ahead. The proof depends on
  the order of the plan (`PlanOrder`): a name of the Governor before the same of CMG,
  every directory with a move of its own before any pointer is followed.

Assumed are the constants' assumptions of the modules (they are named there, and TLC
evaluates them) and, for `PauseLedger`, `NoneAssumption` (the value for "nothing" is
none of the things it stands in for).

So every safety property of the passing runs is proved where it is stated. Only
model-checked are the liveness properties and what rests on ENABLED (out of the prover's
reach), and the formulas by which an `MC` module joins the properties of several models.

## 5. Not modelled

Sensors and the pressure policy (floating-point arithmetic over samples: its
results are inputs), the attribution of processes to App conversations, transports
and terminals (they answer or fail), status and configuration (sequential input and
output). Of the scripts, what `power.sh` and the connecting and disconnecting of
providers do is modelled, downloads and services are not. Storage and the platform
appear as what the models assume of them. A panic in a tick, which `run_daemon`
catches and goes on from, is modelled in `SharedAdmission` only.

That scripts which connect hooks end is not claimed: a stale lock that cannot be
removed keeps one in `acquire` for ever, and a user may always write once more.

## 6. Plan

1. The attribution of processes to App conversations (`codex_app.rs`).
2. The pressure policy with integers in place of its fractions.
