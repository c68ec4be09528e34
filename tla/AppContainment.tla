--------------------------- MODULE AppContainment ---------------------------
(***************************************************************************)
(* Logical containment of the agents of one Codex App Server, whose        *)
(* process they share.  While App growth is the danger the daemon closes   *)
(* the surface gate, restricts the agents it can connect with the growth   *)
(* rung by rung, and as the last resort pauses the server once every agent *)
(* has acknowledged its hand-off.  When memory is safe it releases them    *)
(* one by one and opens the gate last.                                     *)
(*                                                                         *)
(* An acknowledgement is a receipt: the observation of a hook carries the  *)
(* state and epoch that hook read.  The clocks of the control state are    *)
(* saved with the ledger; they are ages here and grow on disk as well.     *)
(* How growth is measured and attributed is an input of each tick, and     *)
(* the pause itself is the guard's business (AppGuard).                    *)
(***************************************************************************)
EXTENDS LogicalRoster

CONSTANTS
    Leads,       \* the App's lead threads
    Subs,        \* their subordinates
    Starts,      \* who may be at work when the model begins, who may join them, and
                 \* the bounds from there
    Called,      \* the tool calls they make
    Reaction,    \* reaction_s, in ticks
    MaxHooks,    \* bound: hooks; one that waits counts twice
    MaxAlarms,   \* bound: times safe turns to danger
    MaxFaults,   \* bound: failed writes of runtime.json, failed listings of the processes,
                 \* crashes of the daemon and new generations of a paused server
    None         \* no receipt, no clock, no hook waiting

Agents == Leads \union Subs
Classes == {ClassifyTool(call) : call \in Called}

AppContainmentAssumption ==
    /\ Leads \intersect Subs = {}
    /\ None \notin Agents \union Nat \union Receipts
    /\ Starts \subseteq [running : SUBSET Agents, others : SUBSET Agents,
                         hooks : 0..MaxHooks, alarms : 0..MaxAlarms,
                         faults : 0..MaxFaults]
    /\ Called \subseteq Calls
    /\ Reaction \in Nat \ {0}
    /\ {MaxHooks, MaxAlarms, MaxFaults} \subseteq Nat

VARIABLES
    doing,     \* the environment: what each agent really does
    held,      \* a PreTool hook that waits at the surface gate, with what it read
    clock,     \* hooks run so far, and waits begun
    queue,     \* hook-observations/pending
    roster,    \* ledger.logical_agents
    epoch,     \* ledger.logical_epoch
    ctl,       \* ledger.codex_app.control: the gate and the clocks
    since,     \* age of state_since of each agent
    disk,      \* the four of them in runtime.json
    pub,       \* state.json
    pc,        \* where the daemon is in its tick
    sig,       \* the finding of the latest tick
    paused,    \* the server is stopped as a last resort
    left,      \* the alarms and the faults still to come
    saw,       \* history: what the last finished hook of an agent had read
    blind,     \* history: agents whose present work was not recorded
    quiet,     \* history: how long every tick of this daemon has been safe
    unseen,    \* history: recovery_since ran on through a crash, or through a danger
               \* in a tick that could not list the processes
    unsaved    \* history: the release of an agent could not be saved this tick

hookVars == <<doing, held, clock, queue, saw, blind>>
ledgerVars == <<roster, epoch, ctl, since>>
historyVars == <<quiet, unseen, unsaved>>
vars == <<hookVars, ledgerVars, disk, pub, pc, sig, paused, left, historyVars>>

-----------------------------------------------------------------------------
Older(age, limit) == IF age = None \/ age = limit THEN age ELSE age + 1

\* recovery_since and last_action_at.
OlderCtl(c) == [c EXCEPT !.recovery = Older(c.recovery, 2 * Reaction),
                         !.acted = Older(c.acted, Reaction)]
OlderSince(s) == [a \in Agents |-> Older(s[a], Reaction)]

Ledger(r, e, c, s) == [roster |-> r, epoch |-> e, ctl |-> c, since |-> s]
View(r) == [a \in DOMAIN r |-> [state |-> r[a].state, epoch |-> r[a].epoch]]
State(r, c) == [fresh |-> TRUE, gate |-> c.gate, agents |-> View(r)]

Fault == left.faults > 0 /\ left' = [left EXCEPT !.faults = left.faults - 1]

\* Every agent at work is known to the daemon.
InitWith(running, others, hooks, alarms, faults) ==
    /\ doing = [a \in Agents |-> IF a \in running THEN "working"
                               ELSE IF a \in others THEN "away" ELSE "absent"]
    /\ held = [a \in Agents |-> None]
    /\ clock = MaxHooks - hooks /\ queue = {}
    /\ roster = [a \in running |-> NewAgent(0, 0, None)] /\ epoch = 0
    /\ ctl = [gate |-> FALSE, recovery |-> None, acted |-> Reaction]
    /\ since = [a \in Agents |-> Reaction]
    /\ disk = Ledger(roster, epoch, ctl, since)
    /\ pub = State(roster, ctl)
    /\ pc = "tick" /\ sig = "safe" /\ paused = FALSE
    /\ left = [alarms |-> alarms, faults |-> faults]
    /\ saw = [a \in Agents |-> None] /\ blind = {}
    /\ quiet = 0 /\ unseen = FALSE /\ unsaved = FALSE

Init == \E s \in Starts : InitWith(s.running, s.others, s.hooks, s.alarms, s.faults)

-----------------------------------------------------------------------------
(* Hooks.  A stopped server runs none.  They run where ContainmentLoop lets *)
(* them run, and one observation of an agent waits at a time.               *)

\* A light call is work like any other here, and how heavy the work of an
\* agent is only orders the planner's candidates, which may be any: an
\* observation does not tell it.
AtWork == {"working", "heavy"}
WorkOf(class) == IF Heavy(class) THEN "heavy" ELSE "working"

Told(a) == IF a \in DOMAIN pub.agents THEN pub.agents[a] ELSE None

Mayhook(a) ==
    /\ pc \in {"tick", "contain", "down"} /\ ~paused
    /\ clock < MaxHooks
    /\ \A o \in queue : o.agent # a

\* The receipt of a hook.  Only that of a hand-off is ever looked at: a
\* lesser reading is noted as one that acknowledges nothing.
Receipt(read) ==
    IF read = None \/ read.state = HandoffOnly THEN read
    ELSE [state |-> Active, epoch |-> 0]

\* Nor is the epoch of a lesser restriction.
Heard(read) ==
    IF read = None \/ read.state = HandoffOnly THEN read
    ELSE [read EXCEPT !.epoch = 0]

\* A hook that has read `told` from a fresh state leaves it as its receipt.
Record(a, event, blocked, fresh, told) ==
    /\ Mayhook(a)
    /\ clock' = clock + 1
    /\ queue' = IF fresh
                THEN queue \union {[agent |-> a, event |-> event, weight |-> NoTool,
                                    blocked |-> blocked, at |-> clock + 1,
                                    receipt |-> Receipt(told)]}
                ELSE queue
    /\ saw' = [saw EXCEPT ![a] = IF fresh THEN Receipt(told) ELSE None]
    /\ blind' = IF ~fresh THEN blind \union {a}
                ELSE IF event \in {"Start", "Prompt", "PreTool"} THEN blind \ {a} ELSE blind
    /\ UNCHANGED <<ledgerVars, disk, pub, pc, sig, paused, left, historyVars>>

Plain(a, event, next) ==
    /\ Record(a, event, FALSE, pub.fresh, Told(a))
    /\ doing' = [doing EXCEPT ![a] = next]
    /\ UNCHANGED held

HookStart(a) == doing[a] = "away" /\ Plain(a, "Start",
                                           IF a \in Subs THEN "working" ELSE "idle")
HookPrompt(a) == a \in Leads /\ doing[a] = "idle" /\ Plain(a, "Prompt", "working")
HookPostTool(a) == doing[a] \in AtWork /\ held[a] = None /\ Plain(a, "PostTool", "working")
HookStop(a) == /\ a \in Leads /\ doing[a] = "working" /\ held[a] = None
               /\ Plain(a, "Stop", "idle")
HookEnd(a) == /\ doing[a] = IF a \in Subs THEN "working" ELSE "idle"
              /\ held[a] = None
              /\ Plain(a, "End", "away")

\* The gate's decision on a tool from what the hook has read.
Decide(a, class, read) ==
    LET state == IF read = None THEN Active ELSE read.state
        allowed == AllowedIn(class, state)
    IN /\ doing' = IF allowed THEN [doing EXCEPT ![a] = WorkOf(class)] ELSE doing
       /\ Record(a, "PreTool", ~allowed, TRUE, read)

HookPreTool(a, class) ==
    /\ doing[a] = "working" /\ held[a] = None
    /\ pub.fresh
    /\ ~(pub.gate /\ Heavy(class))
    /\ Decide(a, class, Told(a))
    /\ UNCHANGED held

\* Without a fresh state nothing is refused and nothing recorded.
HookUnseen(a, class) ==
    /\ doing[a] = "working" /\ held[a] = None
    /\ ~pub.fresh
    /\ doing' = [doing EXCEPT ![a] = WorkOf(class)]
    /\ Record(a, "PreTool", FALSE, FALSE, None)
    /\ UNCHANGED held

HookWait(a, class) ==
    /\ doing[a] = "working" /\ held[a] = None
    /\ Mayhook(a)
    /\ pub.fresh /\ pub.gate /\ Heavy(class)
    /\ held' = [held EXCEPT ![a] = [class |-> class, read |-> Heard(Told(a))]]
    /\ clock' = clock + 1
    /\ UNCHANGED <<doing, queue, saw, blind, ledgerVars, disk, pub, pc, sig, paused,
                   left, historyVars>>

\* The gate opened, or its state went stale, while the hook waited; what the
\* hook read before is what it heeds and what its receipt says.
HookResume(a) ==
    /\ held[a] # None
    /\ ~(pub.fresh /\ pub.gate)
    /\ Decide(a, held[a].class, held[a].read)
    /\ held' = [held EXCEPT ![a] = None]

HookTimeout(a) ==
    /\ held[a] # None
    /\ Record(a, "PreTool", TRUE, TRUE, held[a].read)
    /\ held' = [held EXCEPT ![a] = None]
    /\ UNCHANGED doing

Hook(a) ==
    \/ HookStart(a) \/ HookPrompt(a) \/ HookPostTool(a) \/ HookStop(a) \/ HookEnd(a)
    \/ HookResume(a) \/ HookTimeout(a)
    \/ \E class \in Classes :
         HookPreTool(a, class) \/ HookUnseen(a, class) \/ HookWait(a, class)

-----------------------------------------------------------------------------
(* drain_hook_observations, with the removal of the files.                  *)

Rec(o) == IF o.agent \in DOMAIN roster THEN roster[o.agent] ELSE NewAgent(o.at, epoch, None)
Opening == {o \in queue : OpensEpoch(Rec(o), o)}

\* The epoch when the files before this one are applied.
EpochAt(o) == epoch + Cardinality({p \in Opening : p.at < o.at})

Applied ==
    [a \in DOMAIN roster \union {o.agent : o \in queue} |->
       IF \E o \in queue : o.agent = a
       THEN LET o == CHOOSE p \in queue : p.agent = a
                r == IF a \in DOMAIN roster THEN roster[a]
                     ELSE NewAgent(o.at, EpochAt(o), None)
            IN ApplyObservation(r, o, EpochAt(o), None)
       ELSE roster[a]]

Drained ==
    /\ pc = "tick"
    /\ roster' = Applied
    /\ epoch' = epoch + Cardinality(Opening)
    /\ since' = [a \in Agents |->
                   IF \E o \in queue : o.agent = a /\ o.event \in Lifecycle
                   THEN 0 ELSE since[a]]
    /\ disk' = IF queue = {} THEN disk ELSE Ledger(roster', epoch', ctl, since')
    /\ queue' = {}
    /\ pc' = "contain"
    /\ unsaved' = FALSE
    /\ UNCHANGED <<doing, held, clock, saw, blind, ctl, pub, sig, paused, left, quiet,
                   unseen>>

NotDrained ==
    /\ pc = "tick" /\ queue # {}
    /\ Fault
    /\ pc' = "contain"
    /\ unsaved' = FALSE
    /\ UNCHANGED <<hookVars, ledgerVars, disk, pub, sig, paused, quiet, unseen>>

-----------------------------------------------------------------------------
(* manage_codex_app_containment.  c is the control state as the tick has    *)
(* it; of two writes that belong together the second is not looked at.      *)

Findings == {"safe", "unsafe", "due"}

\* Safe that turns to danger.
Alarm(s) == sig = "safe" /\ s # "safe"

\* The finding of this tick, with n failed writes in it.
Assess(s, n, acts) ==
    /\ pc = "contain"
    /\ sig' = s
    /\ Alarm(s) => left.alarms > 0
    /\ n <= left.faults
    /\ left' = [alarms |-> left.alarms - IF Alarm(s) THEN 1 ELSE 0,
                faults |-> left.faults - n]
    /\ quiet' = IF s = "safe" THEN quiet ELSE 0
    /\ pc' = IF acts THEN "publish" ELSE "pause"
    /\ UNCHANGED <<hookVars, pub, paused>>

AppActive == ActiveIn(roster, Agents)
Limited == Restricted(roster, Agents)

Moved(target) ==
    [a \in DOMAIN roster |->
       IF target[a] = roster[a].state THEN roster[a]
       ELSE [roster[a] EXCEPT !.state = target[a], !.epoch = epoch + 1]]
MovedSince(target) ==
    [a \in Agents |-> IF a \in DOMAIN roster /\ target[a] # roster[a].state
                      THEN 0 ELSE since[a]]

\* change_logical_batch was saved; whether its stamps were is n.
Batch(target, c, stamped, n) ==
    /\ roster' = Moved(target) /\ epoch' = epoch + 1
    /\ since' = MovedSince(target) /\ ctl' = stamped
    /\ disk' = Ledger(roster', epoch', IF n = 0 THEN stamped ELSE c, since')

\* set_codex_app_surface_gate was saved.
SetGate(c, on) ==
    /\ ctl' = [c EXCEPT !.gate = on, !.acted = 0]
    /\ disk' = Ledger(roster, epoch, ctl', since)
    /\ UNCHANGED <<roster, epoch, since>>

Only(c) == ctl' = c /\ UNCHANGED <<roster, epoch, since, disk>>

\* The processes cannot be listed: the tick goes no further than its state.
Skipped(s) ==
    /\ s # "due" /\ Assess(s, 1, TRUE)
    /\ Only(ctl)
    /\ unseen' = (unseen \/ (s # "safe" /\ ctl.recovery # None))
    /\ UNCHANGED unsaved

\* Safe with nothing to release.
SafeOpen ==
    /\ Assess("safe", 0, FALSE)
    /\ ~ctl.gate /\ Limited = {}
    /\ Only([ctl EXCEPT !.recovery = None])
    /\ unseen' = FALSE /\ UNCHANGED unsaved

Recovering == [ctl EXCEPT !.recovery = IF ctl.recovery = None THEN 0 ELSE ctl.recovery]

MayReopen ==
    /\ ~paused
    /\ Recovering.recovery >= 2 * Reaction
    /\ ctl.acted >= 1

SafeWait ==
    /\ Assess("safe", 0, FALSE)
    /\ ctl.gate \/ Limited # {}
    /\ ~MayReopen
    /\ Only(Recovering)
    /\ UNCHANGED <<unseen, unsaved>>

First(a) == \A b \in Limited : ~ReleasedBefore(roster, Leads, b, a)

Reopen(a, n) ==
    /\ Assess("safe", n, TRUE)
    /\ MayReopen /\ a \in Limited /\ First(a)
    /\ Batch([b \in DOMAIN roster |-> IF b = a THEN Relax(roster[b].state)
                                      ELSE roster[b].state],
             Recovering, [Recovering EXCEPT !.acted = 0], n)
    /\ UNCHANGED <<unseen, unsaved>>

(* Mutant: opens the gate while agents are still restricted. *)
OpenGateFirst(n) ==
    /\ Assess("safe", n, ctl.gate)
    /\ MayReopen /\ ctl.gate /\ n = 0
    /\ SetGate(Recovering, FALSE)
    /\ unsaved' = FALSE
    /\ UNCHANGED unseen

\* The last to open is the gate; a release that could not be saved comes
\* here as well.
OpenGate(n) ==
    /\ Assess("safe", n, ctl.gate)
    /\ MayReopen /\ (ctl.gate \/ Limited # {})
    /\ Limited # {} <=> n = 1
    /\ IF ctl.gate THEN SetGate(Recovering, FALSE) ELSE Only(Recovering)
    /\ unsaved' = (n = 1)
    /\ UNCHANGED unseen

GateNotOpened ==
    /\ Assess("safe", IF Limited = {} THEN 1 ELSE 2, FALSE)
    /\ MayReopen /\ ctl.gate
    /\ Only(Recovering)
    /\ UNCHANGED <<unseen, unsaved>>

Alarmed == [ctl EXCEPT !.recovery = None]

\* Unsafe and nothing to do, or nothing that may be done yet.
UnsafeNothing(s) ==
    /\ s # "safe" /\ Assess(s, 0, FALSE)
    /\ Only(Alarmed)
    /\ unseen' = FALSE /\ UNCHANGED unsaved

CloseGate ==
    /\ Assess("due", 0, TRUE)
    /\ ~ctl.gate
    /\ SetGate(Alarmed, TRUE)
    /\ unseen' = FALSE /\ UNCHANGED unsaved

(* plan_app_control.  Agents that were restricted stay selected, those whose *)
(* growth is confirmed join them, and of the possible owners of what nobody  *)
(* can attribute one at a time.  The growth is any, so those due for a rung  *)
(* now are any that have rungs left.                                         *)
Lowerable == {a \in AppActive : roster[a].state # HandoffOnly}

Lowered(T, emergency) ==
    [a \in DOMAIN roster |->
       IF a \notin T THEN roster[a].state
       ELSE IF emergency THEN HandoffOnly ELSE Tighten(roster[a].state)]

\* Some of the selected are due for a rung, or for the whole ladder.  The
\* gate comes first; a gate that could not be saved holds nothing up.
Brake(T, blindShare, emergency, n) ==
    LET failed == IF blindShare /\ ~ctl.gate THEN 1 ELSE 0
    IN /\ Assess("due", n + failed, TRUE)
       /\ Batch(Lowered(T, emergency), Alarmed, [Alarmed EXCEPT !.acted = 0], n)
       /\ unseen' = FALSE /\ UNCHANGED unsaved

\* A batch that could not be saved, after a gate that was not asked for, was
\* on already, or could not be saved either.
NotBraked(n) ==
    /\ Assess("due", n, FALSE)
    /\ n = 2 => ~ctl.gate
    /\ ctl.acted >= 1 /\ Lowerable # {}
    /\ Only(Alarmed)
    /\ unseen' = FALSE /\ UNCHANGED unsaved

Contain ==
    \/ SafeOpen \/ SafeWait \/ GateNotOpened \/ CloseGate
    \/ \E n \in 1..2 : NotBraked(n)
    \/ \E s \in Findings : UnsafeNothing(s) \/ Skipped(s)
    \/ \E n \in 0..1 : OpenGate(n) \/ \E a \in Agents : Reopen(a, n)
    \/ /\ pc = "contain" /\ ctl.acted >= 1
       /\ \E T \in SUBSET Lowerable \ {{}}, blindShare, emergency \in BOOLEAN, n \in 0..1 :
            Brake(T, blindShare, emergency, n)

-----------------------------------------------------------------------------
(* The last resort, and the daemon's life.                                  *)

(* Mutant: an acknowledgement of an earlier restriction will do. *)
ReceiptCurrentOnce(a) ==
    /\ roster[a].active /\ roster[a].state = HandoffOnly
    /\ roster[a].receipt # None /\ roster[a].receipt.state = HandoffOnly

ReceiptCurrent(a) ==
    /\ roster[a].active /\ roster[a].state = HandoffOnly
    /\ roster[a].receipt = [state |-> HandoffOnly, epoch |-> roster[a].epoch]

HandoffObserved(a) == ReceiptCurrent(a) /\ since[a] >= Reaction

\* apply_codex_app_blind_backstop for the server all agents share.
Pause ==
    /\ pc = "pause" /\ ~paused /\ sig = "due"
    /\ ctl.gate /\ ctl.acted >= Reaction
    /\ AppActive # {} /\ \A a \in AppActive : HandoffObserved(a)
    /\ paused' = TRUE
    /\ pc' = "publish"
    /\ UNCHANGED <<hookVars, ledgerVars, disk, pub, sig, left, historyVars>>

\* The server runs again; resuming stamps nothing this module looks at.
Resume ==
    /\ pc = "contain" /\ paused /\ sig = "safe"
    /\ paused' = FALSE
    /\ UNCHANGED <<hookVars, ledgerVars, disk, pub, pc, sig, left, historyVars>>

\* revoke_codex_app_generation: the resumed server was another one.
Replaced ==
    /\ pc = "contain" /\ paused
    /\ Fault
    /\ paused' = FALSE
    /\ roster' = [a \in DOMAIN roster |->
                    [roster[a] EXCEPT !.active = FALSE, !.state = Active, !.flight = NoTool,
                                      !.idle = TRUE, !.receipt = None]]
    /\ since' = [a \in Agents |-> IF a \in DOMAIN roster THEN 0 ELSE since[a]]
    /\ ctl' = [ctl EXCEPT !.acted = 0, !.recovery = 0]
    /\ disk' = Ledger(roster', epoch, ctl', since')
    /\ doing' = [a \in Agents |-> IF doing[a] = "absent" THEN "absent" ELSE "away"]
    /\ held' = [a \in Agents |-> None]
    /\ saw' = [a \in Agents |-> None] /\ blind' = {}
    /\ quiet' = 0 /\ unseen' = FALSE
    /\ UNCHANGED <<clock, queue, epoch, pub, pc, sig, unsaved>>

Publish ==
    /\ pc \in {"pause", "publish"}
    /\ pub' = State(roster, ctl)
    /\ ctl' = OlderCtl(ctl) /\ since' = OlderSince(since)
    /\ disk' = [disk EXCEPT !.ctl = OlderCtl(disk.ctl), !.since = OlderSince(disk.since)]
    /\ quiet' = IF sig = "safe" THEN Older(quiet, 2 * Reaction) ELSE 0
    /\ pc' = "tick"
    /\ UNCHANGED <<hookVars, roster, epoch, sig, paused, left, unseen, unsaved>>

\* The daemon dies and what it saved is what is left.
Crash ==
    /\ pc # "down"
    /\ Fault
    /\ pc' = "down"
    /\ roster' = disk.roster /\ epoch' = disk.epoch /\ ctl' = disk.ctl /\ since' = disk.since
    /\ quiet' = 0 /\ unseen' = (disk.ctl.recovery # None) /\ unsaved' = FALSE
    /\ UNCHANGED <<hookVars, disk, pub, sig, paused>>

\* Time passes without a daemon; after ten seconds its state is stale.
Downtime ==
    /\ pc = "down"
    /\ pub' \in {pub, [pub EXCEPT !.fresh = FALSE]}
    /\ ctl' = OlderCtl(ctl) /\ since' = OlderSince(since)
    /\ disk' = [disk EXCEPT !.ctl = OlderCtl(disk.ctl), !.since = OlderSince(disk.since)]
    /\ UNCHANGED <<hookVars, roster, epoch, pc, sig, paused, left, quiet, unseen,
                   unsaved>>

Restart ==
    /\ pc = "down"
    /\ pc' = "tick"
    /\ UNCHANGED <<hookVars, ledgerVars, disk, pub, sig, paused, left, historyVars>>

Daemon == Drained \/ NotDrained \/ Contain \/ Pause \/ Publish \/ Restart

Next ==
    \/ Daemon \/ Resume \/ Replaced \/ Crash \/ Downtime
    \/ \E a \in Agents : Hook(a)

Spec == Init /\ [][Next]_vars

FairSpec ==
    /\ Spec
    /\ WF_vars(Daemon)
    /\ SF_vars(Resume)

-----------------------------------------------------------------------------
(* Properties.                                                              *)

Reading == [state : LogicalState, epoch : Nat]
Observation ==
    [agent : Agents, event : HookEvents, weight : {NoTool},
     blocked : BOOLEAN, at : Nat, receipt : Reading \union {None}]
Control ==
    [gate : BOOLEAN, recovery : Nat \union {None}, acted : Nat]

IsSome(f, S) == DOMAIN f \subseteq Agents /\ f \in [DOMAIN f -> S]
IsLedger(l) ==
    /\ l = Ledger(l.roster, l.epoch, l.ctl, l.since)
    /\ IsSome(l.roster, LogicalAgent(None)) /\ l.epoch \in Nat
    /\ l.ctl \in Control /\ l.since \in [Agents -> Nat]

(* Every variable has the type of what it models.                           *)
AppTypeOK ==
    /\ doing \in [Agents -> {"absent", "away", "idle"} \union AtWork]
    /\ held \in [Agents -> [class : ToolClass, read : Reading \union {None}]
                          \union {None}]
    /\ clock \in Nat /\ queue \subseteq Observation
    /\ IsLedger(Ledger(roster, epoch, ctl, since)) /\ IsLedger(disk)
    /\ pub = [fresh |-> pub.fresh, gate |-> pub.gate, agents |-> pub.agents]
    /\ pub.fresh \in BOOLEAN /\ pub.gate \in BOOLEAN /\ IsSome(pub.agents, Reading)
    /\ pc \in {"tick", "contain", "pause", "publish", "down"}
    /\ sig \in Findings /\ paused \in BOOLEAN
    /\ left \in [alarms : Nat, faults : Nat]
    /\ saw \in [Agents -> Reading \union {None}] /\ blind \subseteq Agents
    /\ quiet \in Nat /\ unseen \in BOOLEAN /\ unsaved \in BOOLEAN

(* The server is stopped only over agents that know.  When the last resort  *)
(* stops it, the last hook of every agent at work in it had read the        *)
(* hand-off restriction that is in force, with its epoch, and none of them  *)
(* has begun a heavy tool since: not one that waited at the gate with an    *)
(* older reading, not one whose restriction was lifted and imposed again.   *)
(* Apart are agents whose present work no hook could record, and those      *)
(* whose observation waits for the next tick.                               *)
AllInformed ==
    \A a \in Agents :
        /\ doing[a] \in AtWork
        /\ a \notin blind /\ \A o \in queue : o.agent # a
        => /\ doing[a] # "heavy"
           /\ a \in DOMAIN roster
           /\ saw[a] = [state |-> HandoffOnly, epoch |-> roster[a].epoch]

PausedInformed == ~paused /\ paused' => AllInformed
HandoffBeforePause == [][PausedInformed]_vars

(* The surface gate opens last: as long as an agent of the App is           *)
(* restricted the gate keeps out new heavy tools.  The code breaks this in  *)
(* one case, a release that could not be saved, which falls through to the  *)
(* gate.                                                                    *)
GateLast == ctl.gate /\ ~ctl'.gate => Limited' = {} \/ unsaved'
GateOpensLast == [][GateLast]_vars

(* Agents are released and the gate is opened only after memory was safe    *)
(* for two reaction times under this daemon, and not while the server is    *)
(* stopped.  The code breaks this in two cases: a recovery that began       *)
(* before a crash, whose start is saved so that the time without a daemon   *)
(* counts, and a danger in ticks that could not list the processes and so   *)
(* did not come to this loop.                                               *)
Released ==
    \/ ctl.gate /\ ~ctl'.gate
    \/ \E a \in AppActive : roster'[a].active /\ roster'[a].state < roster[a].state

AppCalmFirst ==
    pc = "contain" /\ Released => ~paused /\ (quiet >= 2 * Reaction \/ unseen)
AppReopensAfterCalm == [][AppCalmFirst]_vars

(* When memory stays safe every App agent is released, the gate opens and   *)
(* the server runs, whatever was closed, restricted or stopped before.      *)
AppOpen == ~paused /\ ~ctl.gate /\ Limited = {}
AppReopens == <>[](sig = "safe") => <>[]AppOpen

=============================================================================
