--------------------------- MODULE ContainmentLoop ---------------------------
(***************************************************************************)
(* Logical containment of one CLI process: a lead and its subordinates.    *)
(* Their hooks ask the gate about every tool and leave an observation in a *)
(* file.  The daemon drains the files into its roster, restricts the       *)
(* agents in batches while memory is in danger and releases them after a   *)
(* calm time, and publishes the roster for the next hooks to read.         *)
(*                                                                         *)
(* The roster is saved in runtime.json before the files are removed and    *)
(* before a batch counts, so it survives a crash; how long memory has been *)
(* calm does not.  A hook that finds no fresh state lets everything pass   *)
(* and records nothing.                                                    *)
(***************************************************************************)
EXTENDS LogicalRoster

CONSTANTS
    Leads,       \* the lead sessions of the process
    Subs,        \* their subordinates
    Starts,      \* who may be at work when the model begins, who may join them, and
                 \* the bounds from there
    Called,      \* the tool calls they make
    Signals,     \* what a tick may find of memory, see Findings
    Reaction,    \* reaction_s, in ticks
    TicksLeft,   \* ticks that may be left before the recovery reserve is reached
    MaxHooks,    \* bound: hooks
    MaxAlarms,   \* bound: times calm turns to danger
    MaxFaults,   \* bound: failed writes of runtime.json, crashes of the daemon, ticks
                 \* that never reach the CLI actuator, records dropped for a silence
                 \* of an hour and ticks that find the lead itself to be the danger
    None         \* no receipt, no hook waiting

Agents == Leads \union Subs
Classes == {ClassifyTool(call) : call \in Called}

(* What assess_pressure finds, as manage_cli_logical_containment tells it   *)
(* apart: calm; unsafe, with admission open or braking; agents to be        *)
(* restricted; the last boundary near, or the CLI cap exceeded; the lead's  *)
(* own verified growth reaching the boundary before its subordinates could  *)
(* be restricted.                                                           *)
Findings == {"safe", "uneasy", "hold", "drain", "final", "lead"}

(* Mutant: the last boundary does not reach the leads. *)
FinalNot == {"lead"}

Final == {"final", "lead"}
Restricting == {"drain"} \union Final
Braking == {"hold"} \union Restricting

ASSUME ContainmentAssumption ==
    /\ Leads \intersect Subs = {}
    /\ None \notin Agents
    /\ Starts \subseteq [running : SUBSET Agents, others : SUBSET Agents,
                         hooks : 0..MaxHooks, alarms : 0..MaxAlarms,
                         faults : 0..MaxFaults]
    /\ Called \subseteq Calls
    /\ Signals \subseteq Findings
    /\ Reaction \in Nat \ {0}
    /\ TicksLeft \subseteq Nat \ {0}
    /\ {MaxHooks, MaxAlarms, MaxFaults} \subseteq Nat

VARIABLES
    doing,    \* the environment: what each agent really does
    held,     \* a PreTool hook that waits at the brake, with what it read
    clock,    \* hooks run so far; the time an observation carries
    queue,    \* hook-observations/pending
    roster,   \* ledger.logical_agents
    epoch,    \* ledger.logical_epoch
    before,   \* the copy of the ledger a drain falls back to
    taken,    \* the files of the drain in hand
    unread,   \* those it has not applied yet
    disk,     \* the roster and epoch of runtime.json
    pub,      \* state.json: is it fresh, does it brake, what it says of agents
    pc,       \* where the daemon is in its tick
    calm,     \* age of logical_recovery_since
    rested,   \* last_logical_action_at is a tick old
    sig,      \* the finding of the latest tick
    left,     \* the alarms and the faults still to come
    blind,    \* history: agents whose present work was not recorded
    quiet,    \* history: how long every tick has been safe
    missed    \* history: a danger the CLI actuator has not been told of

hookVars == <<doing, held, clock, queue>>
drainVars == <<before, taken, unread>>
vars == <<hookVars, drainVars, roster, epoch, disk, pub, pc, calm, rested, sig,
          left, blind, quiet, missed>>

-----------------------------------------------------------------------------
NoCalm == -1
MaxCalm == 4 * Reaction
Older(age) == IF age \in {NoCalm, MaxCalm} THEN age ELSE age + 1

NoRoster == [a \in {} |-> None]
Announced(A) == [a \in A |-> NewAgent(0, 0, None)]
Ledger(r, e) == [roster |-> r, epoch |-> e]
View(r) == [a \in DOMAIN r |-> [state |-> r[a].state, epoch |-> r[a].epoch]]

Fault == left.faults > 0 /\ left' = [left EXCEPT !.faults = left.faults - 1]

\* Every agent at work is known to the daemon.
InitWith(running, others, hooks, alarms, faults) ==
    /\ doing = [a \in Agents |-> IF a \in running THEN "working"
                               ELSE IF a \in others THEN "away" ELSE "absent"]
    /\ held = [a \in Agents |-> None]
    /\ clock = MaxHooks - hooks /\ queue = {}
    /\ roster = Announced(running) /\ epoch = 0
    /\ before = Ledger(NoRoster, 0) /\ taken = {} /\ unread = {}
    /\ disk = Ledger(Announced(running), 0)
    /\ pub = [fresh |-> TRUE, brake |-> FALSE, agents |-> View(Announced(running))]
    /\ pc = "tick"
    /\ calm = NoCalm /\ rested = TRUE /\ sig = "safe"
    /\ left = [alarms |-> alarms, faults |-> faults]
    /\ blind = {} /\ quiet = 0 /\ missed = FALSE

Init == \E s \in Starts : InitWith(s.running, s.others, s.hooks, s.alarms, s.faults)

-----------------------------------------------------------------------------
(* Hooks.  The hooks of one agent run one after another.  A hook reads what *)
(* the last tick published and leaves a file for the next listing, so one   *)
(* that runs amid a tick does what it does just before the tick contains:   *)
(* hooks run there, between ticks and while the daemon is down.             *)

HooksRun == pc \in {"tick", "contain", "down"}

daemonVars == <<drainVars, roster, epoch, disk, pub, pc, calm, rested, sig, left,
                quiet, missed>>

Working == {"working"} \union Weights

\* A hook that read a fresh state leaves an observation.
Record(a, event, weight, blocked, fresh) ==
    /\ HooksRun /\ clock < MaxHooks
    /\ clock' = clock + 1
    /\ queue' = IF fresh
                THEN queue \union {[agent |-> a, event |-> event, weight |-> weight,
                                    blocked |-> blocked, at |-> clock + 1,
                                    receipt |-> None]}
                ELSE queue

\* Work that starts unseen stays unseen until a hook that starts work is seen.
Began(a, fresh) == blind' = IF fresh THEN blind \ {a} ELSE blind \union {a}

HookStart(a) ==
    /\ doing[a] # "absent"
    /\ a \in Subs => doing[a] = "away" /\ \E l \in Leads : doing[l] \notin {"away", "absent"}
    /\ held[a] = None
    /\ doing' = IF a \in Subs THEN [doing EXCEPT ![a] = "working"]
                ELSE IF doing[a] = "away" THEN [doing EXCEPT ![a] = "idle"] ELSE doing
    /\ Record(a, "Start", NoTool, FALSE, pub.fresh)
    /\ IF doing'[a] = "idle" THEN blind' = blind ELSE Began(a, pub.fresh)
    /\ UNCHANGED <<daemonVars, held>>

HookPrompt(a) ==
    /\ a \in Leads /\ doing[a] = "idle"
    /\ doing' = [doing EXCEPT ![a] = "working"]
    /\ Record(a, "Prompt", NoTool, FALSE, pub.fresh)
    /\ Began(a, pub.fresh)
    /\ UNCHANGED <<daemonVars, held>>

\* What the published state says of an agent.
Told(a) == IF a \in DOMAIN pub.agents THEN pub.agents[a]
           ELSE [state |-> Active, epoch |-> 0]

Decide(a, class, state, fresh) ==
    LET allowed == AllowedIn(class, state)
    IN /\ doing' = IF allowed THEN [doing EXCEPT ![a] = Weight(class)] ELSE doing
       /\ Record(a, "PreTool", Weight(class), ~allowed, fresh)

\* Without a fresh state there is neither a brake nor a restriction.
HookPreTool(a, class) ==
    /\ doing[a] = "working" /\ held[a] = None
    /\ ~(pub.fresh /\ pub.brake /\ Heavy(class))
    /\ Decide(a, class, IF pub.fresh THEN Told(a).state ELSE Active, pub.fresh)
    /\ Began(a, pub.fresh)
    /\ UNCHANGED <<daemonVars, held>>

HookWait(a, class) ==
    /\ doing[a] = "working" /\ held[a] = None
    /\ HooksRun /\ clock < MaxHooks
    /\ pub.fresh /\ pub.brake /\ Heavy(class)
    /\ held' = [held EXCEPT ![a] = [class |-> class, read |-> Told(a)]]
    /\ UNCHANGED <<daemonVars, doing, clock, queue, blind>>

\* The wait is over when admission reopens, or fails open; the restriction
\* the hook then heeds is the one it read before it waited.
HookResume(a) ==
    /\ held[a] # None
    /\ ~(pub.fresh /\ pub.brake)
    /\ Decide(a, held[a].class, held[a].read.state, TRUE)
    /\ Began(a, TRUE)
    /\ held' = [held EXCEPT ![a] = None]
    /\ UNCHANGED daemonVars

HookTimeout(a) ==
    /\ held[a] # None
    /\ Record(a, "PreTool", "heavy", TRUE, TRUE)
    /\ Began(a, TRUE)
    /\ held' = [held EXCEPT ![a] = None]
    /\ UNCHANGED <<daemonVars, doing>>

HookPostTool(a) ==
    /\ doing[a] \in Weights
    /\ Record(a, "PostTool", doing[a], FALSE, pub.fresh)
    /\ doing' = [doing EXCEPT ![a] = "working"]
    /\ UNCHANGED <<daemonVars, held, blind>>

HookStop(a) ==
    /\ a \in Leads /\ doing[a] = "working" /\ held[a] = None
    /\ Record(a, "Stop", NoTool, FALSE, pub.fresh)
    /\ doing' = [doing EXCEPT ![a] = "idle"]
    /\ UNCHANGED <<daemonVars, held, blind>>

HookEnd(a) ==
    /\ doing[a] = IF a \in Subs THEN "working" ELSE "idle"
    /\ held[a] = None
    /\ Record(a, "End", NoTool, FALSE, pub.fresh)
    /\ doing' = [doing EXCEPT ![a] = "away"]
    /\ UNCHANGED <<daemonVars, held, blind>>

Hook(a) ==
    \/ HookStart(a) \/ HookPrompt(a) \/ HookPostTool(a) \/ HookStop(a) \/ HookEnd(a)
    \/ \E class \in Classes : HookPreTool(a, class) \/ HookWait(a, class)

Awake(a) == HookResume(a) \/ HookTimeout(a)

-----------------------------------------------------------------------------
(* The tick up to the containment: cleanup_artifacts and                    *)
(* drain_hook_observations.                                                 *)

containVars == <<calm, rested, sig, quiet, missed>>

\* An unrestricted record that was silent for an hour goes; nobody looks
\* whether that was saved.
Prune(a) ==
    /\ pc = "tick" /\ a \in DOMAIN roster /\ roster[a].state = Active
    /\ Fault
    /\ roster' = [b \in DOMAIN roster \ {a} |-> roster[b]]
    /\ \E saved \in BOOLEAN : disk' = IF saved THEN Ledger(roster', epoch) ELSE disk
    /\ blind' = blind \union {a}
    /\ UNCHANGED <<hookVars, drainVars, epoch, pub, pc, containVars>>

TickStart ==
    /\ pc = "tick"
    /\ before' = Ledger(roster, epoch)
    /\ taken' = queue /\ unread' = queue
    /\ pc' = "drain"
    /\ UNCHANGED <<hookVars, roster, epoch, disk, pub, containVars, left, blind>>

Known(o) == o.agent \in DOMAIN roster
Record0(o) == IF Known(o) THEN roster[o.agent] ELSE NewAgent(o.at, epoch, None)

\* apply_hook_observation for the oldest file not read yet.
DrainOne ==
    /\ pc = "drain"
    /\ \E o \in unread :
         /\ \A p \in unread : o.at <= p.at
         /\ unread' = unread \ {o}
         /\ IF Late(Record0(o), o) THEN UNCHANGED <<roster, epoch>>
            ELSE /\ roster' = [a \in DOMAIN roster \union {o.agent} |->
                                 IF a = o.agent
                                 THEN ApplyObservation(Record0(o), o, epoch, None)
                                 ELSE roster[a]]
                 /\ epoch' = IF OpensEpoch(Record0(o), o) THEN epoch + 1 ELSE epoch
    /\ UNCHANGED <<hookVars, before, taken, disk, pub, pc, containVars, left, blind>>

Drained == pc = "drain" /\ unread = {}

\* Something was applied, so the ledger is to be saved.
Changed == \E o \in taken : o.agent \in DOMAIN before.roster =>
                              ~Late(before.roster[o.agent], o)

DrainSaved ==
    /\ Drained
    /\ disk' = IF Changed THEN Ledger(roster, epoch) ELSE disk
    /\ before' = Ledger(NoRoster, 0)
    /\ pc' = "unlink"
    /\ UNCHANGED <<hookVars, taken, unread, roster, epoch, pub, containVars, left,
                   blind>>

(* Mutant: removes the files although they were not saved. *)
DrainNotSavedRemoved ==
    /\ Drained /\ Changed
    /\ Fault
    /\ roster' = before.roster /\ epoch' = before.epoch
    /\ before' = Ledger(NoRoster, 0)
    /\ pc' = "unlink"
    /\ UNCHANGED <<hookVars, taken, unread, disk, pub, containVars, blind>>

\* The ledger falls back to the copy and the files stay for the next tick.
DrainNotSaved ==
    /\ Drained /\ Changed
    /\ Fault
    /\ roster' = before.roster /\ epoch' = before.epoch
    /\ before' = Ledger(NoRoster, 0) /\ taken' = {}
    /\ pc' = "contain"
    /\ UNCHANGED <<hookVars, unread, disk, pub, containVars, blind>>

RemoveFiles ==
    /\ pc = "unlink"
    /\ queue' = queue \ taken /\ taken' = {}
    /\ pc' = "contain"
    /\ UNCHANGED <<doing, held, clock, before, unread, roster, epoch, disk, pub,
                   containVars, left, blind>>

Drain == DrainOne \/ DrainSaved \/ DrainNotSaved \/ RemoveFiles

-----------------------------------------------------------------------------
(* manage_cli_logical_containment.                                          *)

\* Calm that turns to danger.
Alarm(s) == sig = "safe" /\ s # "safe"

\* The finding of this tick.
Assess(s) ==
    /\ pc = "contain"
    /\ pc' = "publish"
    /\ sig' = s
    /\ Alarm(s) => left.alarms > 0
    /\ s = "lead" => left.faults > 0
    /\ quiet' = IF s = "safe" THEN quiet ELSE 0
    /\ UNCHANGED <<hookVars, drainVars, pub, rested, blind>>

Found(s, faults) ==
    [alarms |-> left.alarms - IF Alarm(s) THEN 1 ELSE 0,
     faults |-> left.faults - faults - IF s = "lead" THEN 1 ELSE 0]

NoBatch(s) ==
    /\ left' = Found(s, 0)
    /\ UNCHANGED <<roster, epoch, disk>>

\* The App actuator acted, or the processes could not be listed: the CLI
\* actuator is not called and its calm time runs on.
Skipped(s) ==
    /\ Assess(s) /\ left.faults > 0 /\ s # "lead"
    /\ left' = Found(s, 1)
    /\ missed' = (missed \/ s # "safe")
    /\ UNCHANGED <<roster, epoch, disk, calm>>

\* change_logical_batch: one epoch for the whole batch, which counts only
\* when it is saved.
Moved(target) ==
    [a \in DOMAIN roster |->
       IF target[a] = roster[a].state THEN roster[a]
       ELSE [roster[a] EXCEPT !.state = target[a], !.epoch = epoch + 1]]

(* Mutant: a batch that could not be saved stays in memory. *)
BatchKept(s, target) ==
    \/ /\ roster' = Moved(target) /\ epoch' = epoch + 1
       /\ disk' = Ledger(Moved(target), epoch + 1)
       /\ left' = Found(s, 0)
    \/ /\ left.faults > 0 /\ s # "lead"
       /\ left' = Found(s, 1)
       /\ roster' = Moved(target) /\ epoch' = epoch + 1
       /\ UNCHANGED disk

Batch(s, target) ==
    \/ /\ roster' = Moved(target) /\ epoch' = epoch + 1
       /\ disk' = Ledger(Moved(target), epoch + 1)
       /\ left' = Found(s, 0)
    \/ /\ left.faults > 0 /\ s # "lead"
       /\ left' = Found(s, 1)
       /\ UNCHANGED <<roster, epoch, disk>>

Settled == calm # NoCalm /\ calm >= 2 * Reaction
ToRelax == Restricted(roster, Agents)

SafeNothing(s) ==
    /\ Assess(s) /\ s = "safe"
    /\ ~(Settled /\ rested /\ ToRelax # {})
    /\ calm' = IF calm = NoCalm THEN 0 ELSE calm
    /\ NoBatch(s) /\ UNCHANGED missed

RelaxBudget ==
    LET ticks == MaxCalm - calm
        steps == MapThenSumSet(LAMBDA a : roster[a].state, ToRelax)
    IN BatchBudget(steps, IF ticks > 1 THEN ticks ELSE 1)

RelaxStep(s) ==
    /\ Assess(s) /\ s = "safe"
    /\ Settled /\ rested /\ ToRelax # {}
    /\ \E who \in SUBSET ToRelax :
         /\ RelaxBatch(roster, Agents, Leads, RelaxBudget, who)
         /\ Batch(s, [a \in DOMAIN roster |->
                        IF a \in who THEN Relax(roster[a].state) ELSE roster[a].state])
    /\ UNCHANGED <<calm, missed>>

(* Mutant: calm that was interrupted goes on. *)
DangerCalm(s) ==
    /\ Assess(s) /\ s # "safe"
    /\ calm' = calm /\ missed' = FALSE

Danger(s) ==
    /\ Assess(s) /\ s # "safe"
    /\ calm' = NoCalm /\ missed' = FALSE

ActiveSubs == ActiveIn(roster, Subs)
ActiveLeads == ActiveIn(roster, Leads)
(* Mutant: does not wait for the subordinates. *)
SubsExhaustedAlways == TRUE

SubsExhausted == \A a \in ActiveSubs : roster[a].state = HandoffOnly

Tightened(give) == [a \in DOMAIN roster |-> roster[a].state + give[a]]

\* Such a lead goes before its subordinates, by one rung.
Overridden(s) == s = "lead" /\ ActiveLeads # {}

LeadOverride(s) ==
    /\ Danger(s) /\ Overridden(s) /\ rested
    /\ \E a \in ActiveLeads :
         IF roster[a].state = HandoffOnly THEN NoBatch(s)
         ELSE Batch(s, [b \in DOMAIN roster |-> IF b = a THEN Tighten(roster[b].state)
                                                ELSE roster[b].state])

TightenStep(s, S) ==
    /\ StepsOf(roster, ActiveIn(roster, S)) > 0
    /\ \E ticks \in TicksLeft : \E give \in [DOMAIN roster -> 0..3] :
         /\ TightenBatch(roster, S, BatchBudget(StepsOf(roster, ActiveIn(roster, S)), ticks),
                         {}, give)
         /\ Batch(s, Tightened(give))

SubBatch(s) ==
    /\ Danger(s) /\ s \in Restricting /\ ~Overridden(s) /\ rested
    /\ TightenStep(s, Subs)

LeadBatch(s) ==
    /\ Danger(s) /\ s \in Final /\ ~Overridden(s) /\ rested
    /\ SubsExhausted
    /\ TightenStep(s, Leads)

DangerNothing(s) ==
    /\ Danger(s)
    /\ \/ ~rested \/ s \notin Restricting
       \/ /\ SubsExhausted /\ ~Overridden(s)
          /\ s \notin Final \/ StepsOf(roster, ActiveLeads) = 0
    /\ NoBatch(s)

Contain(s) ==
    \/ Skipped(s) \/ SafeNothing(s) \/ RelaxStep(s)
    \/ LeadOverride(s) \/ SubBatch(s) \/ LeadBatch(s) \/ DangerNothing(s)

-----------------------------------------------------------------------------
(* The end of a tick, and the daemon's life.                                *)

\* build_state and write_state, then a tick's sleep.
Publish ==
    /\ pc = "publish"
    /\ pub' = [fresh |-> TRUE, brake |-> sig \in Braking, agents |-> View(roster)]
    /\ calm' = Older(calm)
    /\ quiet' = IF sig = "safe" THEN Older(quiet) ELSE 0
    /\ rested' = TRUE
    /\ pc' = "tick"
    /\ UNCHANGED <<hookVars, drainVars, roster, epoch, disk, sig, left, blind, missed>>

\* The daemon dies, maybe with the oldest of its files removed; what is left
\* is what it saved.
Crash ==
    /\ pc # "down"
    /\ Fault
    /\ pc' = "down"
    /\ \E n \in 0..MaxHooks :
         queue' = queue \ {o \in taken : pc = "unlink" /\ o.at <= n}
    /\ roster' = disk.roster /\ epoch' = disk.epoch
    /\ before' = Ledger(NoRoster, 0) /\ taken' = {} /\ unread' = {}
    /\ calm' = NoCalm /\ quiet' = 0 /\ missed' = FALSE
    /\ rested' \in BOOLEAN
    /\ UNCHANGED <<doing, held, clock, disk, pub, sig, blind>>

\* RuntimeLedger::load.  What it erases when nothing was ever restricted is
\* zero already.
Restart ==
    /\ pc = "down"
    /\ pc' = "tick"
    /\ UNCHANGED <<hookVars, drainVars, roster, epoch, disk, pub, containVars, left,
                   blind>>

\* Ten seconds without a publication.
Stale ==
    /\ pc = "down" /\ pub.fresh
    /\ pub' = [pub EXCEPT !.fresh = FALSE]
    /\ UNCHANGED <<hookVars, drainVars, roster, epoch, disk, pc, containVars, left,
                   blind>>

Daemon == TickStart \/ Drain \/ (\E s \in Signals : Contain(s)) \/ Publish \/ Restart

Next ==
    \/ Daemon
    \/ \E a \in Agents : Hook(a) \/ Awake(a) \/ Prune(a)
    \/ Crash \/ Stale

Spec == Init /\ [][Next]_vars

\* run_daemon loops for ever, the service manager restarts it, and a wait at
\* the brake has an end.
FairSpec ==
    /\ Spec
    /\ WF_vars(Daemon)
    /\ \A a \in Agents : WF_vars(Awake(a))

-----------------------------------------------------------------------------
(* Properties.                                                              *)

Observation ==
    [agent : Agents, event : HookEvents, weight : Weights \union {NoTool},
     blocked : BOOLEAN, at : Nat, receipt : {None}]

Reading == [state : LogicalState, epoch : Nat]
IsSome(f, S) == DOMAIN f \subseteq Agents /\ f \in [DOMAIN f -> S]
IsRoster(r) == IsSome(r, LogicalAgent(None))
IsLedger(l) == l = Ledger(l.roster, l.epoch) /\ IsRoster(l.roster) /\ l.epoch \in Nat

(* Every variable has the type of what it models.                           *)
TypeOK ==
    /\ doing \in [Agents -> {"absent", "away", "idle"} \union Working]
    /\ held \in [Agents -> [class : ToolClass, read : Reading] \union {None}]
    /\ clock \in Nat /\ queue \subseteq Observation
    /\ IsRoster(roster) /\ epoch \in Nat
    /\ IsLedger(before) /\ taken \subseteq Observation /\ unread \subseteq Observation
    /\ IsLedger(disk)
    /\ pub \in [fresh : BOOLEAN, brake : BOOLEAN, agents : {pub.agents}]
    /\ IsSome(pub.agents, Reading)
    /\ pc \in {"tick", "drain", "unlink", "contain", "publish", "down"}
    /\ calm \in Nat \union {NoCalm} /\ rested \in BOOLEAN /\ sig \in Findings
    /\ left \in [alarms : Nat, faults : Nat]
    /\ blind \subseteq Agents /\ quiet \in Nat /\ missed \in BOOLEAN

(* An epoch names one state of an agent.  A denial tells the agent to retry *)
(* after a newer epoch, and a session is told of a change by its epoch, so  *)
(* no two copies of the roster a hook or a restarted daemon may hold can    *)
(* give one epoch two meanings: the published one, the saved one, the one   *)
(* in memory, and what a hook read before it began to wait.  And nothing    *)
(* is published that a crash could take back and number again.              *)
Agree(v, w) ==
    \A a \in DOMAIN v \intersect DOMAIN w :
        v[a].epoch = w[a].epoch => v[a].state = w[a].state

HeldView == [a \in {b \in Agents : held[b] # None} |-> held[a].read]

EpochNamesState ==
    /\ \A v, w \in {View(roster), View(disk.roster), pub.agents, HeldView} : Agree(v, w)
    /\ \A a \in DOMAIN pub.agents : pub.agents[a].epoch <= disk.epoch

(* A process counts as one that grows without work (work_mismatch, which    *)
(* verifies a runaway) only while none of its agents works, but for agents  *)
(* whose present work no hook could record or whose record was dropped, and *)
(* observations the daemon has not dealt with yet.                          *)
MismatchUnlessBlind ==
    WorkMismatch(roster) =>
        \A a \in Agents :
            doing[a] \in Working =>
                a \in blind \/ \E o \in queue : o.agent = a

(* The lead is the last to be restricted: unless its own growth is verified *)
(* to be the danger, a lead is tightened only when every subordinate that   *)
(* works, and that a hook could announce, is down to its hand-off.          *)
LeadTightened ==
    /\ pc = "contain"
    /\ \E l \in Leads \intersect DOMAIN roster \intersect DOMAIN roster' :
         roster'[l].state > roster[l].state

SubsFirst ==
    LeadTightened /\ sig' # "lead" =>
        \A b \in Subs :
            /\ doing[b] \in Working /\ b \notin blind
            /\ \A o \in queue : o.agent # b
            => b \in DOMAIN roster /\ roster[b].state = HandoffOnly

LeadsYieldLast == [][SubsFirst]_vars

(* A batch releases agents only after memory has been safe for two reaction *)
(* times in this life of the daemon, in every tick it assessed.  The code   *)
(* keeps this but for a danger that fell into ticks another actuator took.  *)
BatchRelaxed ==
    /\ pc = "contain"
    /\ \E a \in DOMAIN roster : roster'[a].state < roster[a].state

CalmFirst == BatchRelaxed => quiet >= 2 * Reaction \/ missed
ReopenAfterCalm == [][CalmFirst]_vars

(* When memory stays safe, every restriction ends.                          *)
AllOpen == \A a \in DOMAIN roster : roster[a].state = Active
CalmReopens == <>[](sig = "safe") => <>[]AllOpen

(* When the last boundary stays near, every agent the daemon knows is down  *)
(* to its hand-off in the end, which the pause of a process waits for.      *)
AllCushioned ==
    \A a \in ActiveIn(roster, Agents) : roster[a].state = HandoffOnly
DangerCushions == <>[](sig = "final") => <>[]AllCushioned

=============================================================================
