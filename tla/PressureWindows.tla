--------------------------- MODULE PressureWindows ---------------------------
(***************************************************************************)
(* The time windows between the evidence of a tick and what is done about  *)
(* it.  stabilize_assessment raises the held action at once and lowers it  *)
(* after a window, to the worst proposal of that window.                   *)
(* apply_pressure_actions resumes a paused process after a safe window and *)
(* pauses a lead after a critical one.  The held action is in the ledger   *)
(* and survives a crash when it was saved; the windows do not.             *)
(*                                                                         *)
(* What the sensors find is an input of each tick.  Windows are ages, the  *)
(* time since their start; the model steps from tick to tick.  A crash     *)
(* within a tick is here one before or after it.                           *)
(***************************************************************************)
EXTENDS Integers

CONSTANTS
    Hysteresis,     \* hysteresis_s
    Reaction,       \* reaction_s: it depends on the configured tick only
    MaxStep,        \* bound: time between two ticks
    MaxWriteFails,  \* bound: failed writes of runtime.json
    MaxFileFails,   \* bound: notices that cannot be queued
    MaxCrashes      \* bound: crashes of the daemon

Window == IF Hysteresis >= 2 * Reaction THEN Hysteresis ELSE 2 * Reaction

ASSUME WindowAssumption ==
    /\ Hysteresis \in Nat
    /\ Reaction \in Nat \ {0}
    /\ MaxStep \in Nat \ {0}
    /\ MaxWriteFails \in Nat
    /\ MaxFileFails \in Nat
    /\ MaxCrashes \in Nat

VARIABLES
    held,          \* last_assessment_action
    onDisk,        \* the same in runtime.json
    betterFor,     \* age of assessment_better_since
    target,        \* assessment_better_target
    recoveryFor,   \* age of recovery_since
    criticalFor,   \* age of critical_since
    sinceAction,   \* age of last_pressure_action_at
    probation,     \* ledger.probation is set
    queued,        \* the notice of the latest change waits for the next tick
    runtimeError,  \* Supervisor.runtime_error is set
    faults,        \* faults injected so far
    did,           \* what apply_pressure_actions did in the latest tick
    beat,          \* alternates with every tick
    proposal,      \* history: the latest proposal
    due,           \* history: the latest tick was to pause a worker for the cap
    lastSeen,      \* history: time since a proposal of at least this action
    forgotten      \* history: actions a restart dropped, as they were not saved

windowVars == <<betterFor, target>>
pressureVars == <<recoveryFor, criticalFor, sinceAction, did>>
vars == <<held, onDisk, windowVars, pressureVars, probation, queued, runtimeError,
          faults, beat, proposal, due, lastSeen, forgotten>>

-----------------------------------------------------------------------------
Allow == 0
Observe == 1
Hold == 2
Drain == 3
NoAction == -1
Actions == Allow..Drain

(* An age is not told apart beyond the limit it is compared with. *)
NoAge == -1
Older(age, dt, limit) ==
    IF age = NoAge THEN NoAge
    ELSE IF age + dt <= limit THEN age + dt ELSE limit

Worse(a, b) == IF a >= b THEN a ELSE b

(* What assess_pressure and apply_cli_hard_cap can find together, and what   *)
(* there is to act on.  appSafe is codex_app_recovery_safe; a collapse is    *)
(* imminent whoever causes it, "agent" is one attributed to agents.  Where   *)
(* nothing depends on a finding it has one value: distress below Observe and *)
(* above, a collapse over the cap, and all of them in a tick whose turn went *)
(* to another actuator or that ended early without the process list.         *)
Evidence ==
    {e \in [proposed : Actions,
            calm : BOOLEAN,
            critical : {"no", "collapse", "agent", "cap"},
            appSafe : BOOLEAN,
            turn : {"none", "worker", "other", "unlisted"}] :
        /\ e.critical = "cap" => e.proposed = Drain
        /\ e.proposed = Drain => e.critical # "no"
        /\ e.critical # "no" => e.proposed >= Hold
        /\ e.critical = "agent" => ~e.appSafe
        /\ e.proposed # Observe => e.calm
        /\ e.turn = "worker" => e.critical \in {"agent", "cap"}
        /\ e.turn \in {"other", "unlisted"} =>
             ~e.appSafe /\ e.critical = IF e.proposed = Drain THEN "agent" ELSE "no"
        /\ e.turn = "unlisted" => e.proposed = Hold}

(* A degraded runtime holds admission, whatever the sensors find. *)
Possible(e) == runtimeError => e.proposed = Hold \/ e.critical = "cap"

Fail(writes, notices) ==
    /\ faults.write + writes <= MaxWriteFails
    /\ faults.file + notices <= MaxFileFails
    /\ faults' = [faults EXCEPT !.write = faults.write + writes,
                                !.file = faults.file + notices]

Init ==
    /\ held = NoAction /\ onDisk = NoAction
    /\ betterFor = NoAge /\ target = Allow
    /\ recoveryFor = NoAge /\ criticalFor = NoAge
    /\ sinceAction = Reaction
    /\ probation = FALSE
    /\ queued = FALSE
    /\ runtimeError = FALSE
    /\ faults = [write |-> 0, file |-> 0, crash |-> 0]
    /\ did = "none"
    /\ beat = FALSE
    /\ proposal = Allow
    /\ due = FALSE
    /\ lastSeen = [a \in Actions |-> Window]
    /\ forgotten = {}

-----------------------------------------------------------------------------
(* stabilize_assessment.                                                   *)

Raise(p) ==
    /\ p > held
    /\ held' = p
    /\ betterFor' = NoAge /\ target' = Allow

BetterAge(dt) == IF betterFor = NoAge THEN 0 ELSE betterFor + dt

(* Mutant: adopts what the last tick of the window proposed. *)
BetterTargetLatest(p) == p
BetterTarget(p) == IF betterFor = NoAge THEN p ELSE Worse(target, p)

(* Mutant: another proposal starts the window again. *)
WaitRestarted(p, dt) ==
    /\ p < held
    /\ BetterAge(dt) < Window
    /\ betterFor' = IF p = target THEN BetterAge(dt) ELSE 0
    /\ target' = BetterTarget(p)
    /\ UNCHANGED held

Wait(p, dt) ==
    /\ p < held
    /\ BetterAge(dt) < Window
    /\ betterFor' = BetterAge(dt)
    /\ target' = BetterTarget(p)
    /\ UNCHANGED held

Lower(p, dt) ==
    /\ p < held
    /\ BetterAge(dt) >= Window
    /\ held' = Worse(BetterTarget(p), p)
    /\ betterFor' = NoAge /\ target' = Allow

Keep(p) ==
    /\ p = held
    /\ betterFor' = NoAge /\ target' = Allow
    /\ UNCHANGED held

Stabilize(p, dt) == Raise(p) \/ Wait(p, dt) \/ Lower(p, dt) \/ Keep(p)

-----------------------------------------------------------------------------
(* What the tick does with the held action.                                *)

(* Whether ledger.probation is set: manage_lead_probation sets and clears it,*)
(* reconcile_stopped clears it too, in a degraded runtime as well.           *)
Probation(e) ==
    \/ UNCHANGED probation
    \/ /\ ~probation /\ ~runtimeError
       /\ e.calm /\ held' <= Observe
       /\ probation' = TRUE
    \/ /\ probation /\ e.turn # "unlisted"
       /\ probation' = FALSE

(* Mutant: a recovery of the App is one of the machine. *)
GloballySafeOrApp(e) == (held' <= Observe /\ e.calm) \/ e.appSafe

GloballySafe(e) == held' <= Observe /\ e.calm
Safe(e) == GloballySafe(e) \/ e.appSafe
Critical(e) == e.critical # "no"

(* While another actuator took the tick, a probation is open, or processes   *)
(* could not be listed, the windows go on as they are.                       *)
Skip(e, dt) ==
    /\ e.turn \in {"other", "unlisted"} \/ probation'
    /\ recoveryFor' = Older(recoveryFor, dt, 2 * Reaction)
    /\ criticalFor' = Older(criticalFor, dt, 2 * Reaction)
    /\ sinceAction' = Older(sinceAction, dt, Reaction)
    /\ did' = "none"

Reached(e) == e.turn \in {"none", "worker"} /\ ~probation'

Spaced(dt) == Older(sinceAction, dt, Reaction) >= Reaction

Recover(e, dt) ==
    /\ Reached(e) /\ Safe(e)
    /\ criticalFor' = NoAge
    /\ recoveryFor' = IF recoveryFor = NoAge THEN 0 ELSE Older(recoveryFor, dt, 2 * Reaction)
    /\ \/ /\ recoveryFor # NoAge /\ Older(recoveryFor, dt, 2 * Reaction) >= 2 * Reaction
          /\ Spaced(dt)
          /\ did' \in {"app"} \union (IF GloballySafe(e) THEN {"cli"} ELSE {})
          /\ sinceAction' = 0
       \/ did' = "none" /\ sinceAction' = Older(sinceAction, dt, Reaction)

(* A worker is paused for a cap or a collapse of its own; a lead only when  *)
(* it has lasted and no worker is left.                                     *)
Press(e, dt) ==
    /\ Reached(e) /\ ~Safe(e)
    /\ recoveryFor' = NoAge
    /\ criticalFor' = IF ~Critical(e) THEN NoAge
                      ELSE IF criticalFor = NoAge THEN 0 ELSE Older(criticalFor, dt, 2 * Reaction)
    /\ LET acts == e.critical \in {"agent", "cap"} /\ Spaced(dt) /\ ~runtimeError
       IN  \/ acts /\ e.turn = "worker" /\ did' = "worker" /\ sinceAction' = 0
          \/ /\ acts /\ e.turn # "worker" /\ criticalFor' >= 2 * Reaction
             /\ did' = "lead" /\ sinceAction' = 0
          \/ /\ ~(acts /\ e.turn = "worker")
             /\ did' = "none" /\ sinceAction' = Older(sinceAction, dt, Reaction)

Apply(e, dt) ==
    \/ Skip(e, dt)
    \/ Recover(e, dt)
    \/ Press(e, dt)

(* Mutant: changes are not announced. *)
AnnouncedNever == FALSE

(* A change is announced, but for a first assessment that allows. *)
Announced == held' # held /\ ~(held = NoAction /\ held' = Allow)

(* The drain at the start of a tick saves the ledger when it takes a notice; *)
(* the rest of the tick may save it as well.  Some of those writes degrade   *)
(* the runtime when they fail, as the one after a resume does.               *)
Save ==
    \E writes \in 0..2, notices \in 0..1 :
        /\ Fail(writes, notices)
        /\ notices = 1 => Announced
        /\ \E drained, degrades \in BOOLEAN, late \in {"none", "saved", "failed"} :
            /\ drained => queued /\ ~runtimeError
            /\ late # "none" => ~runtimeError
            /\ degrades => late = "failed"
            /\ did' \in {"cli", "app"} => late = "saved" \/ degrades \/ runtimeError
            /\ writes = (IF queued /\ ~drained /\ ~runtimeError THEN 1 ELSE 0)
                            + (IF late = "failed" THEN 1 ELSE 0)
            /\ onDisk' = IF late = "saved" THEN held' ELSE IF drained THEN held ELSE onDisk
            /\ queued' = ((queued /\ ~drained) \/ (Announced /\ notices = 0))
            /\ runtimeError' = (runtimeError \/ degrades)

Remember(e, dt) ==
    /\ proposal' = e.proposed
    /\ due' = (e.critical = "cap" /\ e.turn = "worker" /\ Reached(e) /\ ~runtimeError)
    /\ lastSeen' = [a \in Actions |->
                       IF a <= e.proposed THEN 0 ELSE Older(lastSeen[a], dt, Window)]
    /\ forgotten' = {a \in forgotten : a > e.proposed}

Tick ==
    \E dt \in 1..MaxStep, e \in Evidence :
        /\ Possible(e)
        /\ Stabilize(e.proposed, dt)
        /\ Probation(e)
        /\ Apply(e, dt)
        /\ Save
        /\ Remember(e, dt)
        /\ beat' = ~beat

(* The daemon ends and is started again: what was saved is held. *)
Restart ==
    /\ faults.crash < MaxCrashes
    /\ faults' = [faults EXCEPT !.crash = @ + 1]
    /\ held' = onDisk
    /\ forgotten' = forgotten \union {a \in Actions : onDisk < a /\ a <= held}
    /\ betterFor' = NoAge /\ target' = Allow
    /\ recoveryFor' = NoAge /\ criticalFor' = NoAge
    /\ sinceAction' \in {sinceAction, Reaction}
    /\ runtimeError' = FALSE
    /\ did' = "none" /\ due' = FALSE
    /\ UNCHANGED <<onDisk, probation, queued, beat, proposal, lastSeen>>

Next == Tick \/ Restart

Spec == Init /\ [][Next]_vars

(* run_daemon ticks for ever, and the service manager restarts it: a tick,  *)
(* which alone turns beat, is always possible and happens again and again.  *)
FairSpec == Spec /\ WF_beat(beat' = ~beat)

-----------------------------------------------------------------------------
(* Ages stay within their limits, and a window of recovery is open only for  *)
(* proposals milder than what is held.                                       *)
TypeOK ==
    /\ held \in Actions \union {NoAction} /\ onDisk \in Actions \union {NoAction}
    /\ betterFor \in NoAge..(Window - 1) /\ target \in Actions
    /\ betterFor # NoAge => target < held
    /\ recoveryFor \in NoAge..(2 * Reaction) /\ criticalFor \in NoAge..(2 * Reaction)
    /\ sinceAction \in 0..Reaction
    /\ probation \in BOOLEAN /\ queued \in BOOLEAN /\ runtimeError \in BOOLEAN
    /\ faults \in [write : 0..MaxWriteFails, file : 0..MaxFileFails, crash : 0..MaxCrashes]
    /\ did \in {"none", "app", "cli", "worker", "lead"}
    /\ beat \in BOOLEAN
    /\ proposal \in Actions
    /\ due \in BOOLEAN
    /\ lastSeen \in [Actions -> 0..Window]
    /\ forgotten \subseteq Actions

(* What is held is no milder than anything proposed within the window, over *)
(* every order of proposals and every restart; the exception is what a      *)
(* restart could not know because it had not been saved.                    *)
HeldCovers ==
    \A a \in Actions : a > held => a \in forgotten \/ lastSeen[a] >= Window

(* A change of the held action that is not on disk yet has its notice in the *)
(* queue, whose drain saves it: only a lost notice leaves it unsaved.        *)
ChangeSaved ==
    held # onDisk =>
        queued \/ faults.file > 0 \/ (onDisk = NoAction /\ held = Allow)

(* No paused process of a CLI is resumed while a reason to hold new work is  *)
(* younger than the window, though the recovery window is started by a       *)
(* recovery of the App alone.                                                *)
ResumeAfterCalm ==
    did = "cli" => Hold \in forgotten \/ lastSeen[Hold] >= Window

(* New work is admitted again once nothing worse than Observe is proposed,   *)
(* however the proposals alternate: else "the hold outlives every            *)
(* measurement" (stabilize_assessment).                                      *)
Reopens == <>[](proposal <= Observe) => <>[](held <= Observe)

(* Above the hard cap a growing worker is paused.                            *)
CapEnforced == <>[]due => []<>(did = "worker")

=============================================================================
