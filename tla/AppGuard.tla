------------------------------ MODULE AppGuard ------------------------------
(***************************************************************************)
(* The last resort brake on the shared Codex App Server.                   *)
(*                                                                         *)
(* The daemon may not stop the App Server itself: while it is stopped, no  *)
(* hook of the App answers.  It records the pause, starts a guard (a       *)
(* process outside its own lifetime), and gives the guard a token.  The    *)
(* guard sends both the pause and, after a delay, the resume.  The token   *)
(* is a file that is renamed: armed by the guard, committed by the daemon, *)
(* signalling by the guard, suspended when the signal is sent.  Whoever    *)
(* renames it first has it: the daemon and the owner may still take a      *)
(* committed token back.  Either process may die at any step.              *)
(*                                                                         *)
(* An episode is one attempt: one guard, one token, one incident.  Only    *)
(* one server process is modelled; what becomes of a reused PID is the     *)
(* subject of PauseLedger.                                                 *)
(***************************************************************************)
EXTENDS Naturals, FiniteSets

CONSTANTS
    MaxEpisodes,     \* bound: pauses attempted
    MaxRequests,     \* bound: requests of the owner
    MaxWriteFails,   \* bound: failed writes of runtime.json
    MaxFileFails,    \* bound: guard files that cannot be written or renamed
    MaxSignalFails,  \* bound: signals the system refuses
    MaxCrashes,      \* bound: crashes of the daemon
    MaxDeaths,       \* bound: guards that die
    MaxFaults        \* bound: all of these together

ASSUME GuardAssumption ==
    /\ MaxEpisodes \in Nat
    /\ MaxRequests \in Nat
    /\ MaxWriteFails \in Nat
    /\ MaxFileFails \in Nat
    /\ MaxSignalFails \in Nat
    /\ MaxCrashes \in Nat
    /\ MaxDeaths \in Nat
    /\ MaxFaults \in Nat

VARIABLES
    server,        \* the process of the App Server
    ledger,        \* the daemon's ledger, as far as the server is concerned
    disk,          \* runtime.json
    runtimeError,  \* Supervisor.runtime_error is set
    pc,            \* the next step of the daemon
    seen,          \* the server, and a second server, in the tick's listing
    assess,        \* the tick's assessment
    inflight,      \* reconcile_stopped's guard_committed_inflight
    dirty,         \* reconcile_stopped's `changed`
    previous,      \* the ledger a cancelled pause goes back to
    op,            \* the owner's request in hand
    request,       \* the request in the control queue
    files,         \* the phase files of each episode
    guard,         \* the next step of each episode's guard
    episodes,      \* the number of pauses attempted
    faults,        \* faults injected and requests made so far
    lost           \* history: episodes whose pause the daemon gave up too early

daemonVars == <<ledger, runtimeError, pc, seen, assess, inflight, dirty, previous, op>>
guardVars == <<files, guard>>
vars == <<server, ledger, disk, runtimeError, pc, seen, assess, inflight, dirty,
          previous, op, request, files, guard, episodes, faults, lost>>

-----------------------------------------------------------------------------
Episodes == 1..MaxEpisodes
OpenPhases == {"prepared", "committed", "active"}
Ledgers == [stopped : BOOLEAN,                    \* the server is in `stopped`
            episode : 0..MaxEpisodes,             \* its latest incident
            phase : OpenPhases \union {"closed"},  \* open means status suspended
            pending : 0..MaxEpisodes,             \* pending_physical
            control : {"none", "resume", "kill"}, \* pending_control
            cooldown : BOOLEAN]                   \* the server is in resume_cooldown
Tokens == {"armed", "committed", "signalling"}
Receipts == {"suspended", "resumed", "completed", "error", "cancelled", "expired"}

EmptyLedger == [stopped |-> FALSE, episode |-> 0, phase |-> "closed", pending |-> 0,
                control |-> "none", cooldown |-> FALSE]
NoOp == [what |-> "none", cancelled |-> FALSE]

(* RuntimeLedger::validate, as far as these fields go. *)
Loadable(l) == l.pending # 0 \/ l.control # "none" => l.stopped

(* transition_incident of the open incident. *)
Closed(l) == [l EXCEPT !.stopped = FALSE, !.phase = "closed"]

FaultsLeft ==
    faults.write + faults.file + faults.signal + faults.crash + faults.death < MaxFaults

(* suspend_process and resume_process. *)
Delivered(state) ==
    /\ server # "gone"
    /\ server' = state
    /\ UNCHANGED faults

Refused ==
    /\ UNCHANGED server
    /\ IF server # "gone"
         THEN /\ faults.signal < MaxSignalFails /\ FaultsLeft
              /\ faults' = [faults EXCEPT !.signal = @ + 1]
         ELSE UNCHANGED faults

Saved(l) ==
    /\ ~runtimeError
    /\ ledger' = l
    /\ disk' = l
    /\ UNCHANGED faults

NotSaved(l) ==
    /\ ledger' = l
    /\ UNCHANGED disk
    /\ IF runtimeError
         THEN UNCHANGED faults
         ELSE /\ faults.write < MaxWriteFails /\ FaultsLeft
              /\ faults' = [faults EXCEPT !.write = @ + 1]

(* A phase file is written, or renamed: the old one is gone with the same step. *)
Put(e, phase) == files' = [files EXCEPT ![e] = @ \union {phase}]
Move(e, from, to) == files' = [files EXCEPT ![e] = (@ \ {from}) \union {to}]

FileFails ==
    /\ faults.file < MaxFileFails /\ FaultsLeft
    /\ faults' = [faults EXCEPT !.file = @ + 1]

Dead(e) == guard[e] \in {"exit", "dead"}

Init ==
    /\ server = "run"
    /\ ledger = EmptyLedger
    /\ disk = EmptyLedger
    /\ runtimeError = FALSE
    /\ pc = "idle"
    /\ seen = [server |-> FALSE, other |-> FALSE]
    /\ assess = "hold"
    /\ inflight = FALSE
    /\ dirty = FALSE
    /\ previous = EmptyLedger
    /\ op = NoOp
    /\ request = "none"
    /\ files = [e \in Episodes |-> {}]
    /\ guard = [e \in Episodes |-> "none"]
    /\ episodes = 0
    /\ faults = [write |-> 0, file |-> 0, signal |-> 0, crash |-> 0, death |-> 0,
                 request |-> 0]
    /\ lost = {}

-----------------------------------------------------------------------------
(* The guard: run_resume_guard.                                            *)

(* matching_pause_state *)
Matching(e) == disk.stopped /\ disk.episode = e /\ disk.phase \in OpenPhases

GuardGoes(e, step) == guard' = [guard EXCEPT ![e] = step]
GuardOnly == UNCHANGED <<daemonVars, disk, request, episodes, lost>>

GuardStart(e) ==
    /\ guard[e] = "start"
    /\ GuardGoes(e, IF Matching(e) /\ server # "gone" THEN "arm" ELSE "exit")
    /\ UNCHANGED <<server, files, faults>> /\ GuardOnly

GuardArm(e) ==
    /\ guard[e] = "arm"
    /\ \/ Put(e, "armed") /\ GuardGoes(e, "wait") /\ UNCHANGED faults
       \/ FileFails /\ GuardGoes(e, "exit") /\ UNCHANGED files
    /\ UNCHANGED server /\ GuardOnly

GuardSeesToken(e) ==
    /\ guard[e] = "wait"
    /\ "committed" \in files[e]
    /\ GuardGoes(e, "check")
    /\ UNCHANGED <<server, files, faults>> /\ GuardOnly

GuardSeesEnd(e) ==
    /\ guard[e] = "wait"
    /\ "committed" \notin files[e]
    /\ files[e] \intersect {"cancelled", "expired", "error", "completed"} # {}
    /\ GuardGoes(e, "exit")
    /\ UNCHANGED <<server, files, faults>> /\ GuardOnly

(* The episode was revoked, or 20 s have passed. *)
GuardGivesUp(e) ==
    /\ guard[e] = "wait"
    /\ "armed" \in files[e]
    /\ Move(e, "armed", IF Matching(e) THEN "expired" ELSE "cancelled")
    /\ GuardGoes(e, "exit")
    /\ UNCHANGED <<server, faults>> /\ GuardOnly

GuardCheck(e) ==
    /\ guard[e] = "check"
    /\ IF Matching(e) /\ server # "gone"
         THEN GuardGoes(e, "claim") /\ UNCHANGED files
         ELSE /\ IF "committed" \in files[e]
                   THEN Move(e, "committed", "cancelled")
                   ELSE UNCHANGED files
              /\ GuardGoes(e, "exit")
    /\ UNCHANGED <<server, faults>> /\ GuardOnly

GuardClaim(e) ==
    /\ guard[e] = "claim"
    /\ IF "committed" \in files[e]
         THEN Move(e, "committed", "signalling") /\ GuardGoes(e, "signal")
         ELSE GuardGoes(e, "exit") /\ UNCHANGED files
    /\ UNCHANGED <<server, faults>> /\ GuardOnly

GuardSignal(e) ==
    /\ guard[e] = "signal"
    /\ \/ Delivered("stop") /\ GuardGoes(e, "ack") /\ UNCHANGED files
       \/ /\ Refused
          /\ Move(e, "signalling", "error") \/ UNCHANGED files
          /\ GuardGoes(e, "exit")
    /\ GuardOnly

GuardAck(e) ==
    /\ guard[e] = "ack"
    /\ \/ /\ Move(e, "signalling", "suspended")
          /\ GuardGoes(e, "sleep")
          /\ UNCHANGED faults
       \/ FileFails /\ GuardGoes(e, "undo") /\ UNCHANGED files
    /\ UNCHANGED server /\ GuardOnly

(* An acknowledgement that cannot be made durable is taken back.  What failed *)
(* once may fail again: no last file of a guard is certain.                   *)
GuardUndo(e) ==
    /\ guard[e] = "undo"
    /\ Delivered("run") \/ Refused
    /\ Move(e, "signalling", "error") \/ UNCHANGED files
    /\ GuardGoes(e, "exit")
    /\ GuardOnly

(* Mutant: leaves a pause alone that was recorded but never confirmed. *)
GuardWakeConfirmed(e) ==
    /\ guard[e] = "sleep"
    /\ IF Matching(e) /\ disk.phase = "active" /\ server # "gone"
         THEN GuardGoes(e, "release") /\ UNCHANGED files
         ELSE GuardGoes(e, "exit") /\ (Put(e, "completed") \/ UNCHANGED files)
    /\ UNCHANGED <<server, faults>> /\ GuardOnly

(* The delay is over: whether the episode is still its own is read once. *)
GuardWake(e) ==
    /\ guard[e] = "sleep"
    /\ IF Matching(e) /\ server # "gone"
         THEN GuardGoes(e, "release") /\ UNCHANGED files
         ELSE GuardGoes(e, "exit") /\ (Put(e, "completed") \/ UNCHANGED files)
    /\ UNCHANGED <<server, faults>> /\ GuardOnly

GuardRelease(e) ==
    /\ guard[e] = "release"
    /\ \/ Delivered("run") /\ (Put(e, "resumed") \/ UNCHANGED files)
       \/ Refused /\ (Put(e, "error") \/ UNCHANGED files)
    /\ GuardGoes(e, "exit")
    /\ GuardOnly

GuardDies(e) ==
    /\ guard[e] # "none" /\ ~Dead(e)
    /\ faults.death < MaxDeaths /\ FaultsLeft
    /\ faults' = [faults EXCEPT !.death = @ + 1]
    /\ GuardGoes(e, "dead")
    /\ UNCHANGED <<server, files>> /\ GuardOnly

-----------------------------------------------------------------------------
(* The daemon: the start of a tick and reconcile_stopped.                  *)

Goes(step) == pc' = step

TickStart ==
    /\ pc = "idle"
    /\ \E a \in {"safe", "hold", "collapse"}, other \in BOOLEAN :
         /\ runtimeError \/ ledger.control # "none" => a # "safe"
         /\ assess' = a
         /\ seen' = [server |-> server # "gone", other |-> other]
    /\ Goes(IF ledger.stopped THEN "look" ELSE "finish")
    /\ UNCHANGED <<server, ledger, disk, runtimeError, inflight, dirty, previous, op,
                   request, guardVars, episodes, faults, lost>>

(* Mutant: does not ask who holds the token. *)
InFlightNever == FALSE

(* guard_committed_inflight: the token is out and its holder is alive. *)
InFlight ==
    /\ ledger.pending # 0
    /\ files[ledger.pending] \intersect {"committed", "signalling"} # {}
    /\ files[ledger.pending] \intersect Receipts = {}
    /\ ~Dead(ledger.pending)

(* The files are read before the state of the process is. *)
ReconcileLook ==
    /\ pc = "look"
    /\ inflight' = InFlight
    /\ Goes("act")
    /\ UNCHANGED <<server, ledger, disk, runtimeError, seen, assess, dirty,
                   previous, op, request, guardVars, episodes, faults, lost>>

Acts(l, changed) ==
    /\ ledger' = l
    /\ dirty' = (dirty \/ changed)
    /\ inflight' = FALSE
    /\ Goes("finish")
    /\ UNCHANGED <<disk, runtimeError, seen, assess, previous, op, request,
                   guardVars, episodes, lost>>

(* A second App Server means the paused one has been replaced. *)
Replaced == seen.server /\ seen.other /\ ~inflight /\ ledger.phase \in OpenPhases

ReconcileReplaced ==
    /\ pc = "act"
    /\ Replaced
    /\ Delivered("run")
    /\ Acts([Closed(ledger) EXCEPT !.cooldown = TRUE, !.pending = 0], TRUE)

ReconcileReplaceRefused ==
    /\ pc = "act"
    /\ Replaced
    /\ Refused
    /\ seen' = [seen EXCEPT !.other = FALSE]
    /\ UNCHANGED <<ledger, disk, runtimeError, pc, assess, inflight, dirty, previous,
                   op, request, guardVars, episodes, lost>>

ReconcileGone ==
    /\ pc = "act"
    /\ ~seen.server
    /\ Acts([Closed(ledger) EXCEPT !.pending = 0, !.control = "none"], TRUE)
    /\ UNCHANGED <<server, faults>>

(* Mutant: waits for the guard's error only. *)
RecoveryLostByErrorOnly ==
    ledger.pending # 0 /\ "error" \in files[ledger.pending]

(* guard_recovery_lost: the guard failed, or ended with the token. *)
RecoveryLost ==
    /\ ledger.pending # 0
    /\ \/ "error" \in files[ledger.pending]
       \/ /\ files[ledger.pending] \intersect {"committed", "signalling", "suspended"} # {}
          /\ Dead(ledger.pending)

Settling == pc = "act" /\ seen.server /\ ~Replaced

TakeOver ==
    /\ Settling
    /\ server = "stop"
    /\ RecoveryLost
    /\ \/ /\ Delivered("run")
          /\ Acts([Closed(ledger) EXCEPT !.cooldown = TRUE, !.pending = 0], TRUE)
       \/ Refused /\ Acts(ledger, FALSE)

(* The token is out: clearing the episode could let an old guard pause the *)
(* server after a newer decision.                                          *)
ReconcileInFlight ==
    /\ Settling
    /\ server = "run"
    /\ inflight
    /\ Acts(ledger, FALSE)
    /\ UNCHANGED <<server, faults>>

Confirmed(e) == files[e] \intersect {"suspended", "resumed"} # {}

ReconcileUncommitted ==
    /\ Settling
    /\ server = "run"
    /\ ~inflight
    /\ ledger.pending # 0
    /\ ~Confirmed(ledger.pending)
    /\ Acts([Closed(ledger) EXCEPT !.pending = 0], TRUE)
    /\ UNCHANGED <<server, faults>>

ReconcileResumed ==
    /\ Settling
    /\ server = "run"
    /\ ~inflight
    /\ ledger.pending # 0 => Confirmed(ledger.pending)
    /\ Acts([Closed(ledger) EXCEPT !.cooldown = TRUE, !.pending = 0,
                                   !.control = "none"], TRUE)
    /\ UNCHANGED <<server, faults>>

ReconcileActive ==
    /\ Settling
    /\ server = "stop"
    /\ ~RecoveryLost
    /\ IF ledger.pending # 0
         THEN Acts([ledger EXCEPT !.pending = 0, !.phase = "active"], TRUE)
         ELSE Acts(ledger, FALSE)
    /\ UNCHANGED <<server, faults>>

(* Listed, but gone by the time its state is read. *)
ReconcileMissing ==
    /\ pc = "act"
    /\ seen.server
    /\ server = "gone"
    /\ Acts(ledger, FALSE)
    /\ UNCHANGED <<server, faults>>

ReconcileFinish ==
    /\ pc = "finish"
    /\ \E cooldown \in {ledger.cooldown, FALSE} :
         LET l == [ledger EXCEPT !.cooldown = cooldown]
             changed == dirty \/ l # ledger
         IN  \/ ~changed /\ UNCHANGED <<ledger, disk, faults, runtimeError>>
             \/ changed /\ Saved(l) /\ UNCHANGED runtimeError
             \/ changed /\ NotSaved(l) /\ runtimeError' = TRUE
    /\ dirty' = FALSE
    /\ Goes("control")
    /\ UNCHANGED <<server, seen, assess, inflight, previous, op, request,
                   guardVars, episodes, lost>>

-----------------------------------------------------------------------------
(* process_control_requests.                                               *)

Token == IF ledger.pending = 0 THEN {} ELSE files[ledger.pending] \intersect Tokens

(* Mutant: takes the token although its holder is alive. *)
TakeableAlways == Token \intersect {"committed", "signalling"}

(* The owner may take a committed token, or one whose holder is dead. *)
Takeable ==
    IF "committed" \in Token THEN {"committed"}
    ELSE {t \in Token : t = "signalling" /\ Dead(ledger.pending)}

Admissible ==
    /\ ~runtimeError
    /\ ledger.stopped
    /\ seen.server
    /\ Token \intersect {"committed", "signalling"} # {} => Takeable # {}

ControlRefuse ==
    /\ pc = "control"
    /\ request # "none"
    /\ ~Admissible
    /\ request' = "none"
    /\ UNCHANGED <<server, disk, daemonVars, guardVars, episodes, faults, lost>>

ControlTakeToken ==
    /\ pc = "control"
    /\ request # "none"
    /\ Admissible
    /\ IF Takeable = {}
         THEN UNCHANGED files
         ELSE \E t \in Takeable : Move(ledger.pending, t, "cancelled")
    /\ op' = [what |-> request, cancelled |-> Takeable # {}]
    /\ Goes("ctl_intent")
    /\ UNCHANGED <<server, ledger, disk, runtimeError, seen, assess, inflight, dirty,
                   previous, request, guard, episodes, faults, lost>>

ControlIntent ==
    /\ pc = "ctl_intent"
    /\ LET l == [ledger EXCEPT !.control = op.what]
           sending == Goes("ctl_signal") /\ UNCHANGED <<op, request>>
           refusing == Goes("control") /\ op' = NoOp /\ request' = "none"
       IN  \/ /\ ledger.control = op.what
              /\ sending
              /\ UNCHANGED <<ledger, disk, faults>>
           \/ ledger.control = "none" /\ Saved(l) /\ sending
           \/ ledger.control = "none" /\ NotSaved(ledger) /\ refusing
           \/ /\ ledger.control \notin {"none", op.what}
              /\ refusing
              /\ UNCHANGED <<ledger, disk, faults>>
    /\ UNCHANGED <<server, runtimeError, seen, assess, inflight, dirty, previous,
                   guardVars, episodes, lost>>

ControlSignal ==
    /\ pc = "ctl_signal"
    /\ \/ /\ Delivered(IF op.what = "resume" THEN "run" ELSE "gone")
          /\ Goes("ctl_commit")
          /\ UNCHANGED <<op, request>>
       \/ /\ Refused
          /\ Goes("control")
          /\ op' = NoOp
          /\ request' = "none"
    /\ UNCHANGED <<ledger, disk, runtimeError, seen, assess, inflight, dirty,
                   previous, guardVars, episodes, lost>>

(* A resume that came before the pause starts no cooldown. *)
ControlCommit ==
    /\ pc = "ctl_commit"
    /\ LET l == [Closed(ledger) EXCEPT
                   !.control = "none", !.pending = 0,
                   !.cooldown = @ \/ (op.what = "resume" /\ ~op.cancelled)]
       IN  \/ Saved(l) /\ UNCHANGED runtimeError
           \/ NotSaved(l) /\ runtimeError' = TRUE
    /\ op' = NoOp
    /\ request' = "none"
    /\ Goes("control")
    /\ UNCHANGED <<server, seen, assess, inflight, dirty, previous, guardVars,
                   episodes, lost>>

ControlDone ==
    /\ pc = "control"
    /\ request = "none"
    /\ Goes("pressure")
    /\ UNCHANGED <<server, ledger, disk, runtimeError, seen, assess, inflight, dirty,
                   previous, op, request, guardVars, episodes, faults, lost>>

-----------------------------------------------------------------------------
(* apply_pressure_actions resumes, apply_codex_app_blind_backstop pauses.  *)

(* Mutant: only a pause still waiting for its receipt is recovered. *)
RecoverableUnconfirmed == ledger.stopped /\ ledger.phase = "committed"

Recoverable == ledger.stopped /\ ledger.phase \in OpenPhases

Recover ==
    /\ pc = "pressure"
    /\ assess = "safe"
    /\ Recoverable
    /\ Delivered("run")
    /\ Goes("rec_commit")
    /\ UNCHANGED <<ledger, disk, runtimeError, seen, assess, inflight, dirty, previous,
                   op, request, guardVars, episodes, lost>>

(* pending_physical is left as it is. *)
RecoverCommit ==
    /\ pc = "rec_commit"
    /\ LET l == Closed(ledger)
       IN  \/ Saved(l) /\ UNCHANGED runtimeError
           \/ NotSaved(l) /\ runtimeError' = TRUE
    /\ lost' = lost \union {e \in {ledger.episode} : InFlight \/ server = "stop"}
    /\ Goes("idle")
    /\ UNCHANGED <<server, seen, assess, inflight, dirty, previous, op, request,
                   guardVars, episodes>>

PressureIdle ==
    /\ pc = "pressure"
    /\ Goes("idle")
    /\ UNCHANGED <<server, ledger, disk, runtimeError, seen, assess, inflight, dirty,
                   previous, op, request, guardVars, episodes, faults, lost>>

(* suspend_codex_app_last_resort: nothing is started before the record of it *)
(* is on disk.                                                               *)
Prepare ==
    /\ pc = "pressure"
    /\ assess = "collapse"
    /\ ~runtimeError
    /\ ledger.pending = 0
    /\ ~ledger.stopped
    /\ ~ledger.cooldown
    /\ server # "gone"
    /\ episodes < MaxEpisodes
    /\ episodes' = episodes + 1
    /\ LET l == [ledger EXCEPT !.stopped = TRUE, !.episode = episodes',
                               !.phase = "prepared", !.pending = episodes']
       IN  \/ Saved(l) /\ previous' = ledger /\ Goes("launch")
           \/ NotSaved(ledger) /\ UNCHANGED previous /\ Goes("idle")
    /\ UNCHANGED <<server, runtimeError, seen, assess, inflight, dirty, op, request,
                   guardVars, lost>>

(* The server is looked at again, the notice queued, the guard started; any *)
(* of them may fail.                                                        *)
Launch ==
    /\ pc = "launch"
    /\ \/ server # "gone" /\ GuardGoes(ledger.episode, "start") /\ Goes("wait_armed")
       \/ UNCHANGED guard /\ Goes("cancel")
    /\ UNCHANGED <<server, ledger, disk, runtimeError, seen, assess, inflight, dirty,
                   previous, op, request, files, episodes, faults, lost>>

(* 10 s may pass at any time. *)
WaitArmed ==
    /\ pc = "wait_armed"
    /\ Goes(IF "armed" \in files[ledger.episode] THEN "commit" ELSE "cancel")
    /\ UNCHANGED <<server, ledger, disk, runtimeError, seen, assess, inflight, dirty,
                   previous, op, request, guardVars, episodes, faults, lost>>

Commit ==
    /\ pc = "commit"
    /\ IF server # "gone" /\ "armed" \in files[ledger.episode]
         THEN Move(ledger.episode, "armed", "committed") /\ Goes("wait_suspended")
         ELSE Goes("cancel") /\ UNCHANGED files
    /\ UNCHANGED <<server, ledger, disk, runtimeError, seen, assess, inflight, dirty,
                   previous, op, request, guard, episodes, faults, lost>>

(* Mutant: gives up when no answer has come in time. *)
WaitSuspendedCancels ==
    /\ pc = "wait_suspended"
    /\ Goes(IF "suspended" \in files[ledger.episode] THEN "activate" ELSE "cancel")
    /\ UNCHANGED <<server, ledger, disk, runtimeError, seen, assess, inflight, dirty,
                   previous, op, request, guardVars, episodes, faults, lost>>

(* After 5 s without an answer the pause stays committed: it is the guard's. *)
WaitSuspended ==
    /\ pc = "wait_suspended"
    /\ Goes(CASE "suspended" \in files[ledger.episode] -> "activate"
              [] files[ledger.episode] \intersect {"error", "cancelled", "expired"} # {}
                   -> "cancel"
              [] OTHER -> "unconfirmed")
    /\ UNCHANGED <<server, ledger, disk, runtimeError, seen, assess, inflight, dirty,
                   previous, op, request, guardVars, episodes, faults, lost>>

Unconfirmed ==
    /\ pc = "unconfirmed"
    /\ LET l == [ledger EXCEPT !.phase = "committed"]
       IN  \/ Saved(l) /\ UNCHANGED runtimeError
           \/ NotSaved(l) /\ runtimeError' = TRUE
    /\ previous' = EmptyLedger
    /\ Goes("idle")
    /\ UNCHANGED <<server, seen, assess, inflight, dirty, op, request,
                   guardVars, episodes, lost>>

Activate ==
    /\ pc = "activate"
    /\ LET l == [ledger EXCEPT !.phase = "active", !.pending = 0]
       IN  \/ Saved(l) /\ previous' = EmptyLedger /\ Goes("idle")
           \/ NotSaved(l) /\ UNCHANGED previous /\ Goes("undo")
    /\ UNCHANGED <<server, runtimeError, seen, assess, inflight, dirty, op,
                   request, guardVars, episodes, lost>>

ActivateUndo ==
    /\ pc = "undo"
    /\ \/ /\ Delivered("run")
          /\ Goes("cancel")
          /\ UNCHANGED <<runtimeError, previous>>
       \/ /\ Refused
          /\ Goes("idle")
          /\ runtimeError' = TRUE
          /\ previous' = EmptyLedger
    /\ UNCHANGED <<ledger, disk, seen, assess, inflight, dirty, op, request,
                   guardVars, episodes, lost>>

(* cancel_codex_app_pause: "no process remains paused by this attempt". *)
Cancel ==
    /\ pc = "cancel"
    /\ \/ Saved(previous) /\ UNCHANGED runtimeError
       \/ NotSaved(previous) /\ runtimeError' = TRUE
    /\ lost' = lost \union {e \in {ledger.episode} : server = "stop"}
    /\ previous' = EmptyLedger
    /\ Goes("idle")
    /\ UNCHANGED <<server, seen, assess, inflight, dirty, op, request,
                   guardVars, episodes>>

-----------------------------------------------------------------------------
(* The end of the daemon, the server and the owner.                        *)

Crash ==
    /\ pc # "down"
    /\ faults.crash < MaxCrashes /\ FaultsLeft
    /\ faults' = [faults EXCEPT !.crash = @ + 1]
    /\ pc' = "down"
    /\ ledger' = EmptyLedger
    /\ runtimeError' = FALSE
    /\ seen' = [server |-> FALSE, other |-> FALSE]
    /\ assess' = "hold"
    /\ inflight' = FALSE
    /\ dirty' = FALSE
    /\ previous' = EmptyLedger
    /\ op' = NoOp
    /\ UNCHANGED <<server, disk, request, guardVars, episodes, lost>>

Restart ==
    /\ pc = "down"
    /\ IF Loadable(disk)
         THEN /\ ledger' = disk
              /\ UNCHANGED <<runtimeError, lost>>
         ELSE /\ runtimeError' = TRUE
              /\ lost' = lost \union Episodes
              /\ UNCHANGED ledger
    /\ Goes("idle")
    /\ UNCHANGED <<server, disk, seen, assess, inflight, dirty, previous, op, request,
                   guardVars, episodes, faults>>

ServerExits ==
    /\ server # "gone"
    /\ server' = "gone"
    /\ UNCHANGED <<daemonVars, disk, request, guardVars, episodes, faults, lost>>

ExternalResume ==
    /\ server = "stop"
    /\ server' = "run"
    /\ UNCHANGED <<daemonVars, disk, request, guardVars, episodes, faults, lost>>

Submit ==
    /\ request = "none"
    /\ pc \in {"idle", "down"}
    /\ faults.request < MaxRequests
    /\ faults' = [faults EXCEPT !.request = @ + 1]
    /\ request' \in {"resume", "kill"}
    /\ UNCHANGED <<server, disk, daemonVars, guardVars, episodes, lost>>

-----------------------------------------------------------------------------
GuardStep(e) ==
    \/ GuardStart(e) \/ GuardArm(e) \/ GuardSeesToken(e) \/ GuardSeesEnd(e)
    \/ GuardGivesUp(e) \/ GuardCheck(e) \/ GuardClaim(e) \/ GuardSignal(e)
    \/ GuardAck(e) \/ GuardUndo(e) \/ GuardWake(e) \/ GuardRelease(e)

Reconcile ==
    \/ ReconcileLook \/ ReconcileReplaced \/ ReconcileReplaceRefused
    \/ ReconcileGone \/ TakeOver \/ ReconcileInFlight \/ ReconcileUncommitted
    \/ ReconcileResumed \/ ReconcileActive \/ ReconcileMissing \/ ReconcileFinish

Control ==
    \/ ControlRefuse \/ ControlTakeToken \/ ControlIntent \/ ControlSignal
    \/ ControlCommit \/ ControlDone

Pressure == Recover \/ RecoverCommit \/ PressureIdle

LastResort ==
    \/ Prepare \/ Launch \/ WaitArmed \/ Commit \/ WaitSuspended \/ Unconfirmed
    \/ Activate \/ ActivateUndo \/ Cancel

Daemon == TickStart \/ Reconcile \/ Control \/ Pressure \/ LastResort

Environment ==
    \/ ServerExits \/ ExternalResume \/ Submit \/ \E e \in Episodes : GuardDies(e)

Next == Daemon \/ Crash \/ Restart \/ (\E e \in Episodes : GuardStep(e)) \/ Environment

Spec == Init /\ [][Next]_vars

(* The guards run without the daemon; the daemon ticks and is restarted.  A *)
(* recovery needs a calm tick and its window, which no calm tick resets.    *)
Fairness ==
    /\ \A e \in Episodes : WF_vars(GuardStep(e))
    /\ WF_vars(Daemon)
    /\ WF_vars(Restart)
    /\ SF_vars(Recover)

FairSpec == Spec /\ Fairness

-----------------------------------------------------------------------------
Steps == {"idle", "look", "act", "finish", "control", "ctl_intent", "ctl_signal",
          "ctl_commit", "pressure", "rec_commit", "launch", "wait_armed", "commit",
          "wait_suspended", "unconfirmed", "activate", "undo", "cancel", "down"}
GuardSteps == {"none", "start", "arm", "wait", "check", "claim", "signal", "ack",
               "undo", "sleep", "release", "exit", "dead"}

(* The ledgers are well formed, and the token of an episode is one file at a *)
(* time: every rename of it takes it from the one who had it before.         *)
TypeOK ==
    /\ server \in {"run", "stop", "gone"}
    /\ ledger \in Ledgers /\ disk \in Ledgers /\ previous \in Ledgers
    /\ runtimeError \in BOOLEAN /\ inflight \in BOOLEAN /\ dirty \in BOOLEAN
    /\ pc \in Steps
    /\ seen \in [server : BOOLEAN, other : BOOLEAN]
    /\ assess \in {"safe", "hold", "collapse"}
    /\ op \in [what : {"none", "resume", "kill"}, cancelled : BOOLEAN]
    /\ request \in {"none", "resume", "kill"}
    /\ files \in [Episodes -> SUBSET (Tokens \union Receipts)]
    /\ \A e \in Episodes :
         Cardinality(files[e] \intersect (Tokens \union {"suspended"})) <= 1
    /\ guard \in [Episodes -> GuardSteps]
    /\ episodes \in 0..MaxEpisodes
    /\ lost \subseteq Episodes

(* While a guard may send the pause, the episode is recorded on disk as its *)
(* own: the daemon neither forgets it nor begins another, whatever crashes, *)
(* fails or is resumed meanwhile.  The exception are the episodes in `lost` *)
(* and the ones begun after them: the server a lost pause has left stopped  *)
(* is taken for a paused one, and its episode closed once it is resumed.    *)
AuthorityHeld ==
    \A e \in DOMAIN guard :
        lost \intersect 1..e = {} /\ guard[e] = "signal" /\ server # "gone" => Matching(e)

(* A token that was cancelled is never used: after the daemon or the owner  *)
(* has taken it back, its guard does not stop the server.                   *)
CancelledUnused ==
    \A e \in DOMAIN guard :
        guard[e] = "signal" /\ guard'[e] = "ack" => "cancelled" \notin files[e]

CancelFinal == [][CancelledUnused]_vars

(* While the daemon runs, a stopped server is in its `stopped` table or the *)
(* daemon is taking its pause back.  The exceptions are in `lost`: an       *)
(* episode closed while its token was out, one cancelled although the       *)
(* guard's own release was refused, and an unreadable runtime.json.         *)
StoppedOwned ==
    pc # "down" /\ server = "stop" => ledger.stopped \/ lost # {}

(* The guard alone sees to it that the server it stopped runs again: the    *)
(* daemon may be down for ever.  It tries once; it leaves a later pause     *)
(* alone (app_guard.rs, the delay and the resume).                          *)
GuardFrees ==
    \A e \in Episodes :
        guard[e] = "sleep" ~>
            \/ server # "stop" \/ guard[e] = "dead" \/ faults.signal > 0
            \/ disk.episode > e \/ lost # {}

(* When a tick finds that the guard of an unconfirmed pause has died, the   *)
(* daemon lets the server run, however bad the pressure is, and though the  *)
(* resume is refused or the daemon crashes (reconcile_stopped,              *)
(* guard_recovery_lost).  Only an owner's request that took the dead guard's *)
(* token and then failed hides that it has died.                            *)
TakenOver ==
    \A e \in Episodes :
        pc = "look" /\ ledger.pending = e /\ guard[e] = "dead" /\ server = "stop"
            ~> server # "stop" \/ "cancelled" \in files[e] \/ lost # {}

(* Once memory stays safe no server remains stopped, whoever has died.      *)
Freed == <>[](assess = "safe") => []<>(server # "stop" \/ lost # {})

(* An independent recovery guard resumes the exact server after a bounded   *)
(* delay, whatever the daemon does meanwhile.                               *)
GuardResumes ==
    \A e \in Episodes : guard[e] = "sleep" ~> server # "stop" \/ guard[e] = "dead"

=============================================================================
