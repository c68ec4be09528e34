---------------------------- MODULE PauseLedger ----------------------------
(***************************************************************************)
(* How the daemon of Calando owns the processes it pauses.                 *)
(*                                                                         *)
(* One resident daemon stops and continues processes with signals, and     *)
(* keeps in `ledger` (RuntimeLedger) which of them it holds and why.  The  *)
(* ledger is persisted to runtime.json, here `disk`, by an atomic          *)
(* replacement that may fail; a signal may be refused; the daemon may      *)
(* crash between any two of its external effects and is restarted from     *)
(* `disk`; processes exit, are continued by others, and their PIDs are     *)
(* reused, at any moment.  An action below is one external effect of a     *)
(* handler of `Supervisor::tick` with the ledger update that goes with it, *)
(* and `pc` says which one comes next.                                     *)
(***************************************************************************)
EXTENDS Naturals, Sequences, FiniteSets, FiniteSetsExt

CONSTANTS
    Pids,            \* the process numbers of the tracked AI CLI processes
    Leads,           \* those that are leads (the others are worker or support)
    MaxGen,          \* bound: how often one PID is given to a new process
    IncidentLimit,   \* the incidents a saved ledger keeps (128)
    MaxIncidents,    \* bound: no new pause once the ledger has that many incidents
    MaxRequests,     \* bound: owner requests waiting in the control queue
    MaxWriteFails,   \* bound: failed writes of runtime.json
    MaxSignalFails,  \* bound: signals the system refuses for a live process
    MaxFileFails,    \* bound: failed accesses to the request and result files
    MaxCrashes,      \* bound: crashes of the daemon
    MaxFaults,       \* bound: all of these together
    Unreadable,      \* PIDs whose start token a process listing may miss
    Ageing,          \* whether a day may pass
    ReuseMidTick,    \* whether a PID can be given away while a tick is running
    None,            \* no pending control, no probation
    Unverified       \* a listed process without a start token

ASSUME ConstantsAssumption ==
    /\ Leads \subseteq Pids
    /\ Unreadable \subseteq Pids
    /\ MaxGen \in Nat
    /\ IncidentLimit \in Nat
    /\ MaxIncidents \in Nat
    /\ MaxRequests \in Nat
    /\ MaxWriteFails \in Nat
    /\ MaxSignalFails \in Nat
    /\ MaxFileFails \in Nat
    /\ MaxCrashes \in Nat
    /\ MaxFaults \in Nat
    /\ Ageing \in BOOLEAN
    /\ ReuseMidTick \in BOOLEAN
    /\ Unverified \notin Nat

VARIABLES
    os,            \* the operating system's processes, by PID
    ledger,        \* Supervisor.ledger, in the daemon's memory
    disk,          \* runtime.json
    runtimeError,  \* Supervisor.runtime_error is set
    pc,            \* the next step of the daemon
    seen,          \* process_map: the identities listed at the start of the tick
    assess,        \* the tick's assessment
    op,            \* the identity a handler is acting on, and what for
    todo,          \* PIDs of `stopped` that reconcile_stopped has yet to visit
    dirty,         \* reconcile_stopped's `changed`
    acted,         \* tick's leak_action
    requests,      \* owner requests: the files in control/
    listed,        \* those this tick found there and has yet to process
    asked,         \* the request being processed, or processed last
    reply,         \* what became of its result file
    faults,        \* faults injected so far
    released,      \* history: identities an owner resumed, until their cooldown ends
    lost,          \* history: pauses whose ownership the daemon has dropped
    dropped        \* history: open incidents a save has dropped, and why

controlVars == <<requests, listed, asked, reply>>
daemonVars == <<ledger, runtimeError, pc, seen, assess, op, todo, dirty, acted,
                listed, asked, reply>>
vars == <<os, ledger, disk, runtimeError, pc, seen, assess, op, todo, dirty,
          acted, controlVars, faults, released, lost, dropped>>

-----------------------------------------------------------------------------
(* Identities, incidents and the ledger.                                   *)

Gens == Nat \ {0}
Ids == Pids \X Gens                  \* process_identity: PID and start token
PidOf(id) == id[1]

ControlActions == {"resume", "terminate", "kill"}
PressureReasons == {"pressure", "last-resort"}
PauseReasons == {"runaway"} \union PressureReasons
OpenStatus == {"suspended", "probation", "probation_failed"}
ClosedStatus == {"resumed", "terminated", "killed", "gone"}
Assessments == {"safe", "hold", "collapse"}

Incidents == [id : Ids, reason : PauseReasons \union {"recovered-runtime"},
              status : OpenStatus \union ClosedStatus, attempted : BOOLEAN,
              old : BOOLEAN]      \* not updated for over a day
Probations == [id : Ids, sent : BOOLEAN, status : {"monitoring", "failed"}]
PendingControls == [id : Ids, action : ControlActions]
Ledgers == [stopped : [Pids -> Nat], incidents : Seq(Incidents),
            pending : PendingControls \union {None},
            probation : Probations \union {None}, cooldown : SUBSET Ids]
Requests == [pid : Pids, action : ControlActions]

ASSUME NoneAssumption ==
    None \notin PendingControls \union Probations \union Ids \union Requests

EmptyLedger == [stopped |-> [p \in Pids |-> 0], incidents |-> <<>>,
                pending |-> None, probation |-> None, cooldown |-> {}]
NoOp == [id |-> None, what |-> "none"]

(* RuntimeLedger::validate, as far as these fields go. *)
Loadable(l) ==
    l.pending # None => l.stopped[PidOf(l.pending.id)] = l.pending.id[2]

Managed(l) == {p \in Pids : l.stopped[p] # 0}

MarkStopped(l, id) == [l EXCEPT !.stopped[PidOf(id)] = id[2]]
ClearStopped(l, id) == [l EXCEPT !.stopped[PidOf(id)] = 0]

(* Mutant: forgets that a probation is open too. *)
OpenAtSuspendedOnly(incidents, id) ==
    {k \in DOMAIN incidents : incidents[k].id = id
                              /\ incidents[k].status = "suspended"}

OpenAt(incidents, id) ==
    {k \in DOMAIN incidents : incidents[k].id = id
                              /\ incidents[k].status \in OpenStatus}

(* RuntimeLedger::transition_incident: the identity's latest open incident, *)
(* or a new one when it has none.                                          *)
Transition(l, id, status, attempted) ==
    LET open == OpenAt(l.incidents, id)
        last == l.incidents[Max(open)]
        fresh == [id |-> id, reason |-> "recovered-runtime",
                  status |-> status, attempted |-> attempted, old |-> FALSE]
        moved == [last EXCEPT !.status = status,
                              !.attempted = last.attempted \/ attempted,
                              !.old = FALSE]
    IN  [l EXCEPT !.incidents = IF open = {}
                                  THEN Append(l.incidents, fresh)
                                  ELSE [l.incidents EXCEPT ![Max(open)] = moved]]

HasProbation(l, id) == l.probation # None /\ l.probation.id = id
PendingFor(l, p) == l.pending # None /\ PidOf(l.pending.id) = p

-----------------------------------------------------------------------------
(* The two external effects: signals and the write of runtime.json.        *)

FaultsLeft ==
    faults.write + faults.signal + faults.file + faults.crash < MaxFaults

Alive(p) == os[p].state # "gone"
Live(id) == Alive(PidOf(id)) /\ os[PidOf(id)].gen = id[2]

Delivered(p, state) ==
    /\ Alive(p)
    /\ os' = [os EXCEPT ![p].state = state]
    /\ UNCHANGED <<faults, dropped>>

Refused(p) ==
    /\ UNCHANGED <<os, dropped>>
    /\ IF Alive(p)
         THEN /\ faults.signal < MaxSignalFails /\ FaultsLeft
              /\ faults' = [faults EXCEPT !.signal = @ + 1]
         ELSE UNCHANGED faults

(* What persist drops first: an incident that is not suspended goes after a  *)
(* day without news, then the oldest go that are over the limit.             *)
Recent(l) ==
    {k \in DOMAIN l.incidents :
       l.incidents[k].status = "suspended" \/ ~l.incidents[k].old}
Retained(l) ==
    {k \in Recent(l) : Cardinality({j \in Recent(l) : j > k}) < IncidentLimit}

(* The elements of a sequence at some of its positions, in their order. *)
Picked(s, positions) ==
    LET Nth(n) == CHOOSE k \in positions :
                    Cardinality({j \in positions : j <= k}) = n
    IN  [n \in 1..Cardinality(positions) |-> s[Nth(n)]]

Pruned(l) ==
    IF Retained(l) = DOMAIN l.incidents
      THEN l
      ELSE [l EXCEPT !.incidents = Picked(l.incidents, Retained(l))]

(* The identities whose open incident that takes away. *)
Dropped(l) ==
    {<<l.incidents[k].id, IF k \in Recent(l) THEN "limit" ELSE "age">> :
       k \in {j \in DOMAIN l.incidents \ Retained(l) :
                l.incidents[j].status \in OpenStatus}}

(* persist_runtime with `l` in memory, which is pruned whatever becomes of the *)
(* write; once runtime_error is set nothing is pruned or written any more.   *)
Saved(l) ==
    /\ ~runtimeError
    /\ ledger' = Pruned(l)
    /\ disk' = ledger'
    /\ dropped' = dropped \union Dropped(l)
    /\ UNCHANGED faults

WriteFails ==
    /\ faults.write < MaxWriteFails /\ FaultsLeft
    /\ faults' = [faults EXCEPT !.write = @ + 1]

NotSaved(l) ==
    /\ UNCHANGED disk
    /\ \/ /\ runtimeError
          /\ ledger' = l
          /\ UNCHANGED <<faults, dropped>>
       \/ /\ ~runtimeError
          /\ WriteFails
          /\ ledger' = Pruned(l)
          /\ dropped' = dropped \union Dropped(l)

(* The write failed and the handler puts its copy of the ledger back. *)
Restored ==
    /\ WriteFails
    /\ UNCHANGED <<ledger, disk, dropped>>

FileFails ==
    /\ faults.file < MaxFileFails /\ FaultsLeft
    /\ faults' = [faults EXCEPT !.file = @ + 1]

-----------------------------------------------------------------------------
(* The start of a tick and reconcile_stopped.                              *)

Init ==
    /\ os = [p \in Pids |-> [gen |-> 1, state |-> "run"]]
    /\ ledger = EmptyLedger
    /\ disk = EmptyLedger
    /\ runtimeError = FALSE
    /\ pc = "idle"
    /\ seen = [p \in Pids |-> 0]
    /\ assess = "hold"
    /\ op = NoOp
    /\ todo = {}
    /\ dirty = FALSE
    /\ acted = FALSE
    /\ requests = {}
    /\ listed = {}
    /\ asked = None
    /\ reply = "none"
    /\ faults = [write |-> 0, signal |-> 0, file |-> 0, crash |-> 0]
    /\ released = {}
    /\ lost = {}
    /\ dropped = {}

Degraded == runtimeError \/ ledger.pending # None

(* list_processes and the assessment: a degraded runtime is assessed Hold. *)
TickStart ==
    /\ pc = "idle"
    /\ \E a \in Assessments, blind \in SUBSET Unreadable :
         /\ Degraded => a # "safe"
         /\ assess' = a
         /\ seen' = [p \in Pids |->
                       CASE ~Alive(p) -> 0
                         [] Alive(p) /\ p \in blind -> Unverified
                         [] OTHER -> os[p].gen]
    /\ todo' = Managed(ledger)
    /\ dirty' = FALSE
    /\ acted' = FALSE
    /\ pc' = "reconcile"
    /\ UNCHANGED <<os, ledger, disk, runtimeError, op, controlVars, faults, dropped,
                   released, lost>>

Visit(p) ==
    /\ pc = "reconcile"
    /\ p \in todo
    /\ todo' = todo \ {p}
    /\ UNCHANGED <<os, disk, pc, seen, assess, op, acted, controlVars, faults, dropped,
                   released, lost>>

ReconcileUnverified(p) ==
    /\ Visit(p)
    /\ seen[p] = Unverified
    /\ runtimeError' = TRUE
    /\ UNCHANGED <<ledger, dirty>>

(* What reconcile_stopped does to the ledger for an entry it closes. *)
Closed(l, p, status) ==
    LET id == <<p, l.stopped[p]>>
        unmarked == [ClearStopped(l, id) EXCEPT
                       !.probation = IF HasProbation(l, id) THEN None ELSE @,
                       !.pending = IF PendingFor(l, p) THEN None ELSE @]
    IN  Transition(unmarked, id, status, FALSE)

GoneStatus(p) ==
    IF ~PendingFor(ledger, p) THEN "gone"
    ELSE CASE ledger.pending.action = "terminate" -> "terminated"
           [] ledger.pending.action = "kill" -> "killed"
           [] OTHER -> "gone"

ReconcileGone(p) ==
    /\ Visit(p)
    /\ seen[p] \notin {Unverified, ledger.stopped[p]}
    /\ ledger' = Closed(ledger, p, GoneStatus(p))
    /\ dirty' = TRUE
    /\ UNCHANGED runtimeError

(* Mutant: no cooldown for a resume found by reconciliation. *)
ReconcileResumedWarm(p) ==
    /\ Visit(p)
    /\ seen[p] = ledger.stopped[p]
    /\ os[p].state = "run"
    /\ ledger' = Closed(ledger, p, "resumed")
    /\ dirty' = TRUE
    /\ UNCHANGED runtimeError

(* The state is read now, the identity was read at the start of the tick. *)
ReconcileResumed(p) ==
    /\ Visit(p)
    /\ seen[p] = ledger.stopped[p]
    /\ os[p].state = "run"
    /\ ledger' = [Closed(ledger, p, "resumed") EXCEPT
                    !.cooldown = @ \union {<<p, ledger.stopped[p]>>}]
    /\ dirty' = TRUE
    /\ UNCHANGED runtimeError

ReconcileKept(p) ==
    /\ Visit(p)
    /\ seen[p] = ledger.stopped[p]
    /\ os[p].state # "run"
    /\ UNCHANGED <<ledger, dirty, runtimeError>>

(* The end of reconcile_stopped: some cooldowns may have expired. *)
ReconcileFinish ==
    /\ pc = "reconcile"
    /\ todo = {}
    /\ pc' = "list"
    /\ \E keep \in SUBSET ledger.cooldown :
         /\ released' = released \ (ledger.cooldown \ keep)
         /\ LET l == [ledger EXCEPT !.cooldown = keep]
                changed == dirty \/ keep # ledger.cooldown
            IN  \/ ~changed /\ UNCHANGED <<ledger, disk, runtimeError, faults, dropped>>
                \/ changed /\ Saved(l) /\ UNCHANGED runtimeError
                \/ changed /\ NotSaved(l) /\ runtimeError' = TRUE
    /\ UNCHANGED <<os, seen, assess, op, todo, dirty, acted, controlVars, lost>>

-----------------------------------------------------------------------------
(* process_control_requests.                                               *)

Target(r) == [id |-> <<r.pid, ledger.stopped[r.pid]>>, action |-> r.action]

Admissible(r) ==
    /\ ~runtimeError
    /\ ledger.stopped[r.pid] # 0
    /\ seen[r.pid] = ledger.stopped[r.pid]
    /\ ledger.pending \in {None, Target(r)}

(* The paths are listed once: a request that stays is for the next tick. *)
ControlList ==
    /\ pc = "list"
    /\ \/ listed' = requests /\ UNCHANGED faults
       \/ listed' = {} /\ FileFails
    /\ pc' = "control"
    /\ UNCHANGED <<os, ledger, disk, runtimeError, seen, assess, op, todo, dirty,
                   acted, requests, asked, reply, released, lost, dropped>>

Takes(r) ==
    /\ pc = "control"
    /\ r \in listed
    /\ listed' = listed \ {r}
    /\ asked' = r
    /\ reply' = "none"
    /\ UNCHANGED requests

(* Mutant: an early error removes the request without a result. *)
ControlRefuseSilently(r) ==
    /\ Takes(r)
    /\ ~Admissible(r)
    /\ pc' = "ctl_remove"
    /\ UNCHANGED <<os, ledger, disk, runtimeError, seen, assess, op, todo, dirty,
                   acted, faults, released, lost, dropped>>

ControlRefuse(r) ==
    /\ Takes(r)
    /\ ~Admissible(r)
    /\ pc' = "ctl_answer"
    /\ UNCHANGED <<os, ledger, disk, runtimeError, seen, assess, op, todo, dirty,
                   acted, faults, released, lost, dropped>>

(* Mutant: sends the signal although the intent was not saved. *)
ControlIntentUnsaved(r) ==
    /\ Takes(r)
    /\ Admissible(r)
    /\ LET target == Target(r)
           l == [ledger EXCEPT !.pending = target]
       IN  /\ Saved(l) \/ NotSaved(l)
           /\ op' = [id |-> target.id, what |-> target.action]
    /\ pc' = "ctl_signal"
    /\ UNCHANGED <<os, runtimeError, seen, assess, todo, dirty, acted, released,
                   lost>>

(* The intent is durable before the signal is sent. *)
ControlIntent(r) ==
    /\ Takes(r)
    /\ Admissible(r)
    /\ LET target == Target(r)
           sending == /\ op' = [id |-> target.id, what |-> target.action]
                      /\ pc' = "ctl_signal"
       IN  \/ /\ ledger.pending = target
              /\ sending
              /\ UNCHANGED <<ledger, disk, faults, dropped>>
           \/ /\ ledger.pending = None
              /\ Saved([ledger EXCEPT !.pending = target])
              /\ sending
           \/ /\ ledger.pending = None
              /\ NotSaved(ledger)
              /\ pc' = "ctl_answer"
              /\ UNCHANGED op
    /\ UNCHANGED <<os, runtimeError, seen, assess, todo, dirty, acted, released,
                   lost>>

(* SIGCONT after SIGTERM is best effort: `let _ = resume_process(..)`. *)
TerminateSignal ==
    /\ op.what = "terminate"
    /\ \/ /\ \E state \in {"gone", "run"} : Delivered(PidOf(op.id), state)
          /\ UNCHANGED lost
       \/ /\ Alive(PidOf(op.id))
          /\ Refused(PidOf(op.id))
          /\ lost' = lost \union {id \in {op.id} : os[PidOf(id)].state = "stop"}
    /\ UNCHANGED released

ControlSignal ==
    /\ pc = "ctl_signal"
    /\ \/ /\ op.what = "resume"
          /\ Delivered(PidOf(op.id), "run")
          /\ released' = released \union {op.id}
          /\ UNCHANGED lost
       \/ TerminateSignal
       \/ /\ op.what = "kill"
          /\ Delivered(PidOf(op.id), "gone")
          /\ UNCHANGED <<released, lost>>
    /\ pc' = "ctl_commit"
    /\ UNCHANGED <<ledger, disk, runtimeError, seen, assess, op, todo, dirty,
                   acted, controlVars>>

(* The error leaves pending_control as it is. *)
ControlSignalRefused ==
    /\ pc = "ctl_signal"
    /\ Refused(PidOf(op.id))
    /\ op' = NoOp
    /\ pc' = "ctl_answer"
    /\ UNCHANGED <<ledger, disk, runtimeError, seen, assess, todo, dirty, acted,
                   controlVars, released, lost>>

ControlCommit ==
    /\ pc = "ctl_commit"
    /\ LET status == CASE op.what = "resume" -> "resumed"
                       [] op.what = "terminate" -> "terminated"
                       [] OTHER -> "killed"
           cleared == [ClearStopped(ledger, op.id) EXCEPT
                         !.pending = None,
                         !.cooldown = IF op.what = "resume"
                                        THEN @ \union {op.id} ELSE @]
           l == Transition(cleared, op.id, status, FALSE)
       IN  \/ Saved(l) /\ UNCHANGED runtimeError
           \/ NotSaved(l) /\ runtimeError' = TRUE
    /\ op' = NoOp
    /\ pc' = "ctl_answer"
    /\ UNCHANGED <<os, seen, assess, todo, dirty, acted, controlVars, released,
                   lost>>

(* However it went, its result file is written ... or not. *)
ControlAnswer ==
    /\ pc = "ctl_answer"
    /\ \/ reply' = "written" /\ UNCHANGED faults
       \/ reply' = "failed" /\ FileFails
    /\ pc' = "ctl_remove"
    /\ UNCHANGED <<os, ledger, disk, runtimeError, seen, assess, op, todo, dirty,
                   acted, requests, listed, asked, released, lost, dropped>>

(* A request that cannot be removed is processed again by the next tick. *)
ControlRemove ==
    /\ pc = "ctl_remove"
    /\ \/ requests' = requests \ {asked} /\ UNCHANGED faults
       \/ UNCHANGED requests /\ FileFails
    /\ pc' = "control"
    /\ UNCHANGED <<os, ledger, disk, runtimeError, seen, assess, op, todo, dirty,
                   acted, listed, asked, reply, released, lost, dropped>>

ControlDone ==
    /\ pc = "control"
    /\ listed = {}
    /\ asked' = None
    /\ reply' = "none"
    /\ pc' = "detect"
    /\ UNCHANGED <<os, ledger, disk, runtimeError, seen, assess, op, todo, dirty,
                   acted, requests, listed, faults, released, lost, dropped>>

-----------------------------------------------------------------------------
(* suspend_candidate, from alert_and_suspend or apply_pressure_actions.    *)

(* What every caller asks of its candidate, whose identity is the listed one. *)
Eligible(p) ==
    /\ seen[p] \in Gens
    /\ ledger.stopped[p] = 0
    /\ <<p, seen[p]>> \notin ledger.cooldown
    /\ ~runtimeError
    /\ Len(ledger.incidents) < MaxIncidents

(* exact_process rereads the identity, then the signal is sent. *)
Stop(p, reason) ==
    /\ Live(<<p, seen[p]>>)
    /\ Delivered(p, "stop")
    /\ op' = [id |-> <<p, seen[p]>>, what |-> reason]
    /\ pc' = "sus_record"
    /\ UNCHANGED <<ledger, disk, runtimeError, seen, assess, todo, dirty,
                   acted, controlVars, released, lost>>

DetectRunaway(p) ==
    /\ pc = "detect"
    /\ assess # "safe"
    /\ Eligible(p)
    /\ ~HasProbation(ledger, <<p, seen[p]>>)
    /\ Stop(p, "runaway")

(* No verified runaway, or its pause did not get as far as the signal. *)
DetectNone ==
    /\ pc = "detect"
    /\ pc' = "probation"
    /\ UNCHANGED <<os, ledger, disk, runtimeError, seen, assess, op, todo,
                   dirty, acted, controlVars, faults, dropped, released, lost>>

(* Where tick goes on when suspend_candidate has returned `paused`. *)
SuspendReturns(paused) ==
    /\ op' = NoOp
    /\ acted' = (paused /\ op.what = "runaway")
    /\ pc' = CASE op.what = "runaway" -> "probation"
               [] op.what = "pressure" /\ ~paused -> "last_resort"
               [] OTHER -> "idle"

(* Mutant: goes on as if the suspension had been saved. *)
SuspendRecordUnchecked ==
    /\ pc = "sus_record"
    /\ LET incident == [id |-> op.id, reason |-> op.what,
                        status |-> "suspended", attempted |-> FALSE,
                        old |-> FALSE]
           l == [MarkStopped(ledger, op.id) EXCEPT
                   !.incidents = Append(@, incident)]
       IN  Saved(l) \/ NotSaved(l)
    /\ pc' = "sus_notify"
    /\ UNCHANGED <<os, runtimeError, seen, assess, op, todo, dirty, acted,
                   controlVars, released, lost>>

SuspendRecord ==
    /\ pc = "sus_record"
    /\ LET incident == [id |-> op.id, reason |-> op.what,
                        status |-> "suspended", attempted |-> FALSE,
                        old |-> FALSE]
           l == [MarkStopped(ledger, op.id) EXCEPT
                   !.incidents = Append(@, incident)]
       IN  \/ Saved(l) /\ pc' = "sus_notify"
           \/ NotSaved(l) /\ pc' = "sus_rollback"
    /\ UNCHANGED <<os, runtimeError, seen, assess, op, todo, dirty, acted,
                   controlVars, released, lost>>

(* Mutant: clears the mark without looking at the result of the resume. *)
SuspendRollbackBlind ==
    /\ pc = "sus_rollback"
    /\ Delivered(PidOf(op.id), "run") \/ Refused(PidOf(op.id))
    /\ ledger' = Transition(ClearStopped(ledger, op.id), op.id, "resumed", FALSE)
    /\ SuspendReturns(FALSE)
    /\ UNCHANGED <<disk, runtimeError, seen, assess, todo, dirty, controlVars,
                   released, lost>>

(* Mutant: leaves the incident suspended. *)
SuspendRollbackSilent ==
    /\ pc = "sus_rollback"
    /\ \/ /\ Delivered(PidOf(op.id), "run")
          /\ ledger' = ClearStopped(ledger, op.id)
          /\ UNCHANGED runtimeError
       \/ /\ Refused(PidOf(op.id))
          /\ runtimeError' = TRUE
          /\ UNCHANGED ledger
    /\ SuspendReturns(FALSE)
    /\ UNCHANGED <<disk, seen, assess, todo, dirty, controlVars, released, lost>>

SuspendRollback ==
    /\ pc = "sus_rollback"
    /\ \/ /\ Delivered(PidOf(op.id), "run")
          /\ ledger' = Transition(ClearStopped(ledger, op.id), op.id,
                                  "resumed", FALSE)
          /\ UNCHANGED runtimeError
       \/ /\ Refused(PidOf(op.id))
          /\ runtimeError' = TRUE
          /\ UNCHANGED ledger
    /\ SuspendReturns(FALSE)
    /\ UNCHANGED <<disk, seen, assess, todo, dirty, controlVars, released, lost>>

SuspendNotified ==
    /\ pc = "sus_notify"
    /\ SuspendReturns(TRUE)
    /\ UNCHANGED <<os, ledger, disk, runtimeError, seen, assess, todo, dirty,
                   controlVars, faults, dropped, released, lost>>

(* A lead's terminal did not take the notice: `let _ = resume_process(..)`. *)
SuspendUnseen ==
    /\ pc = "sus_notify"
    /\ PidOf(op.id) \in Leads
    /\ \/ Delivered(PidOf(op.id), "run") /\ UNCHANGED lost
       \/ /\ Refused(PidOf(op.id))
          /\ lost' = lost \union {id \in {op.id} : Live(id) /\ os[PidOf(id)].state = "stop"}
    /\ ledger' = Transition(ClearStopped(ledger, op.id), op.id, "resumed", FALSE)
    /\ pc' = "sus_unseen"
    /\ UNCHANGED <<disk, runtimeError, seen, assess, op, todo, dirty, acted,
                   controlVars, released>>

SuspendUnseenPersist ==
    /\ pc = "sus_unseen"
    /\ Saved(ledger) \/ NotSaved(ledger)
    /\ SuspendReturns(FALSE)
    /\ UNCHANGED <<os, runtimeError, seen, assess, todo, dirty, controlVars,
                   released, lost>>

-----------------------------------------------------------------------------
(* manage_lead_probation.                                                  *)

AfterProbation == pc' = IF acted THEN "idle" ELSE "pressure"

Monitoring ==
    /\ pc = "probation"
    /\ ~runtimeError
    /\ ledger.probation # None
    /\ ledger.probation.status = "monitoring"

OnProbation == ledger.probation.id

Attempt(l, status) == Transition(l, OnProbation, status, TRUE)
ProbationFailed(l) ==
    [Attempt(MarkStopped(l, OnProbation), "probation_failed") EXCEPT
       !.probation.status = "failed"]

(* Nothing to do, or nothing yet. *)
ProbationIdle ==
    /\ pc = "probation"
    /\ Monitoring => /\ Alive(PidOf(OnProbation))
                     /\ Live(OnProbation) => ledger.probation.sent
    /\ AfterProbation
    /\ UNCHANGED <<os, ledger, disk, runtimeError, seen, assess, op, todo,
                   dirty, acted, controlVars, faults, dropped, released, lost>>

ProbationGone ==
    /\ Monitoring
    /\ ~Alive(PidOf(OnProbation))
    /\ LET l == [Transition(ledger, OnProbation, "gone", FALSE) EXCEPT
                   !.probation = None]
       IN  Saved(l) \/ NotSaved(l)
    /\ AfterProbation
    /\ UNCHANGED <<os, runtimeError, seen, assess, op, todo, dirty, acted,
                   controlVars, released, lost>>

ProbationCandidates(l) ==
    {k \in DOMAIN l.incidents :
       /\ l.incidents[k].status = "suspended"
       /\ l.incidents[k].reason = "runaway"
       /\ PidOf(l.incidents[k].id) \in Leads
       /\ ~l.incidents[k].attempted
       /\ l.stopped[PidOf(l.incidents[k].id)] # 0}

(* A saved probation is acted on in the same call: pc stays. *)
ProbationPrepare ==
    /\ pc = "probation"
    /\ ~runtimeError
    /\ ledger.probation = None
    /\ assess = "safe"
    /\ ProbationCandidates(ledger) # {}
    /\ LET id == ledger.incidents[Max(ProbationCandidates(ledger))].id
           l == [Transition(ledger, id, "probation", TRUE) EXCEPT
                   !.probation = [id |-> id, sent |-> FALSE,
                                  status |-> "monitoring"]]
       IN  /\ Live(id)
           /\ \/ Saved(l) /\ UNCHANGED pc
              \/ Restored /\ AfterProbation
    /\ UNCHANGED <<os, runtimeError, seen, assess, op, todo, dirty, acted,
                   controlVars, released, lost>>

ProbationResume ==
    /\ Monitoring
    /\ ~ledger.probation.sent
    /\ Live(OnProbation)
    /\ \/ Delivered(PidOf(OnProbation), "run") /\ pc' = "prob_commit"
       \/ Refused(PidOf(OnProbation)) /\ AfterProbation
    /\ UNCHANGED <<ledger, disk, runtimeError, seen, assess, op, todo, dirty,
                   acted, controlVars, released, lost>>

ProbationCommit ==
    /\ pc = "prob_commit"
    /\ LET l == [Attempt(ClearStopped(ledger, OnProbation), "probation") EXCEPT
                   !.probation.sent = TRUE]
       IN  \/ Saved(l) /\ AfterProbation
           \/ NotSaved(l) /\ pc' = "prob_rollback"
    /\ UNCHANGED <<os, runtimeError, seen, assess, op, todo, dirty, acted,
                   controlVars, released, lost>>

ProbationRollback ==
    /\ pc = "prob_rollback"
    /\ \/ /\ Delivered(PidOf(OnProbation), "stop")
          /\ ledger' = ProbationFailed(ledger)
          /\ pc' = "prob_rolled_back"
          /\ UNCHANGED runtimeError
       \/ /\ Refused(PidOf(OnProbation))
          /\ runtimeError' = TRUE
          /\ AfterProbation
          /\ UNCHANGED ledger
    /\ UNCHANGED <<disk, seen, assess, op, todo, dirty, acted, controlVars,
                   released, lost>>

ProbationRolledBack ==
    /\ pc = "prob_rolled_back"
    /\ \/ Saved(ledger) /\ UNCHANGED runtimeError
       \/ NotSaved(ledger) /\ runtimeError' = TRUE
    /\ AfterProbation
    /\ UNCHANGED <<os, seen, assess, op, todo, dirty, acted, controlVars,
                   released, lost>>

Watching ==
    /\ Monitoring
    /\ ledger.probation.sent
    /\ Live(OnProbation)

(* Critical distress or renewed growth; a refused signal is ProbationIdle. *)
Relapse ==
    /\ Watching
    /\ Delivered(PidOf(OnProbation), "stop")
    /\ pc' = "rel_record"
    /\ UNCHANGED <<ledger, disk, runtimeError, seen, assess, op, todo, dirty,
                   acted, controlVars, released, lost>>

RelapseRecord ==
    /\ pc = "rel_record"
    /\ LET l == ProbationFailed(ledger)
       IN  \/ Saved(l) /\ AfterProbation
           \/ NotSaved(l) /\ pc' = "rel_rollback"
    /\ UNCHANGED <<os, runtimeError, seen, assess, op, todo, dirty, acted,
                   controlVars, released, lost>>

RelapseRollback ==
    /\ pc = "rel_rollback"
    /\ \/ /\ Delivered(PidOf(OnProbation), "run")
          /\ ledger' = Attempt(ClearStopped(ledger, OnProbation), "resumed")
          /\ pc' = "rel_undone"
          /\ UNCHANGED runtimeError
       \/ /\ Refused(PidOf(OnProbation))
          /\ runtimeError' = TRUE
          /\ AfterProbation
          /\ UNCHANGED ledger
    /\ UNCHANGED <<disk, seen, assess, op, todo, dirty, acted, controlVars,
                   released, lost>>

RelapseUndone ==
    /\ pc = "rel_undone"
    /\ Saved(ledger) \/ NotSaved(ledger)
    /\ runtimeError' = TRUE
    /\ AfterProbation
    /\ UNCHANGED <<os, seen, assess, op, todo, dirty, acted, controlVars,
                   released, lost>>

(* The deadline passed without a relapse. *)
ProbationComplete ==
    /\ Watching
    /\ LET l == [Attempt(ledger, "resumed") EXCEPT !.probation = None]
       IN  Saved(l) \/ Restored
    /\ AfterProbation
    /\ UNCHANGED <<os, runtimeError, seen, assess, op, todo, dirty, acted,
                   controlVars, released, lost>>

-----------------------------------------------------------------------------
(* apply_pressure_actions.                                                 *)

(* Mutant: the workers' reason is missing from the list. *)
PressureIncidentsOfLeads ==
    {k \in DOMAIN ledger.incidents :
       /\ ledger.incidents[k].status = "suspended"
       /\ ledger.incidents[k].reason = "last-resort"
       /\ ledger.stopped[PidOf(ledger.incidents[k].id)] # 0}

PressureIncidents ==
    {k \in DOMAIN ledger.incidents :
       /\ ledger.incidents[k].status = "suspended"
       /\ ledger.incidents[k].reason \in PressureReasons
       /\ ledger.stopped[PidOf(ledger.incidents[k].id)] # 0}

(* Workers are resumed before leads. *)
Recover ==
    /\ pc = "pressure"
    /\ ledger.probation = None
    /\ assess = "safe"
    /\ \E k \in PressureIncidents :
         LET id == ledger.incidents[k].id
         IN  /\ PidOf(id) \in Leads =>
                  \A j \in PressureIncidents :
                    PidOf(ledger.incidents[j].id) \in Leads
             /\ Live(id)
             /\ Delivered(PidOf(id), "run")
             /\ op' = [id |-> id, what |-> "recover"]
    /\ pc' = "rec_commit"
    /\ UNCHANGED <<ledger, disk, runtimeError, seen, assess, todo, dirty,
                   acted, controlVars, released, lost>>

RecoverCommit ==
    /\ pc = "rec_commit"
    /\ LET l == Transition(ClearStopped(ledger, op.id), op.id, "resumed", FALSE)
       IN  \/ Saved(l) /\ UNCHANGED runtimeError
           \/ NotSaved(l) /\ runtimeError' = TRUE
    /\ op' = NoOp
    /\ pc' = "idle"
    /\ UNCHANGED <<os, seen, assess, todo, dirty, acted, controlVars, released,
                   lost>>

Unsafe ==
    /\ ledger.probation = None
    /\ assess = "collapse"
    /\ ~runtimeError
    /\ \A k \in DOMAIN ledger.incidents :
         ~(/\ ledger.incidents[k].status = "suspended"
           /\ ledger.incidents[k].reason = "runaway")

PressurePause(p) ==
    /\ pc = "pressure"
    /\ Unsafe
    /\ p \notin Leads
    /\ Eligible(p)
    /\ Stop(p, "pressure")

(* A lead is paused for pressure once, as far as its incidents go back. *)
LastResort(p) ==
    /\ pc \in {"pressure", "last_resort"}
    /\ Unsafe
    /\ p \in Leads
    /\ Eligible(p)
    /\ \A k \in DOMAIN ledger.incidents :
         ~(/\ ledger.incidents[k].id = <<p, seen[p]>>
           /\ ledger.incidents[k].reason = "last-resort")
    /\ Stop(p, "last-resort")

(* The reaction windows have not elapsed, or there is no candidate. *)
PressureIdle ==
    /\ pc \in {"pressure", "last_resort"}
    /\ pc' = "idle"
    /\ UNCHANGED <<os, ledger, disk, runtimeError, seen, assess, op, todo,
                   dirty, acted, controlVars, faults, dropped, released, lost>>

-----------------------------------------------------------------------------
(* Crash and restart of the daemon, and everybody else.                    *)

StoppedNow == {id \in {<<p, os[p].gen>> : p \in Pids} :
                 os[PidOf(id)].state = "stop"}

Crash ==
    /\ pc # "down"
    /\ faults.crash < MaxCrashes /\ FaultsLeft
    /\ faults' = [faults EXCEPT !.crash = @ + 1]
    /\ lost' = lost \union {id \in StoppedNow : disk.stopped[PidOf(id)] # id[2]}
    /\ pc' = "down"
    /\ ledger' = EmptyLedger
    /\ runtimeError' = FALSE
    /\ seen' = [p \in Pids |-> 0]
    /\ assess' = "hold"
    /\ op' = NoOp
    /\ todo' = {}
    /\ dirty' = FALSE
    /\ acted' = FALSE
    /\ listed' = {}
    /\ asked' = None
    /\ reply' = "none"
    /\ UNCHANGED <<os, disk, requests, released, dropped>>

(* RuntimeLedger::load: an invalid file leaves an empty ledger and an error. *)
Restart ==
    /\ pc = "down"
    /\ IF Loadable(disk)
         THEN /\ \E keep \in SUBSET disk.cooldown :
                   /\ ledger' = [disk EXCEPT !.cooldown = keep]
                   /\ released' = released \ (disk.cooldown \ keep)
              /\ UNCHANGED <<runtimeError, lost>>
         ELSE /\ runtimeError' = TRUE
              /\ ledger' = EmptyLedger
              /\ lost' = lost \union StoppedNow
              /\ UNCHANGED released
    /\ pc' = "idle"
    /\ UNCHANGED <<os, disk, seen, assess, op, todo, dirty, acted, controlVars,
                   faults, dropped>>

Exit(p) ==
    /\ Alive(p)
    /\ os' = [os EXCEPT ![p].state = "gone"]
    /\ lost' = lost \ {<<p, os[p].gen>>}
    /\ UNCHANGED <<disk, requests, faults, released, dropped, daemonVars>>

(* The PID of a process that is gone goes to a new one. *)
Reuse(p) ==
    /\ ~Alive(p)
    /\ os[p].gen < MaxGen
    /\ pc \in {"idle", "down"} \/ ReuseMidTick
    /\ os' = [os EXCEPT ![p] = [gen |-> @.gen + 1, state |-> "run"]]
    /\ UNCHANGED <<disk, requests, faults, released, lost, dropped, daemonVars>>

(* kill -CONT by somebody else. *)
ExternalResume(p) ==
    /\ os[p].state = "stop"
    /\ os' = [os EXCEPT ![p].state = "run"]
    /\ lost' = lost \ {<<p, os[p].gen>>}
    /\ UNCHANGED <<disk, requests, faults, released, dropped, daemonVars>>

(* memory-supervisor resume|terminate|kill <pid>. *)
Submit(r) ==
    /\ pc \in {"idle", "down"}
    /\ r \notin requests
    /\ Cardinality(requests) < MaxRequests
    /\ requests' = requests \union {r}
    /\ UNCHANGED <<os, disk, faults, released, lost, dropped, daemonVars>>

(* A day without news of any incident; that of a suspended one is not asked. *)
Aged(l) ==
    [l EXCEPT !.incidents =
       [k \in DOMAIN l.incidents |->
          [l.incidents[k] EXCEPT !.old = l.incidents[k].status # "suspended"]]]
Day ==
    /\ Ageing
    /\ pc = "idle"
    /\ ledger' = Aged(ledger)
    /\ disk' = Aged(disk)
    /\ UNCHANGED <<os, runtimeError, pc, seen, assess, op, todo, dirty, acted,
                   controlVars, faults, released, lost, dropped>>

(* The tick's other saves, of the parts of the ledger that are not modelled. *)
OtherSave ==
    /\ pc = "idle"
    /\ Saved(ledger) \/ NotSaved(ledger)
    /\ UNCHANGED <<os, runtimeError, pc, seen, assess, op, todo, dirty, acted,
                   controlVars, released, lost>>

-----------------------------------------------------------------------------
Reconcile ==
    \/ \E p \in Pids : \/ ReconcileUnverified(p) \/ ReconcileGone(p)
                       \/ ReconcileResumed(p) \/ ReconcileKept(p)
    \/ ReconcileFinish

Control ==
    \/ \E r \in Requests : ControlRefuse(r) \/ ControlIntent(r)
    \/ ControlList \/ ControlSignal \/ ControlSignalRefused \/ ControlCommit
    \/ ControlAnswer \/ ControlRemove \/ ControlDone

Suspend ==
    \/ \E p \in Pids : DetectRunaway(p) \/ PressurePause(p) \/ LastResort(p)
    \/ DetectNone \/ SuspendRecord \/ SuspendRollback \/ SuspendNotified
    \/ SuspendUnseen \/ SuspendUnseenPersist

Probation ==
    \/ ProbationIdle \/ ProbationGone \/ ProbationPrepare \/ ProbationResume
    \/ ProbationCommit \/ ProbationRollback \/ ProbationRolledBack
    \/ Relapse \/ RelapseRecord \/ RelapseRollback \/ RelapseUndone
    \/ ProbationComplete

Pressure == Recover \/ RecoverCommit \/ PressureIdle

Daemon == TickStart \/ Reconcile \/ Control \/ Suspend \/ Probation \/ Pressure

Environment ==
    \/ \E p \in Pids : Exit(p) \/ Reuse(p) \/ ExternalResume(p)
    \/ \E r \in Requests : Submit(r)
    \/ Day

Next == Daemon \/ OtherSave \/ Crash \/ Restart \/ Environment

Spec == Init /\ [][Next]_vars

(* The daemon keeps ticking and is restarted by the service manager.  The     *)
(* windows of apply_pressure_actions and of a probation are measured from a  *)
(* time stamp that no safe tick moves, so a resume that is possible in ever  *)
(* more ticks is made, and so is the end of a probation.                     *)
Fairness ==
    /\ WF_vars(Daemon)
    /\ WF_vars(Restart)
    /\ SF_vars(Recover)
    /\ SF_vars(ProbationPrepare)
    /\ SF_vars(ProbationComplete)

FairSpec == Spec /\ Fairness

-----------------------------------------------------------------------------
(* Properties.                                                             *)

Steps == {"down", "idle", "reconcile", "list", "control", "ctl_signal",
          "ctl_commit", "ctl_answer", "ctl_remove", "detect", "sus_record",
          "sus_rollback", "sus_notify", "sus_unseen", "probation", "prob_commit", "prob_rollback", "prob_rolled_back",
          "rel_record", "rel_rollback", "rel_undone", "pressure",
          "last_resort", "rec_commit"}
Ops == [id : Ids \union {None},
        what : PauseReasons \union ControlActions \union {"none", "recover"}]

(* Every variable has the type of the field or queue it stands for. *)
TypeOK ==
    /\ os \in [Pids -> [gen : Gens, state : {"run", "stop", "gone"}]]
    /\ ledger \in Ledgers
    /\ disk \in Ledgers
    /\ runtimeError \in BOOLEAN
    /\ pc \in Steps
    /\ seen \in [Pids -> Nat \union {Unverified}]
    /\ assess \in Assessments
    /\ op \in Ops
    /\ todo \subseteq Pids
    /\ dirty \in BOOLEAN
    /\ acted \in BOOLEAN
    /\ requests \subseteq Requests
    /\ listed \subseteq Requests
    /\ asked \in Requests \union {None}
    /\ reply \in {"none", "written", "failed"}
    /\ faults \in [write : Nat, signal : Nat, file : Nat, crash : Nat]
    /\ released \subseteq Ids
    /\ lost \subseteq Ids
    /\ dropped \subseteq Ids \X {"limit", "age"}

(* The identities that have been signalled and are about to be marked. *)
InFlight ==
    CASE pc = "sus_record" -> {op.id}
      [] pc = "rel_record" -> {OnProbation}
      [] OTHER -> {}

(* While a daemon runs, every stopped process is in its `stopped` table under *)
(* its exact identity, or the daemon is in the middle of pausing it.  The    *)
(* only exceptions are pauses in `lost`: those a crash caught before they    *)
(* were durable, and those whose undoing signal was refused and ignored      *)
(* (suspend_candidate and process_control_requests, `let _ = resume_process`). *)
PauseOwned ==
    pc # "down" => StoppedNow \subseteq
        lost \union InFlight \union {<<p, ledger.stopped[p]>> : p \in Managed(ledger)}

(* A pause whose write failed is about to be rolled back, or written again. *)
Unwinding == {"sus_rollback", "rel_rollback", "prob_rolled_back"}

(* A pause the daemon has finished recording is on disk: until its runtime    *)
(* is degraded, no crash can make it forget a process it holds.              *)
OwnershipDurable ==
    (pc \notin {"down"} \union Unwinding /\ ~runtimeError) =>
        \A p \in Managed(ledger) : disk.stopped[p] = ledger.stopped[p]

(* The write-ahead rule of process_control_requests: when the signal of an    *)
(* owner's request is sent, the very same intent is on disk.                 *)
IntentBeforeSignal ==
    pc = "ctl_signal" =>
        disk.pending = [id |-> op.id, action |-> op.what]

(* Between ticks the incidents tell the truth about the pauses: each managed  *)
(* process that lives has an open incident, and each incident that says      *)
(* suspended is of a managed process with that identity.  A save loses an    *)
(* open incident in two ways only: it is among the oldest of a ledger over   *)
(* its limit, or it is of the process on probation and a day without news.   *)
Forgotten(id) ==
    \/ <<id, "limit">> \in dropped
    \/ <<id, "age">> \in dropped /\ HasProbation(ledger, id)

IncidentsAgree ==
    pc = "idle" =>
        /\ \A p \in DOMAIN ledger.stopped :
             Live(<<p, ledger.stopped[p]>>) =>
               \/ OpenAt(ledger.incidents, <<p, ledger.stopped[p]>>) # {}
               \/ Forgotten(<<p, ledger.stopped[p]>>)
        /\ \A k \in DOMAIN ledger.incidents :
             ledger.incidents[k].status = "suspended" =>
               ledger.stopped[PidOf(ledger.incidents[k].id)] = ledger.incidents[k].id[2]

(* transition_incident is never ambiguous: one open incident per identity. *)
OneOpenIncident ==
    \A i, j \in DOMAIN ledger.incidents :
        (/\ ledger.incidents[i].id = ledger.incidents[j].id
         /\ {ledger.incidents[i].status, ledger.incidents[j].status} \subseteq OpenStatus)
        => i = j

(* Every runtime.json the daemon writes is one its own load accepts. *)
DiskLoadable == Loadable(disk)

(* A failed probation is of a process the daemon still holds: it waits for    *)
(* the owner's choice, and the owner's choice ends it.                       *)
FailedProbationHeld ==
    (pc = "idle" /\ ~runtimeError /\ ledger.probation # None
     /\ ledger.probation.status = "failed")
    => ledger.stopped[PidOf(OnProbation)] = OnProbation[2]

(* A process its owner resumed is not picked for a new pause before its       *)
(* cooldown ends, through crashes and refused signals alike.                 *)
OwnerResumeRespected ==
    [][pc' = "sus_record" /\ pc # "sus_record" => op'.id \notin released]_vars

(* A request is settled once it is consumed, and not before its result was   *)
(* written or that write failed.                                             *)
Settled(r) == asked = r /\ reply # "none" /\ r \notin requests

PressurePaused(p) ==
    \E k \in DOMAIN ledger.incidents :
        /\ ledger.incidents[k].id = <<p, ledger.stopped[p]>>
        /\ ledger.incidents[k].status = "suspended"
        /\ ledger.incidents[k].reason \in PressureReasons

(* Once memory stays safe and no lead waits for its owner's choice, no worker *)
(* remains paused for pressure.                                              *)
PressureRecovers ==
    <>[](assess = "safe" /\ Managed(ledger) \intersect Leads = {}) =>
        \A p \in Pids : []<>~PressurePaused(p)

=============================================================================
