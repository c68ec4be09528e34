--------------------------- MODULE SharedAdmission ---------------------------
(***************************************************************************)
(* Kernels that share one memory share their admission through files.      *)
(* Each daemon measures its own level, merges it with what the others have *)
(* published, writes the result for its hooks (state.json), renews or      *)
(* removes the lease that lets a hook pass without asking, and publishes   *)
(* its own level for the others.  A hook merges once more when it asks.    *)
(*                                                                         *)
(* The same files are what the power switch has to take away: the owner    *)
(* turns a daemon off only when it holds no paused process, and what it    *)
(* published must not outlive it.                                          *)
(*                                                                         *)
(* Files carry a time and count as fresh for a while; here they carry an   *)
(* age, and one that is too old, or that tells of an error, is read as if  *)
(* there were none.  Time may pass between any two steps.                  *)
(***************************************************************************)
EXTENDS Integers, FiniteSetsExt

CONSTANTS
    Kernels,     \* the instances that share the memory
    Operated,    \* those that pause processes, and have an owner who may object
    Readings,    \* what a tick may find: its level, and its level for peers
    FreshFor,    \* ten seconds, in time steps
    LeaseFor,    \* a tick and a half
    Starts,      \* which kernels run at first, and the bounds: uses of the power
                 \* switch; crashes, panics, failed writes, removals or stops
    None         \* no such file, or none that counts

Level == 0..3    \* GREEN, YELLOW, ORANGE, RED
Green == 0

\* What a tick found, until it is published.
Snap == [level : Level, peer : Level, ok : BOOLEAN, age : Nat, merged : Level, expires : Nat]

ASSUME AdmissionAssumption ==
    /\ Operated \subseteq Kernels
    /\ Readings \subseteq [level : Level, peer : Level]
    /\ \A r \in Readings : r.peer <= r.level
    /\ {FreshFor, LeaseFor} \subseteq Nat \ {0}
    /\ Starts \subseteq [running : SUBSET Kernels, switches : Nat, faults : Nat]
    /\ None \notin Snap \union Nat

VARIABLES
    pc,       \* where each daemon is in its loop
    snap,     \* admission_snapshot of the tick in hand
    state,    \* state.json, while it counts
    named,    \* state.json is there, stale or not, and names the instance
    lease,    \* admission-green.lease: how long it still holds
    fed,      \* the file of each kernel in the federation directory
    held,     \* a process the daemon pauses, and whether runtime.json says so
    marker,   \* the power-off marker
    service,  \* the service manager starts the daemon
    op,       \* where the owner's command is
    left,     \* uses of the switch and faults still to come
    warned,   \* history: how long the published levels have told of danger
    off,      \* history: how long ago the switch found the daemon stopped and
              \* nothing paused, so that the owner is told it is off
    kept,     \* history: a peer file that could not be found or removed then
    lost      \* history: a daemon ended between its signal and its record

files == <<state, named, lease, fed>>
power == <<marker, service, op, off, kept>>
vars == <<pc, snap, files, held, power, left, warned, lost>>

-----------------------------------------------------------------------------
Fresh(f) == f # None
Older(f) == IF f = None \/ f.age = FreshFor THEN None ELSE [f EXCEPT !.age = f.age + 1]
Sooner(time) == IF time = 0 THEN 0 ELSE time - 1

\* fresh_federated_states: the reader's own file is among them.
PeerLevels == {fed[k].peer : k \in {j \in Kernels : Fresh(fed[j])}}

\* safe_state: what a hook that asks is told.  A missing, stale or failed
\* state counts as GREEN, but fresh peers still count.
Gate(k) == Max(PeerLevels \union {IF Fresh(state[k]) THEN state[k].merged ELSE Green})

InitWith(s) ==
    /\ pc = [k \in Kernels |-> IF k \in s.running THEN "top" ELSE "down"]
    /\ snap = [k \in Kernels |-> None]
    /\ state = [k \in Kernels |-> None] /\ named = [k \in Kernels |-> FALSE]
    /\ lease = [k \in Kernels |-> 0]
    /\ fed = [k \in Kernels |-> None]
    /\ held = [k \in Kernels |-> "no"]
    /\ marker = [k \in Kernels |-> FALSE]
    /\ service = [k \in Kernels |-> k \in s.running]
    /\ op = [k \in Kernels |-> "idle"]
    /\ left = [switches |-> s.switches, faults |-> s.faults]
    /\ warned = 0
    /\ off = [k \in Kernels |-> None] /\ kept = [k \in Kernels |-> FALSE]
    /\ lost = [k \in Kernels |-> FALSE]

Init == \E s \in Starts : InitWith(s)

Fault == left.faults > 0 /\ left' = [left EXCEPT !.faults = left.faults - 1]
Switch == left.switches > 0 /\ left' = [left EXCEPT !.switches = left.switches - 1]

At(k, here, next) == pc[k] = here /\ pc' = [pc EXCEPT ![k] = next]
Set(f, k, v) == [f EXCEPT ![k] = v]

\* A file is removed, or stays because that fails, which nobody looks at.
Removed(f, k, none) == \/ f' = Set(f, k, none) /\ UNCHANGED left
                       \/ Fault /\ UNCHANGED f

-----------------------------------------------------------------------------
(* run_daemon.                                                              *)

\* The marker is looked at between ticks.
Top(k) ==
    /\ ~marker[k]
    /\ At(k, "top", "tick")
    /\ UNCHANGED <<snap, files, held, power, left, lost>>

\* clear_power_publication removes one file and then the other, and the
\* daemon exits.
Exit(k) ==
    /\ marker[k]
    /\ At(k, "top", "unpeer")
    /\ Removed(lease, k, 0)
    /\ UNCHANGED <<snap, state, named, fed, held, power, lost>>

ExitPeer(k) ==
    /\ At(k, "unpeer", "down")
    /\ Removed(fed, k, None)
    /\ UNCHANGED <<snap, state, named, lease, held, power, lost>>

\* A pause is signalled and then recorded; one that cannot be recorded is
\* undone.
PauseSignal(k) ==
    /\ At(k, "tick", "pausing") /\ held[k] = "no"
    /\ held' = Set(held, k, "signalled")
    /\ UNCHANGED <<snap, files, power, left, lost>>

PauseRecord(k) ==
    /\ At(k, "pausing", "tick")
    /\ \/ held' = Set(held, k, "recorded") /\ UNCHANGED left
       \/ held' = Set(held, k, "no") /\ Fault
    /\ UNCHANGED <<snap, files, power, lost>>

Resume(k) ==
    /\ pc[k] = "tick" /\ held[k] = "recorded"
    /\ held' = Set(held, k, "no")
    /\ UNCHANGED <<pc, snap, files, power, left, lost>>

Merged(level) == Max(PeerLevels \union {level})

\* admission_snapshot, with the time the lease is to end.
Tick(k, r) ==
    /\ At(k, "tick", "write")
    /\ snap' = Set(snap, k, [level |-> r.level, peer |-> r.peer, ok |-> TRUE, age |-> 0,
                             merged |-> Merged(r.level), expires |-> LeaseFor])
    /\ UNCHANGED <<files, held, power, left, lost>>

\* A panic in the tick is published as a state with an error.
Panic(k) ==
    /\ At(k, "tick", "write")
    /\ Fault
    /\ snap' = Set(snap, k, [level |-> 2, peer |-> 2, ok |-> FALSE, age |-> 0,
                             merged |-> Merged(2), expires |-> LeaseFor])
    /\ UNCHANGED <<files, held, power, lost>>

Valid(k) == snap[k].ok /\ snap[k].age <= FreshFor

WriteState(k) ==
    /\ At(k, "write", "lease")
    /\ \/ /\ state' = Set(state, k, IF ~Valid(k) THEN None
                                    ELSE [merged |-> snap[k].merged, age |-> snap[k].age])
          /\ named' = Set(named, k, TRUE)
          /\ UNCHANGED left
       \/ Fault /\ UNCHANGED <<state, named>>
    /\ UNCHANGED <<snap, lease, fed, held, power, lost>>

(* Mutant: looks at its own level only. *)
CalmHere(k) == snap[k].ok /\ snap[k].level = Green /\ held[k] = "no"

\* update_fast_path_lease: only when nothing at all is wrong.
Calm(k) ==
    /\ snap[k].ok /\ snap[k].merged = Green /\ snap[k].level = Green
    /\ held[k] = "no"

UpdateLease(k) ==
    /\ At(k, "lease", "publish")
    /\ \/ lease' = Set(lease, k, IF Calm(k) THEN snap[k].expires ELSE 0) /\ UNCHANGED left
       \/ Fault /\ UNCHANGED lease
    /\ UNCHANGED <<snap, state, named, fed, held, power, lost>>

(* Mutant: publishes what the others published. *)
PublishMerged(k) ==
    /\ At(k, "publish", "top")
    /\ fed' = Set(fed, k, IF ~Valid(k) THEN None
                          ELSE [peer |-> snap[k].merged, age |-> snap[k].age])
    /\ snap' = Set(snap, k, None)
    /\ UNCHANGED <<state, named, lease, held, power, left, lost>>

\* publish_federation: its own level, not the merged one.
Publish(k) ==
    /\ At(k, "publish", "top")
    /\ \/ /\ fed' = Set(fed, k, IF ~Valid(k) THEN None
                                ELSE [peer |-> snap[k].peer, age |-> snap[k].age])
          /\ UNCHANGED left
       \/ Fault /\ UNCHANGED fed
    /\ snap' = Set(snap, k, None)
    /\ UNCHANGED <<state, named, lease, held, power, lost>>

Daemon(k) ==
    \/ Top(k) \/ Exit(k) \/ ExitPeer(k) \/ PauseRecord(k) \/ WriteState(k)
    \/ UpdateLease(k) \/ Publish(k) \/ \E r \in Readings : Tick(k, r)

\* The daemon ends where it is; a pause under way stays without a record.
Ended(k) ==
    /\ pc' = Set(pc, k, "down")
    /\ snap' = Set(snap, k, None)
    /\ lost' = Set(lost, k, lost[k] \/ pc[k] = "pausing")

Crash(k) ==
    /\ pc[k] # "down"
    /\ Fault /\ Ended(k)
    /\ UNCHANGED <<files, held, power>>

Start(k) ==
    /\ service[k] /\ At(k, "down", "top")
    /\ UNCHANGED <<snap, files, held, power, left, lost>>

Time ==
    /\ state' = [k \in Kernels |-> Older(state[k])]
    /\ fed' = [k \in Kernels |-> Older(fed[k])]
    /\ lease' = [k \in Kernels |-> Sooner(lease[k])]
    /\ snap' = [k \in Kernels |-> IF snap[k] = None THEN None
                 ELSE [snap[k] EXCEPT !.expires = Sooner(snap[k].expires),
                                      !.age = IF snap[k].age > FreshFor THEN snap[k].age
                                              ELSE snap[k].age + 1]]
    /\ off' = [k \in Kernels |-> IF off[k] = None \/ off[k] > FreshFor THEN off[k]
                                 ELSE off[k] + 1]
    /\ UNCHANGED <<pc, named, held, marker, service, op, kept, left, lost>>

-----------------------------------------------------------------------------
(* maintain_power and power.sh.  The preflight reads runtime.json before    *)
(* the daemon is stopped and once more afterwards.  A file the script       *)
(* cannot write or remove ends it, and the command fails; whenever the      *)
(* marker is there in the end, clear_local_publication takes away what the  *)
(* daemon published, and does not look whether it succeeds.                 *)

Recorded(k) == held[k] = "recorded"

OffAsked(k) ==
    /\ op[k] = "idle"
    /\ Switch
    /\ ~Recorded(k)
    /\ op' = Set(op, k, "mark") /\ off' = Set(off, k, None)
    /\ UNCHANGED <<pc, snap, files, held, marker, service, kept, lost>>

OffMarked(k) ==
    /\ op[k] = "mark"
    /\ \/ marker' = Set(marker, k, TRUE) /\ op' = Set(op, k, "stop") /\ UNCHANGED left
       \/ Fault /\ op' = Set(op, k, IF marker[k] THEN "clear" ELSE "idle") /\ UNCHANGED marker
    /\ UNCHANGED <<pc, snap, files, held, service, off, kept, lost>>

OffStopped(k) ==
    /\ op[k] = "stop"
    /\ Ended(k) /\ service' = Set(service, k, FALSE)
    /\ op' = Set(op, k, "unlease")
    /\ UNCHANGED <<files, held, marker, off, kept, left>>

\* service_on: a restart of the daemon; the script then waits for a fresh state.
Restart(k) ==
    /\ pc' = Set(pc, k, "top") /\ snap' = Set(snap, k, None)
    /\ lost' = Set(lost, k, lost[k] \/ pc[k] = "pausing")
    /\ service' = Set(service, k, TRUE) /\ marker' = Set(marker, k, FALSE)
    /\ op' = Set(op, k, "wait")
    /\ UNCHANGED <<fed, held, off, kept>>

\* The daemon is to go on; if the marker cannot be removed either, it will not.
OffNotStopped(k) ==
    /\ op[k] = "stop"
    /\ Fault
    /\ \/ Restart(k)
       \/ op' = Set(op, k, "clear")
          /\ UNCHANGED <<pc, snap, lost, service, marker, fed, held, off, kept>>
    /\ UNCHANGED <<state, named, lease>>

OffUnleased(k) ==
    /\ op[k] = "unlease"
    /\ \/ lease' = Set(lease, k, 0) /\ op' = Set(op, k, "recheck") /\ UNCHANGED left
       \/ Fault /\ op' = Set(op, k, "clear") /\ UNCHANGED lease
    /\ UNCHANGED <<pc, snap, state, named, fed, held, marker, service, off, kept, lost>>

(* Mutant: does not look again after the daemon has stopped. *)
OffConfirmedAtOnce(k) ==
    /\ op[k] = "recheck"
    /\ op' = Set(op, k, "clear")
    /\ off' = Set(off, k, 0) /\ kept' = Set(kept, k, FALSE)
    /\ UNCHANGED <<pc, snap, files, held, marker, service, left, lost>>

OffConfirmed(k) ==
    /\ op[k] = "recheck" /\ ~Recorded(k)
    /\ op' = Set(op, k, "clear")
    /\ off' = Set(off, k, 0) /\ kept' = Set(kept, k, FALSE)
    /\ UNCHANGED <<pc, snap, files, held, marker, service, left, lost>>

\* Also when runtime.json cannot be read.
OffRolledBack(k) ==
    /\ op[k] = "recheck"
    /\ \/ Recorded(k) /\ UNCHANGED left
       \/ Fault
    /\ op' = Set(op, k, "on")
    /\ UNCHANGED <<pc, snap, files, held, marker, service, off, kept, lost>>

ClearLease(k) ==
    /\ op[k] = "clear"
    /\ Removed(lease, k, 0)
    /\ op' = Set(op, k, "peer")
    /\ UNCHANGED <<pc, snap, state, named, fed, held, marker, service, off, kept, lost>>

\* The peer file bears the name that state.json tells, if it is there.
ClearPeer(k) ==
    /\ op[k] = "peer"
    /\ \/ named[k] /\ fed' = Set(fed, k, None) /\ UNCHANGED <<kept, left>>
       \/ ~named[k] /\ kept' = Set(kept, k, TRUE) /\ UNCHANGED <<fed, left>>
       \/ named[k] /\ Fault /\ kept' = Set(kept, k, TRUE) /\ UNCHANGED fed
    /\ op' = Set(op, k, "idle")
    /\ UNCHANGED <<pc, snap, state, named, lease, held, marker, service, off, lost>>

OnAsked(k) ==
    /\ op[k] = "idle"
    /\ Switch
    /\ op' = Set(op, k, "on") /\ off' = Set(off, k, None)
    /\ UNCHANGED <<pc, snap, files, held, marker, service, kept, lost>>

Unless(remains, k, f, none) == IF remains THEN f ELSE Set(f, k, none)

\* The script removes the marker, the state and the lease, and starts the
\* service only when all three are gone.
TurnOn(k) ==
    /\ op[k] = "on"
    /\ \/ /\ Restart(k) /\ UNCHANGED left
          /\ state' = Set(state, k, None) /\ named' = Set(named, k, FALSE)
          /\ lease' = Set(lease, k, 0)
       \/ /\ Fault
          /\ \E remain \in SUBSET {"marker", "state", "lease"} :
               /\ remain # {}
               /\ marker' = Unless("marker" \in remain, k, marker, FALSE)
               /\ state' = Unless("state" \in remain, k, state, None)
               /\ named' = Unless("state" \in remain, k, named, FALSE)
               /\ lease' = Unless("lease" \in remain, k, lease, 0)
          /\ op' = Set(op, k, IF marker'[k] THEN "clear" ELSE "idle")
          /\ UNCHANGED <<pc, snap, fed, held, service, off, kept, lost>>

OnConfirmed(k) ==
    /\ op[k] = "wait" /\ Fresh(state[k])
    /\ op' = Set(op, k, "idle")
    /\ UNCHANGED <<pc, snap, files, held, marker, service, off, kept, left, lost>>

\* No fresh state in time: off again, whether the service stops or not.
OnGivenUp(k) ==
    /\ op[k] = "wait" /\ ~Fresh(state[k])
    /\ \/ /\ marker' = Set(marker, k, TRUE) /\ op' = Set(op, k, "clear")
          /\ \/ Ended(k) /\ service' = Set(service, k, FALSE) /\ UNCHANGED left
             \/ Fault /\ UNCHANGED <<pc, snap, service, lost>>
       \/ /\ Fault /\ op' = Set(op, k, "idle")
          /\ UNCHANGED <<marker, pc, snap, service, lost>>
    /\ UNCHANGED <<files, held, off, kept>>

Power(k) ==
    \/ OffMarked(k) \/ OffStopped(k) \/ OffNotStopped(k) \/ OffUnleased(k)
    \/ OffConfirmed(k) \/ OffRolledBack(k) \/ ClearLease(k) \/ ClearPeer(k)
    \/ TurnOn(k) \/ OnConfirmed(k) \/ OnGivenUp(k)

Owner(k) == OffAsked(k) \/ OnAsked(k) \/ Power(k)

-----------------------------------------------------------------------------
Step(k) ==
    \/ Daemon(k) \/ Panic(k) \/ Crash(k) \/ Start(k)
    \/ k \in Operated /\ (PauseSignal(k) \/ Resume(k))

Warned(passed) ==
    warned' = IF PeerLevels' \subseteq {Green} THEN 0
              ELSE IF passed /\ warned <= LeaseFor THEN warned + 1 ELSE warned

TimePasses == Time /\ Warned(TRUE)
DaemonStep(k) == (Daemon(k) \/ Start(k)) /\ Warned(FALSE)
PowerStep(k) == Power(k) /\ Warned(FALSE)

Next ==
    \/ TimePasses
    \/ (\E k \in Kernels : Step(k)) /\ Warned(FALSE)
    \/ (\E k \in Operated : Owner(k)) /\ Warned(FALSE)

Spec == Init /\ [][Next]_vars

\* Daemons loop and are restarted, a command that was begun goes on to its
\* end, and time passes.
FairSpec ==
    /\ Spec
    /\ WF_vars(TimePasses)
    /\ \A k \in Kernels : WF_vars(DaemonStep(k))
    /\ \A k \in Operated : WF_vars(PowerStep(k))

-----------------------------------------------------------------------------
(* Properties.                                                              *)

(* Every variable has the type of what it models.                           *)
AdmissionTypeOK ==
    /\ pc \in [Kernels -> {"top", "tick", "pausing", "write", "lease", "publish",
                         "unpeer", "down"}]
    /\ snap \in [Kernels -> Snap \union {None}]
    /\ state \in [Kernels -> [merged : Level, age : Nat] \union {None}]
    /\ named \in [Kernels -> BOOLEAN]
    /\ lease \in [Kernels -> Nat]
    /\ fed \in [Kernels -> [peer : Level, age : Nat] \union {None}]
    /\ held \in [Kernels -> {"no", "signalled", "recorded"}]
    /\ marker \in [Kernels -> BOOLEAN] /\ service \in [Kernels -> BOOLEAN]
    /\ op \in [Kernels -> {"idle", "mark", "stop", "unlease", "recheck", "clear", "peer",
                         "on", "wait"}]
    /\ left \in [switches : Nat, faults : Nat] /\ warned \in Nat
    /\ off \in [Kernels -> Nat \union {None}]
    /\ kept \in [Kernels -> BOOLEAN] /\ lost \in [Kernels -> BOOLEAN]

(* A hook that finds a lease passes without asking, so a lease may lag      *)
(* behind what the kernels have published only by its own short life: no    *)
(* delay between a daemon's look at its peers and its write, no failed      *)
(* removal and no crash makes one outlive a danger by more.                 *)
LeaseLags == \A k \in Kernels : lease[k] > 0 => warned + lease[k] <= LeaseFor

(* When every measurement stays calm the gates of all kernels open, however *)
(* they have read one another's files: no level echoes between them, and    *)
(* none is left behind by a kernel that died or was turned off.             *)
AllCalm == \A k \in Kernels : snap[k] # None => snap[k].level = Green
AllGreen == \A k \in Kernels : Gate(k) = Green
AdmissionRecovers == <>[]AllCalm => <>[]AllGreen

(* From when a power-off finds the daemon stopped until the owner turns it  *)
(* on again, no daemon runs and no lease lets a hook pass.  A peer file     *)
(* that is left is one the command is about to remove, could not remove or  *)
(* could not find, and it is not renewed: it holds the peers back no longer *)
(* than it is fresh.  No process is left paused but for one whose pause a   *)
(* stopped daemon had no time to record.                                    *)
OffHolds ==
    \A k \in Kernels : off[k] # None =>
        /\ marker[k] /\ pc[k] = "down"
        /\ lease[k] = 0
        /\ fed[k] # None => op[k] \in {"clear", "peer"} \/ kept[k]
        /\ fed[k] # None => fed[k].age >= off[k]
        /\ held[k] = "no" \/ lost[k]

=============================================================================
