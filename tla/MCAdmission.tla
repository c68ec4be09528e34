----------------------------- MODULE MCAdmission -----------------------------
(* SharedAdmission for TLC, and what ContainmentLoop and AppContainment     *)
(* promise in the end, side by side.  A behaviour exercises one of the      *)
(* three, `part`, chosen at the start; the others stay as they began.       *)
EXTENDS SharedAdmission

CONSTANTS
    lead, sub, LoopStarts, AppStarts, Called, Signals, Reaction, TicksLeft, MaxHooks,
    AppHooks, MaxAlarms, MaxFaults

VARIABLES
    part,
    doing, loopHeld, clock, queue, roster, epoch, before, taken, unread, disk, pub,
    loopPc, calm, rested, sig, loopLeft, blind, quiet, missed,
    appDoing, appHeld, appClock, appQueue, appRoster, appEpoch, ctl, since, appDisk,
    appPub, appPc, appSig, paused, appLeft, saw, appBlind, appQuiet, unseen, unsaved

Leads == {lead}
Subs == {sub}

L == INSTANCE ContainmentLoop WITH
       Starts <- LoopStarts, held <- loopHeld, pc <- loopPc, left <- loopLeft

A == INSTANCE AppContainment WITH
       Starts <- AppStarts, MaxHooks <- AppHooks,
       doing <- appDoing, held <- appHeld, clock <- appClock, queue <- appQueue,
       roster <- appRoster, epoch <- appEpoch, disk <- appDisk, pub <- appPub,
       pc <- appPc, sig <- appSig, left <- appLeft, blind <- appBlind,
       quiet <- appQuiet

TwoReadings == {[level |-> 0, peer |-> 0], [level |-> 3, peer |-> 3]}
Running(kernels, switches, faults) ==
    [running |-> kernels, switches |-> switches, faults |-> faults]
SwitchOrFault == {Running(Kernels, 0, 1), Running(Operated, 2, 1)}

Calling == {[tool |-> "expansion"], [background |-> FALSE, segments |-> {"handoff"}],
            [background |-> FALSE, segments |-> {"handoff", "ordinary"}]}
From(running, others, hooks, alarms, faults) ==
    [running |-> running, others |-> others, hooks |-> hooks, alarms |-> alarms,
     faults |-> faults]
CalmLoopStarts == {From({lead}, {sub}, 1, 1, 1), From({lead, sub}, {}, 0, 1, 1)}
CalmServerStarts == {From({lead}, {}, 2, 1, 1), From({lead, sub}, {}, 0, 1, 0)}

loopVars == <<doing, loopHeld, clock, queue, roster, epoch, before, taken, unread, disk,
              pub, loopPc, calm, rested, sig, loopLeft, blind, quiet, missed>>
appVars == <<appDoing, appHeld, appClock, appQueue, appRoster, appEpoch, ctl, since,
             appDisk, appPub, appPc, appSig, paused, appLeft, saw, appBlind, appQuiet,
             unseen, unsaved>>
all == <<part, vars, loopVars, appVars>>

LoopIdle == L!InitWith({}, {}, 0, 0, 0)
AppIdle == A!InitWith({}, {}, 0, 0, 0)
AdmissionIdle == InitWith(Running({}, 0, 0))

MCInit ==
    \/ part = "admission" /\ Init /\ LoopIdle /\ AppIdle
    \/ part = "loop" /\ AdmissionIdle /\ L!Init /\ AppIdle
    \/ part = "app" /\ AdmissionIdle /\ LoopIdle /\ A!Init

AdmissionOnly == part = "admission" /\ UNCHANGED <<part, loopVars, appVars>>
LoopOnly == part = "loop" /\ UNCHANGED <<part, vars, appVars>>
AppOnly == part = "app" /\ UNCHANGED <<part, vars, loopVars>>

MCNext ==
    \/ AdmissionOnly /\ Next
    \/ LoopOnly /\ L!Next
    \/ AppOnly /\ A!Next

\* The fairness of the three specifications, each while it is exercised.
MCFairSpec ==
    /\ MCInit /\ [][MCNext]_all
    /\ WF_all(\/ AdmissionOnly /\ TimePasses
              \/ LoopOnly /\ L!Daemon
              \/ AppOnly /\ A!Daemon)
    /\ \A a \in L!Agents : WF_all(LoopOnly /\ L!Awake(a))
    /\ SF_all(AppOnly /\ A!Resume)
    /\ \A k \in Kernels : WF_all(AdmissionOnly /\ DaemonStep(k))
    /\ \A k \in Operated : WF_all(AdmissionOnly /\ PowerStep(k))

-----------------------------------------------------------------------------
(* When all that is measured stays calm, everything opens again: in         *)
(* ContainmentLoop every restriction ends, in AppContainment every agent is *)
(* released, the gate opens and the server runs, in SharedAdmission the     *)
(* gates of all kernels open.                                               *)
Calm3 == AllCalm /\ sig = "safe" /\ appSig = "safe"
Open3 == AllGreen /\ L!AllOpen /\ A!AppOpen
CalmReopensAll == <>[]Calm3 => <>[]Open3

(* ContainmentLoop: while the last boundary stays near, every agent is down *)
(* to its hand-off in the end.                                              *)
DangerRestricts == <>[](sig = "final") => <>[]L!AllCushioned

=============================================================================
