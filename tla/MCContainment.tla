---------------------------- MODULE MCContainment ----------------------------
(* Logical containment for TLC: the CLI process of ContainmentLoop and the  *)
(* App Server of AppContainment, side by side.  A behaviour exercises one   *)
(* of the two, `part`, chosen at the start; the other stays as it began.    *)
EXTENDS ContainmentLoop

CONSTANTS lead, sub, AppStarts, AppHooks

VARIABLES
    part,
    appDoing, appHeld, appClock, appQueue, appRoster, appEpoch, ctl, since, appDisk,
    appPub, appPc, appSig, paused, appLeft, saw, appBlind, appQuiet, unseen, unsaved

A == INSTANCE AppContainment WITH
       Starts <- AppStarts, MaxHooks <- AppHooks,
       doing <- appDoing, held <- appHeld, clock <- appClock, queue <- appQueue,
       roster <- appRoster, epoch <- appEpoch, disk <- appDisk, pub <- appPub,
       pc <- appPc, sig <- appSig, left <- appLeft, blind <- appBlind,
       quiet <- appQuiet

ASSUME A!AppContainmentAssumption

Calling == {[tool |-> "expansion"], [background |-> FALSE, segments |-> {"handoff"}],
            [background |-> FALSE, segments |-> {"handoff", "ordinary"}]}
From(running, others, hooks, alarms, faults) ==
    [running |-> running, others |-> others, hooks |-> hooks, alarms |-> alarms,
     faults |-> faults]
LoopStarts == {From({lead}, {sub}, 2, 1, 1), From({lead, sub}, {}, 1, 1, 1)}
ServerStarts == {From({lead}, {}, 3, 1, 1), From({lead}, {}, 2, 2, 0),
                 From({lead, sub}, {}, 1, 1, 0)}

appVars == <<appDoing, appHeld, appClock, appQueue, appRoster, appEpoch, ctl, since,
             appDisk, appPub, appPc, appSig, paused, appLeft, saw, appBlind, appQuiet,
             unseen, unsaved>>
all == <<part, vars, appVars>>

MCInit ==
    \/ part = "loop" /\ Init /\ A!InitWith({}, {}, 0, 0, 0)
    \/ part = "app" /\ InitWith({}, {}, 0, 0, 0) /\ A!Init

MCNext ==
    \/ part = "loop" /\ Next /\ UNCHANGED <<part, appVars>>
    \/ part = "app" /\ A!Next /\ UNCHANGED <<part, vars>>

MCSpec == MCInit /\ [][MCNext]_all

-----------------------------------------------------------------------------
(* What the two promise together; what only one does is checked as it is.   *)

(* AppContainment: the server is stopped only over agents that know of the  *)
(* hand-off in force.                                                       *)
HandoffBeforePause == A!HandoffBeforePause

(* AppContainment: the surface gate opens last.                             *)
GateOpensLast == A!GateOpensLast

(* Agents are released, and the App's gate is opened, only after memory was *)
(* safe for two reaction times, in ContainmentLoop and in AppContainment.   *)
ReopensAfterCalm == [][CalmFirst /\ A!AppCalmFirst]_all

=============================================================================
