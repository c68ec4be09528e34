---------------------------- MODULE MCPausePair ----------------------------
(* Two instances of PauseLedger side by side, for the properties that look *)
(* at what becomes of a pause: a lead and a worker without an owner who    *)
(* asks for anything, and a worker alone whose owner does.  A behaviour is *)
(* one of the two, `part`, chosen at the start.                            *)
EXTENDS PauseLedger

CONSTANTS l1, w1

VARIABLE part

Solo == INSTANCE PauseLedger WITH
          Pids <- {w1}, Leads <- {}, MaxIncidents <- 1, MaxRequests <- 1,
          MaxWriteFails <- 0, MaxSignalFails <- 1, MaxFileFails <- 1,
          MaxCrashes <- 1, MaxFaults <- 2

all == <<part, vars>>

PairOnly == part = "pair" /\ UNCHANGED part
SoloOnly == part = "solo" /\ UNCHANGED part

MCInit ==
    \/ part = "pair" /\ Init
    \/ part = "solo" /\ Solo!Init

MCNext ==
    \/ PairOnly /\ Next
    \/ SoloOnly /\ Solo!Next

MCSpec == MCInit /\ [][MCNext]_all

\* The fairness of PauseLedger, for the instance that is exercised.
MCFairSpec ==
    /\ MCSpec
    /\ WF_all((PairOnly /\ Daemon) \/ (SoloOnly /\ Solo!Daemon))
    /\ WF_all((PairOnly /\ Restart) \/ (SoloOnly /\ Solo!Restart))
    /\ SF_all((PairOnly /\ Recover) \/ (SoloOnly /\ Solo!Recover))
    /\ SF_all((PairOnly /\ ProbationPrepare) \/ (SoloOnly /\ Solo!ProbationPrepare))
    /\ SF_all((PairOnly /\ ProbationComplete) \/ (SoloOnly /\ Solo!ProbationComplete))

-----------------------------------------------------------------------------
(* A lead and a worker: once memory stays safe and no lead waits for its   *)
(* owner's choice, no worker remains paused for pressure.                  *)
PairPressureRecovers ==
    <>[](/\ part = "pair" /\ assess = "safe"
         /\ Managed(ledger) \intersect Leads = {}) =>
        \A p \in Pids : []<>~(part = "pair" /\ PressurePaused(p))

(* A worker alone, whose owner asks for one thing at a time: every request  *)
(* is consumed, and not before its result was written or that write failed. *)
SoloRequestsAnswered ==
    part = "solo" => (requests # {} ~> \E r \in Requests : Solo!Settled(r))

=============================================================================
