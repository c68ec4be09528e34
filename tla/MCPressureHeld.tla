--------------------------- MODULE MCPressureHeld ---------------------------
(* PressureWindows for TLC where what it holds has to end: with a crash and *)
(* a failed write of the ledger, or with a crash and a notice that cannot   *)
(* be queued.  A behaviour is one of the two, `part`, chosen at the start.  *)
EXTENDS PressureWindows

VARIABLE part

Unsaved == INSTANCE PressureWindows WITH MaxFileFails <- 0
Unqueued == INSTANCE PressureWindows WITH MaxWriteFails <- 0

all == <<part, vars>>

MCInit == part \in {"unsaved", "unqueued"} /\ Init

MCNext ==
    /\ \/ part = "unsaved" /\ Unsaved!Next
       \/ part = "unqueued" /\ Unqueued!Next
    /\ UNCHANGED part

\* The fairness of PressureWindows.
MCFairSpec == MCInit /\ [][MCNext]_all /\ WF_beat(beat' = ~beat)

=============================================================================
