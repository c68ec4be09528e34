------------------------ MODULE MCNotificationOutbox ------------------------
(* NotificationOutbox for TLC.  What is kept: an alert, an episode and two  *)
(* answers of hooks under a fault, with a runtime that another handler may  *)
(* degrade, which stops deliveries for good.  What gets through: an episode *)
(* in a ledger it fills, with all channels, under any two faults.  A        *)
(* behaviour is one of the two, `part`, chosen at the start.                *)
EXTENDS NotificationOutbox

CONSTANT a1

VARIABLE part

Faulty == INSTANCE NotificationOutbox WITH
            Alerts <- {}, Channels <- TRUE, MaxLedger <- 2, MaxSpawnFails <- 1,
            MaxFaults <- 2, MaxHooks <- 0, MayDegrade <- FALSE

all == <<part, vars>>

MCInit ==
    \/ part = "kept" /\ Init
    \/ part = "faulty" /\ Faulty!Init

FaultyOnly == part = "faulty" /\ UNCHANGED part

MCNext ==
    \/ part = "kept" /\ Next /\ UNCHANGED part
    \/ FaultyOnly /\ Faulty!Next

\* The fairness of NotificationOutbox, for what has to get through.
MCFairSpec ==
    /\ MCInit /\ [][MCNext]_all
    /\ WF_all(FaultyOnly /\ Faulty!Tick)
    /\ WF_all(FaultyOnly /\ Faulty!Restart)
    /\ \A e \in Faulty!Events : SF_all(FaultyOnly /\ Faulty!Late(e))

-----------------------------------------------------------------------------
(* NotificationOutbox: an edge that was taken is announced in the end.      *)
EdgesTold == part = "faulty" => Faulty!EdgesAnnounced

(* NotificationOutbox: every event that was queued is settled in the end.   *)
QueuedSettled == part = "faulty" => Faulty!EventsSettled

=============================================================================
