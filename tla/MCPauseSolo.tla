----------------------------- MODULE MCPauseSolo -----------------------------
(* One process of PauseLedger for TLC: a lead whose PID may change hands,   *)
(* under one fault; a lead under any two faults; a worker whose start token *)
(* a listing may miss, without faults; and, with days that pass, a lead     *)
(* under one fault, or a lead and a worker whose ledger keeps one incident  *)
(* only.  A behaviour is one of the five, `part`, chosen at the start.      *)
(* What they promise is what PauseLedger promises.                          *)
EXTENDS PauseLedger

CONSTANTS l1, w1

VARIABLE part

Twofold == INSTANCE PauseLedger WITH MaxGen <- 1, MaxFaults <- 2

Worker == INSTANCE PauseLedger WITH
            Leads <- {}, Unreadable <- Pids, MaxGen <- 1, MaxFaults <- 0

Days == INSTANCE PauseLedger WITH
          MaxIncidents <- 1, MaxGen <- 1, MaxFileFails <- 1, Ageing <- TRUE

Crowd == INSTANCE PauseLedger WITH
           Pids <- {l1, w1}, IncidentLimit <- 1, MaxGen <- 1, MaxFaults <- 0,
           MaxRequests <- 0, Ageing <- TRUE

all == <<part, vars>>

MCInit ==
    \/ part = "lead" /\ Init
    \/ part = "twofold" /\ Twofold!Init
    \/ part = "worker" /\ Worker!Init
    \/ part = "aged" /\ Days!Init
    \/ part = "crowd" /\ Crowd!Init

MCNext ==
    \/ part = "lead" /\ Next /\ UNCHANGED part
    \/ part = "twofold" /\ Twofold!Next /\ UNCHANGED part
    \/ part = "worker" /\ Worker!Next /\ UNCHANGED part
    \/ part = "aged" /\ Days!Next /\ UNCHANGED part
    \/ part = "crowd" /\ Crowd!Next /\ UNCHANGED part

MCSpec == MCInit /\ [][MCNext]_all

==============================================================================
