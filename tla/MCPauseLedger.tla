--------------------------- MODULE MCPauseLedger ---------------------------
(* Instances of PauseLedger for TLC: one lead, one worker. *)
EXTENDS PauseLedger

CONSTANTS l1, w1

=============================================================================
