----------------------------- MODULE MCAppGuard -----------------------------
(* AppGuard for TLC: its constants are numbers, given in the cfg files.     *)
EXTENDS AppGuard

=============================================================================
