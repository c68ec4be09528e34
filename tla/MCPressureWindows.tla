-------------------------- MODULE MCPressureWindows --------------------------
(* PressureWindows for TLC: its constants are numbers, given in the cfg     *)
(* files.                                                                   *)
EXTENDS PressureWindows

=============================================================================
