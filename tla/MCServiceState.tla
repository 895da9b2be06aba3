--------------------------- MODULE MCServiceState ---------------------------
(* Values for the runs of ServiceState: one loss alone degrades or pauses,   *)
(* two small ones together do, and the equity may halve in between.          *)
EXTENDS ServiceState

MCPnls     == {0, -3, -6}
MCEquities == {50, 100}
MCMinus5   == -5
MCMinus10  == -10
MCUsd      == -12
=============================================================================
