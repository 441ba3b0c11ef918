-------------------------------- MODULE MCHealth --------------------------------
(* Health with the bounds of MCIcmpMonitor.                                    *)
EXTENDS Health, MCIcmpMonitor
=================================================================================
