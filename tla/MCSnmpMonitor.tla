----------------------------- MODULE MCSnmpMonitor -----------------------------
(* Bounds for TLC.  In a tick of load the counters of one direction wrap once    *)
(* in two ticks and those of the other more than once in each.                   *)
EXTENDS SnmpMonitor

Carrying(rx, tx) == [d \in Dirs |-> IF d = "in" THEN rx ELSE tx]

MCLoads   == {Carrying(0, 0), Carrying(2, 4)}
MCOneLoad == {Carrying(1, 0)}

(* Answers with all counters, and with the 32-bit ones only.                      *)
Having(hc, low) == [hc |-> hc, low |-> low]

MCComplete == {Having(Dirs, Dirs), Having({}, Dirs)}
================================================================================
