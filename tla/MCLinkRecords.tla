----------------------------- MODULE MCLinkRecords -----------------------------
(* Bounds for TLC.                                                             *)
EXTENDS LinkRecords, TLC

Interface(i, address) == [c \in {"index", "ip"} |-> IF c = "index" THEN i ELSE address]
Intervals(icmp, snmp) == [c \in {"icmp", "snmp"} |-> IF c = "icmp" THEN icmp ELSE snmp]

(* Two interfaces with an address and one without.                             *)
MCChoices  == {Interface(1, None), Interface(2, 9)}
MCDefaults == Intervals(30, 60)
MCPayloads == {MCDefaults, Intervals(5, 60)}
MCThreads  == Permutations(Threads)
================================================================================
