------------------------------ MODULE MCIcmpMonitor ------------------------------
(* Bounds for TLC.  The ping results are those of IcmpClient's Parse, with the  *)
(* latencies and the losses cut down to one on each side of the thresholds.     *)
EXTENDS IcmpMonitor

Answer(ok, ms, lost) == [reachable |-> ok, latency |-> ms, loss |-> lost]

(* A target that is up answers quickly, slowly, or with losses; one that is     *)
(* down is silent, or a router refuses for it, which Windows counts as received.*)
MCPingResults ==
  [d \in {"up", "down"} |->
     IF d = "up" THEN {Answer(TRUE, 1, 0), Answer(TRUE, 2, 0), Answer(TRUE, 1, 50)}
                 ELSE {Answer(FALSE, None, 100), Answer(FALSE, None, 0)}]

(* Enough to tell reachable from unreachable, for liveness.                     *)
MCPlainResults ==
  [d \in {"up", "down"} |->
     IF d = "up" THEN {Answer(TRUE, 1, 0)} ELSE {Answer(FALSE, None, 100)}]

(* Link 1 is monitored and none of its pings ever ends; link 2 comes and goes,  *)
(* is reconfigured, polled and deleted like any other.                          *)
HangInit ==
  /\ globalInterval \in Intervals
  /\ link = [l \in Links |-> IF l = 1 THEN [monitored |-> TRUE, override |-> None] ELSE None]
  /\ pollState = [l \in Links |-> None]
  /\ newest = [l \in Links |-> None]
  /\ openRows = [l \in Links |-> NoAlerts]
  /\ recovered = [l \in Links |-> FALSE]
  /\ deletion = [l \in Links |-> None]
  /\ inherited = [l \in Links |-> FALSE]
  /\ spawned = [l \in Links |-> 0]
  /\ lock = [l \in Links |-> FALSE]
  /\ pinging = [l \in Links |-> 0]
  /\ device \in [Links -> Devices]
  /\ device[1] = "down"

HangNext ==
  \/ Elapse
  \/ Tick
  \/ Restart
  \/ RunTask(1)
  \/ PingNow(1)
  \/ \E interval \in Intervals : UpdateSettings(interval)
  \/ \E d \in Devices : DeviceChanges(2, d)
  \/ RunTask(2)
  \/ PingNow(2)
  \/ PollCompletes(2)
  \/ PollFails(2)
  \/ \E row \in LinkRows : CreateLink(2, row)
  \/ \E override \in Overrides \cup {None} : UpdatePollingInterval(2, override)
  \/ BeginDelete(2)
  \/ ReadCascade(2)
  \/ CommitDelete(2)

HangSpec == HangInit /\ [][HangNext]_vars /\ FairnessFor({2})

(* worker.py:11-12: a target's failure "never affects any other target": link 2 *)
(* gets its outage alert although every ping of link 1 hangs.                   *)
OutageRaisedDespiteHang == OutageRaisedFor(2)

(* And it loses it again when its target answers for good.                      *)
OutageClearedDespiteHang == OutageClearedFor(2)
==================================================================================
