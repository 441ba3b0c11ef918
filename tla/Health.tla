-------------------------------- MODULE Health --------------------------------
(* The health of a link as the link pages, the dashboard and Ping Now answer   *)
(* it (app/health.py, app/api/dashboard.py, app/api/wan_links.py), beside the  *)
(* ICMP monitoring that writes what it is computed from.                       *)
(*                                                                             *)
(* compute_health runs three queries on another thread, and each of them sees  *)
(* what polls and deletions have committed by then.  Links are monitored by    *)
(* ICMP alone here.                                                            *)
EXTENDS IcmpMonitor

VARIABLE request    \* the running request: its link, the query it is at, and the
                    \* extremes of the link's severity since it began (history)

healthVars == <<vars, request>>

Severity == [unknown |-> 0, healthy |-> 1, warning |-> 2, critical |-> 3]
Levels   == 0..3
Stages   == {"poll_state", "alerts", "measurements"}
Requests == [link : Links, stage : Stages, low : Levels, high : Levels]

ASSUME HealthAssumption == None \notin Requests \cup DOMAIN Severity

(* The link's health if every query ran at once.                               *)
HealthOf(l) ==
  IF ~Monitored(l) THEN "unknown"
  ELSE IF WasDown(l) THEN "critical"
  ELSE IF openRows[l] # NoAlerts THEN "warning"
  ELSE IF newest[l] = None THEN "unknown"
  ELSE "healthy"

Level == [l \in Links |-> Severity[HealthOf(l)]]

(* open_alert_exists.  The mutant forgets one type of alert.                    *)
OpenAlertExists_NoLoss(l) == \E t \in AlertTypes \ {"packet_loss"} : AlertOpen(l, t)
OpenAlertExists(l) == \E t \in AlertTypes : AlertOpen(l, t)

(* What the request answers if its next query runs now, or None: it goes on.    *)
Reply ==
  IF request.stage = "poll_state"
  THEN IF WasDown(request.link) THEN "critical" ELSE None
  ELSE IF request.stage = "alerts"
  THEN IF OpenAlertExists(request.link) THEN "warning" ELSE None
  ELSE IF newest[request.link] = None THEN "unknown" ELSE "healthy"

NextStage(stage) == IF stage = "poll_state" THEN "alerts" ELSE "measurements"

--------------------------------------------------------------------------------
HealthInit == Init /\ request = None

(* A page asks: the link is read; one without monitoring is "unknown" at once.  *)
Ask(l) ==
  /\ request = None
  /\ Exists(l)
  /\ request' = IF ~Monitored(l) THEN None
                ELSE [link |-> l, stage |-> "poll_state", low |-> Level[l], high |-> Level[l]]
  /\ UNCHANGED vars

(* The next query of compute_health.                                           *)
Read ==
  /\ request # None
  /\ request' = IF Reply # None THEN None
                ELSE [request EXCEPT !.stage = NextStage(@)]
  /\ UNCHANGED vars

Lower(m, n)  == IF m < n THEN m ELSE n
Higher(m, n) == IF m < n THEN n ELSE m

(* The request goes on while the link's health changes; nothing is asked of the *)
(* answer about a link that is deleted meanwhile.                              *)
Observe ==
  request' =
    IF request = None THEN None
    ELSE IF link'[request.link] = None
    THEN [request EXCEPT !.low = 0, !.high = 3]
    ELSE [request EXCEPT !.low = Lower(@, Level'[request.link]),
                         !.high = Higher(@, Level'[request.link])]

(* A restart ends the request with everything else.                            *)
HealthNext ==
  \/ Step /\ Observe
  \/ Restart /\ request' = None
  \/ \E l \in Links : Ask(l)
  \/ Read

HealthSpec == HealthInit /\ [][HealthNext]_healthVars

--------------------------------------------------------------------------------
HealthTypeOK == TypeOK /\ request \in Requests \cup {None}

(* The health a page shows is one the link had while the page was asked for, or *)
(* lies between two it had, whatever its polls commit between the queries: a    *)
(* link in an outage throughout is never shown as less than critical, a healthy *)
(* one never as less than healthy (health.py:61-84).                           *)
AnswerIsOfTheRequest ==
  request # None /\ Reply # None =>
    request.low <= Severity[Reply] /\ Severity[Reply] <= request.high
================================================================================
