------------------------------ MODULE IcmpMonitor ------------------------------
(* ICMP monitoring of WAN links: the worker's tick, the poll coroutine with its *)
(* per-link lock, the alerts and the poll state it keeps, the Ping Now          *)
(* endpoint, and the endpoints that create, reconfigure and delete links while  *)
(* polls are in flight (app/monitoring/worker.py, app/api/wan_links.py).        *)
(*                                                                              *)
(* Coroutines share one event loop, so a stretch of code between two awaits is  *)
(* one action.  The endpoints written as plain functions run on other threads:  *)
(* the deletion reads its rows first, one table after the other, and removes    *)
(* them when it commits.  Of one link at most one deletion runs at a time here. *)
EXTENDS AlertEngine

CONSTANTS
  MaxLinks,         \* link ids are 1..MaxLinks; bounds CreateLink
  Intervals,        \* values the global cadence may take, in ticks
  Overrides,        \* values a per-link override may take besides None
  MaxInterval,      \* no interval is longer; ages are counted up to it
  Devices,          \* conditions a target may be in
  PingResults,      \* PingResults[d]: what ping returns for a target in condition d
  LatencyThreshold, \* settings.high_latency_threshold_ms
  LossThreshold,    \* settings.packet_loss_threshold_percent
  MaxSpawned        \* tasks of one link created and not yet run; bounds Tick

Links == 1..MaxLinks
LinkRows   == [monitored : BOOLEAN, override : Overrides \cup {None}]
PollStates == [age : 0..MaxInterval, isDown : BOOLEAN]
Results    == [reachable : BOOLEAN, latency : Nat \cup {None}, loss : 0..100]

AlertTypes == {"wan_down", "high_latency", "packet_loss"}
Rows       == AlertTypes \cup {"wan_recovered", "poll_state", "measurement"}
NoAlerts   == [t \in AlertTypes |-> 0]

(* The queries of the deletion's cascade, in the order the relationships are    *)
(* declared: what each of them reads.  In the mutant the last two have changed  *)
(* places.  A deletion holds the rows read by the queries made so far.          *)
Cascade_Swapped ==
  <<{"measurement"}, {"poll_state"}, AlertTypes \cup {"wan_recovered"}>>
Cascade ==
  <<{"measurement"}, AlertTypes \cup {"wan_recovered"}, {"poll_state"}>>

Deletions == [queries : 1..3, rows : SUBSET Rows]

ASSUME IcmpAssumption ==
  /\ MaxLinks \in Nat
  /\ MaxInterval \in Nat
  /\ Intervals \subseteq 1..MaxInterval
  /\ Overrides \subseteq {i \in Int : i <= MaxInterval}
  /\ PingResults \in [Devices -> SUBSET Results]
  /\ LatencyThreshold \in Nat
  /\ LossThreshold \in Nat
  /\ MaxSpawned \in Nat
  /\ None \notin LinkRows \cup PollStates \cup Results \cup Deletions

VARIABLES
  link,             \* link[l]: the wan_links row of id l, or None
  globalInterval,   \* system_settings.icmp_interval_seconds
  pollState,        \* pollState[l]: the poll_states row, or None
  newest,           \* newest[l]: the newest ICMP row of measurements, or None
  openRows,         \* openRows[l][t]: rows of alerts of type t with ended_at NULL
  recovered,        \* recovered[l]: alerts has a wan_recovered row for l
  deletion,         \* deletion[l]: a running deletion and the rows it has read, or None
  inherited,        \* inherited[l]: l was created over rows of a deleted link (history)
  spawned,          \* spawned[l]: tasks _spawn created that have not run yet
  lock,             \* lock[l]: _locks["icmp:l"] is held
  pinging,          \* pinging[l]: coroutines suspended in icmp_client.ping
  device            \* device[l]: the condition of l's target (environment)

tables == <<link, pollState, newest, openRows, recovered, deletion, inherited>>
tasks  == <<spawned, lock, pinging>>
vars   == <<tables, tasks, globalInterval, device>>

Exists(l)    == link[l] # None
Monitored(l) == Exists(l) /\ link[l].monitored
Doomed(l)    == IF deletion[l] = None THEN {} ELSE deletion[l].rows

--------------------------------------------------------------------------------
(* Alerts: _alert_open, _open_alert and _close_alert.  The mutant's query asks  *)
(* for rows without a start instead of rows without an end, and finds none.     *)
AlertOpen_Never(l, t) == FALSE
AlertOpen(l, t) == openRows[l][t] > 0

OpenAlert(l, t)  == IF AlertOpen(l, t) THEN openRows[l][t] ELSE openRows[l][t] + 1
CloseAlert(l, t) == IF AlertOpen(l, t) THEN openRows[l][t] - 1 ELSE openRows[l][t]

(* The decision the engine takes for each alert type on a ping result.          *)
Decision(l, t, r) ==
  IF t = "wan_down" THEN EvaluateAvailability(r.reachable, AlertOpen(l, t))
  ELSE IF t = "high_latency"
       THEN EvaluateHighLatency(r.latency, LatencyThreshold, AlertOpen(l, t))
       ELSE EvaluatePacketLoss(r.loss, LossThreshold, AlertOpen(l, t))

OpenRowsAfter(l, t, r) ==
  IF Decision(l, t, r) = "open" THEN OpenAlert(l, t)
  ELSE IF Decision(l, t, r) = "close" THEN CloseAlert(l, t)
  ELSE openRows[l][t]

WasDown(l) == pollState[l] # None /\ pollState[l].isDown

(* Mutant of IsDownAfter: a result that changes nothing writes NULL.            *)
IsDownAfter_Null(l, r) ==
  IF Decision(l, "wan_down", r) = "open" THEN TRUE
  ELSE IF Decision(l, "wan_down", r) = "close" THEN FALSE
  ELSE None

IsDownAfter(l, r) ==
  IF Decision(l, "wan_down", r) = "open" THEN TRUE
  ELSE IF Decision(l, "wan_down", r) = "close" THEN FALSE
  ELSE WasDown(l)

(* Mutant of Recovers: no wan_recovered row is added.                           *)
Recovers_Silent(l, r) == FALSE

Recovers(l, r) == Decision(l, "wan_down", r) = "close"

(* The rows the poll inserts, rather than updates: a deletion that has already  *)
(* read its rows does not know them.                                            *)
Inserted(l, r) ==
  {"measurement"}
    \cup (IF pollState[l] = None THEN {"poll_state"} ELSE {})
    \cup (IF Recovers(l, r) THEN {"wan_recovered"} ELSE {})
    \cup {t \in AlertTypes : OpenRowsAfter(l, t, r) > openRows[l][t]}

(* poll_icmp_for_wan_link from the return of ping to its commit.                *)
RecordResult(l, r) ==
  /\ pollState' = [pollState EXCEPT ![l] = [age |-> 0, isDown |-> IsDownAfter(l, r)]]
  /\ newest' = [newest EXCEPT ![l] = r]
  /\ openRows' = [openRows EXCEPT ![l] = [t \in AlertTypes |-> OpenRowsAfter(l, t, r)]]
  /\ recovered' = [recovered EXCEPT ![l] = @ \/ Recovers(l, r)]
  /\ deletion' = [deletion EXCEPT ![l] =
                    IF @ = None THEN None
                    ELSE [queries |-> @.queries, rows |-> @.rows \ Inserted(l, r)]]
  /\ UNCHANGED <<link, inherited>>

--------------------------------------------------------------------------------
Init ==
  /\ link = [l \in Links |-> None]
  /\ globalInterval \in Intervals
  /\ pollState = [l \in Links |-> None]
  /\ newest = [l \in Links |-> None]
  /\ openRows = [l \in Links |-> NoAlerts]
  /\ recovered = [l \in Links |-> FALSE]
  /\ deletion = [l \in Links |-> None]
  /\ inherited = [l \in Links |-> FALSE]
  /\ spawned = [l \in Links |-> 0]
  /\ lock = [l \in Links |-> FALSE]
  /\ pinging = [l \in Links |-> 0]
  /\ device \in [Links -> Devices]

(* Time passes: every recorded poll is one tick older.                          *)
Aged(state) ==
  IF state = None \/ state.age = MaxInterval THEN state ELSE [state EXCEPT !.age = @ + 1]

Elapse ==
  /\ pollState' = [l \in Links |-> Aged(pollState[l])]
  /\ UNCHANGED <<link, newest, openRows, recovered, deletion, inherited, tasks,
                 globalInterval, device>>

(* The condition of a target changes.                                           *)
DeviceChanges(l, d) ==
  /\ device' = [device EXCEPT ![l] = d]
  /\ UNCHANGED <<tables, tasks, globalInterval>>

--------------------------------------------------------------------------------
(* The worker.  A link is due if it was never polled or its last recorded poll  *)
(* is an interval old.                                                          *)
Due(l) ==
  /\ Monitored(l)
  /\ pollState[l] # None =>
       pollState[l].age >= EffectiveInterval(link[l].override, globalInterval)

(* _tick: one task for every link that is due, whether or not an earlier one    *)
(* still runs.  The mutant awaits the polls it started.                         *)
Tick_Awaits ==
  /\ \A l \in Links : ~lock[l] /\ spawned[l] < MaxSpawned
  /\ spawned' = [l \in Links |-> IF Due(l) THEN spawned[l] + 1 ELSE spawned[l]]
  /\ UNCHANGED <<tables, lock, pinging, globalInterval, device>>

Tick ==
  /\ \A l \in Links : Due(l) => spawned[l] < MaxSpawned
  /\ spawned' = [l \in Links |-> IF Due(l) THEN spawned[l] + 1 ELSE spawned[l]]
  /\ UNCHANGED <<tables, lock, pinging, globalInterval, device>>

(* The mutant's _lock_for returns a new lock for every poll.                    *)
Locked_FreshLock(l) == FALSE
Locked(l) == lock[l]

(* poll_icmp_for_wan_link up to its await: it is skipped when the lock is held, *)
(* and ends at once when the link is gone or not monitored any more.            *)
BeginPoll(l) ==
  IF Locked(l) \/ ~Monitored(l)
  THEN UNCHANGED <<lock, pinging>>
  ELSE /\ lock' = [lock EXCEPT ![l] = TRUE]
       /\ pinging' = [pinging EXCEPT ![l] = @ + 1]

EndPoll(l) ==
  /\ pinging[l] > 0
  /\ pinging' = [pinging EXCEPT ![l] = @ - 1]
  /\ lock' = [lock EXCEPT ![l] = FALSE]

(* The event loop runs a task the tick has spawned.                             *)
RunTask(l) ==
  /\ spawned[l] > 0
  /\ spawned' = [spawned EXCEPT ![l] = @ - 1]
  /\ BeginPoll(l)
  /\ UNCHANGED <<tables, globalInterval, device>>

(* The Ping Now endpoint awaits the same coroutine.                             *)
PingNow(l) ==
  /\ Monitored(l)
  /\ BeginPoll(l)
  /\ UNCHANGED <<tables, spawned, globalInterval, device>>

(* Ping returns and its result is committed, under the id the poll was started  *)
(* for, whatever has become of the link.                                        *)
PollCompletes(l) ==
  /\ EndPoll(l)
  /\ \E r \in PingResults[device[l]] : RecordResult(l, r)
  /\ UNCHANGED <<spawned, globalInterval, device>>

(* Ping raises, or the commit finds its poll_states row deleted: nothing is     *)
(* written, not even that a poll was attempted.                                 *)
PollFails(l) ==
  /\ EndPoll(l)
  /\ UNCHANGED <<tables, spawned, globalInterval, device>>

--------------------------------------------------------------------------------
(* The endpoints.  SQLite gives a new row the id after the largest in use, so   *)
(* the id of a deleted link comes back.                                         *)
HasRows(l) ==
  pollState[l] # None \/ newest[l] # None \/ openRows[l] # NoAlerts \/ recovered[l]

CreateLink(l, row) ==
  /\ ~Exists(l)
  /\ \A m \in Links : m > l => ~Exists(m)
  /\ l > 1 => Exists(l - 1)
  /\ link' = [link EXCEPT ![l] = row]
  /\ inherited' = [inherited EXCEPT ![l] = HasRows(l)]
  /\ UNCHANGED <<pollState, newest, openRows, recovered, deletion, tasks,
                 globalInterval, device>>

UpdatePollingInterval(l, override) ==
  /\ Exists(l)
  /\ override # None => override > 0
  /\ link' = [link EXCEPT ![l].override = override]
  /\ UNCHANGED <<pollState, newest, openRows, recovered, deletion, inherited, tasks,
                 globalInterval, device>>

UpdateSettings(interval) ==
  /\ globalInterval' = interval
  /\ UNCHANGED <<tables, tasks, device>>

(* delete_wan_link: db.delete reads the rows the cascade will remove, a query   *)
(* for each relationship ...                                                    *)
BeginDelete(l) ==
  /\ Exists(l)
  /\ deletion[l] = None
  /\ deletion' = [deletion EXCEPT ![l] = [queries |-> 1, rows |-> Cascade[1]]]
  /\ UNCHANGED <<link, pollState, newest, openRows, recovered, inherited, tasks,
                 globalInterval, device>>

ReadCascade(l) ==
  /\ deletion[l] # None
  /\ deletion[l].queries < 3
  /\ deletion' = [deletion EXCEPT ![l] =
                    [queries |-> @.queries + 1, rows |-> @.rows \cup Cascade[@.queries + 1]]]
  /\ UNCHANGED <<link, pollState, newest, openRows, recovered, inherited, tasks,
                 globalInterval, device>>

(* ... and the commit removes the link and those rows, no others.               *)
CommitDelete(l) ==
  /\ deletion[l] # None
  /\ deletion[l].queries = 3
  /\ link' = [link EXCEPT ![l] = None]
  /\ pollState' = [pollState EXCEPT ![l] = IF "poll_state" \in Doomed(l) THEN None ELSE @]
  /\ newest' = [newest EXCEPT ![l] = IF "measurement" \in Doomed(l) THEN None ELSE @]
  /\ openRows' = [openRows EXCEPT ![l] =
                    [t \in AlertTypes |-> IF t \in Doomed(l) THEN 0 ELSE openRows[l][t]]]
  /\ recovered' = [recovered EXCEPT ![l] = @ /\ "wan_recovered" \notin Doomed(l)]
  /\ deletion' = [deletion EXCEPT ![l] = None]
  /\ UNCHANGED <<inherited, tasks, globalInterval, device>>

(* The process stops or crashes and starts again: what was committed stays, the  *)
(* tasks, the locks and a deletion that was not committed are gone.             *)
Restart ==
  /\ deletion' = [l \in Links |-> None]
  /\ spawned' = [l \in Links |-> 0]
  /\ lock' = [l \in Links |-> FALSE]
  /\ pinging' = [l \in Links |-> 0]
  /\ UNCHANGED <<link, pollState, newest, openRows, recovered, inherited,
                 globalInterval, device>>

Step ==
  \/ Elapse
  \/ Tick
  \/ \E interval \in Intervals : UpdateSettings(interval)
  \/ \E l \in Links :
       \/ \E d \in Devices : DeviceChanges(l, d)
       \/ RunTask(l)
       \/ PingNow(l)
       \/ PollCompletes(l)
       \/ PollFails(l)
       \/ \E row \in LinkRows : CreateLink(l, row)
       \/ \E override \in Overrides \cup {None} : UpdatePollingInterval(l, override)
       \/ BeginDelete(l)
       \/ ReadCascade(l)
       \/ CommitDelete(l)

Next == Step \/ Restart

Spec == Init /\ [][Next]_vars

(* The worker loop keeps ticking and time goes on; the event loop runs the tasks *)
(* it was given, and the pings of the links in S end (icmp_client kills them    *)
(* when they overrun): not each of them, as the process may restart or a ping   *)
(* raise, but again and again.  Nothing is assumed of the endpoints.            *)
FairnessFor(S) ==
  /\ WF_vars(Elapse)
  /\ WF_vars(Tick)
  /\ \A l \in Links : SF_vars(RunTask(l))
  /\ \A l \in S : SF_vars(PollCompletes(l))

FairSpec == Spec /\ FairnessFor(Links)

--------------------------------------------------------------------------------
TypeOK ==
  /\ link \in [Links -> LinkRows \cup {None}]
  /\ globalInterval \in Intervals
  /\ pollState \in [Links -> PollStates \cup {None}]
  /\ newest \in [Links -> Results \cup {None}]
  /\ openRows \in [Links -> [AlertTypes -> Nat]]
  /\ recovered \in [Links -> BOOLEAN]
  /\ deletion \in [Links -> Deletions \cup {None}]
  /\ inherited \in [Links -> BOOLEAN]
  /\ spawned \in [Links -> 0..MaxSpawned]
  /\ lock \in [Links -> BOOLEAN]
  /\ pinging \in [Links -> Nat]
  /\ device \in [Links -> Devices]

(* A target is never pinged twice at the same time, by the schedule and Ping    *)
(* Now together, even if the link is deleted and its id used again meanwhile    *)
(* (worker.py:127-132; README: "never overlapping the same target").            *)
NoOverlap == \A l \in Links : pinging[l] <= 1

(* A link has at most one open alert of each type, across polls, deletions and  *)
(* reuse of its id (worker.py:69-97).                                           *)
OneOpenAlert == \A l \in Links, t \in AlertTypes : openRows[l][t] <= 1

(* The flag health is computed from is never set without an open outage alert   *)
(* to close it again: with the flag alone the link would be critical until its  *)
(* next outage ends (worker.py:166-171, health.py:68-69).                       *)
DownFlagHasAlert ==
  \A l \in Links : WasDown(l) => openRows[l]["wan_down"] > 0

(* What the link's pages show together agrees: its open alerts and its health   *)
(* flag follow from the newest ping result, unless its id came with rows of a   *)
(* deleted link (worker.py:151-202).                                            *)
AlertsFollow(l, r) ==
  /\ openRows[l]["wan_down"] > 0 <=> ~r.reachable
  /\ WasDown(l) <=> ~r.reachable
  /\ openRows[l]["packet_loss"] > 0 <=> r.loss > LossThreshold
  /\ r.latency # None =>
       (openRows[l]["high_latency"] > 0 <=> r.latency > LatencyThreshold)

AlertsMatchNewest ==
  \A l \in Links : Exists(l) /\ ~inherited[l] =>
    IF newest[l] = None THEN ~HasRows(l) ELSE AlertsFollow(l, newest[l])

(* The outage alerts implement the outage log.                                  *)
OutageState ==
  [l \in Links |-> IF openRows[l]["wan_down"] > 0 THEN "outage"
                   ELSE IF recovered[l] THEN "recovered"
                   ELSE "clear"]

Log == INSTANCE OutageLog WITH known <- [l \in Links |-> Exists(l)], outage <- OutageState

(* Outages alternate with recoveries, every recovery leaves its record and      *)
(* only a deletion makes a link's outages disappear (worker.py:164-180).        *)
OutagesAreLogged == Log!Spec

(* wan_links.py:83-84: a deletion "permanently removes a WAN link and           *)
(* everything tied to it".                                                      *)
DeleteRemovesEverything == \A l \in Links : ~Exists(l) => ~HasRows(l)

(* A monitored link whose target goes silent for good ends up with an open      *)
(* outage alert that stays (worker.py:324-348 with 164-168).                    *)
OutageRaisedFor(l) ==
  <>[](Monitored(l) /\ device[l] = "down") => <>[](openRows[l]["wan_down"] > 0)

(* A monitored link whose target answers again for good is not left in outage,  *)
(* nor with its health flag set (worker.py:169-180).                            *)
OutageClearedFor(l) ==
  <>[](Monitored(l) /\ device[l] = "up") =>
    <>[](openRows[l]["wan_down"] = 0 /\ ~WasDown(l))
================================================================================
