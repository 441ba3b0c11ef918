------------------------------ MODULE HealthProofs ------------------------------
(* Machine-checked proof that a page shows a health its link had, for every     *)
(* number of links, every cadence and every set of ping results.                *)
EXTENDS Health, IcmpMonitorProofs

(* What the monitor does is a behaviour of the monitor alone.                   *)
LEMMA HealthStep == [HealthNext]_healthVars => [Next]_vars
  BY DEF HealthNext, healthVars, Next, Ask, Read

LEMMA MonitorRuns == HealthSpec => Spec
  BY HealthStep, PTL DEF HealthSpec, HealthInit, Spec

--------------------------------------------------------------------------------
(* A link without a measurement has no other row a health is computed from, and *)
(* a deletion that will remove its measurement will remove those rows too, once *)
(* it has read them.                                                            *)
RowsInv ==
  \A l \in Links :
    /\ newest[l] = None => ~WasDown(l) /\ openRows[l] = NoAlerts
    /\ "measurement" \in Doomed(l) => Doomed(l) = ReadBy(deletion[l].queries)

LEMMA RowsInvInductive == TypeOK /\ RowsInv /\ [Next]_vars => RowsInv'
  <1> SUFFICES ASSUME TypeOK, RowsInv, [Next]_vars PROVE RowsInv'
    OBVIOUS
  <1> DEFINE Inv(l) ==
        /\ newest[l] = None => ~WasDown(l) /\ openRows[l] = NoAlerts
        /\ "measurement" \in Doomed(l) => Doomed(l) = ReadBy(deletion[l].queries)
  <1>0. \A l \in Links : Inv(l)
    BY DEF RowsInv
  <1>1. CASE Elapse
    <2>1. \A l \in Links : WasDown(l)' = WasDown(l)
      BY <1>1, ElapseKeepsFlag
    <2>2. QED
      BY <1>0, <1>1, <2>1 DEF Elapse, RowsInv, Doomed
  <1>2. ASSUME NEW l \in Links, PollCompletes(l) PROVE RowsInv'
    <2>1. PICK r \in PingResults[device[l]] : RecordResult(l, r)
      BY <1>2 DEF PollCompletes
    <2>2. r # None
      BY <2>1, IcmpAssumption DEF TypeOK
    <2>3. ASSUME NEW m \in Links PROVE Inv(m)'
      <3>1. CASE m = l
        <4>1. newest'[m] = r
          BY <2>1, <3>1 DEF RecordResult, TypeOK
        <4>2. "measurement" \notin Doomed(m)'
          BY <2>1, <3>1, RecordKeepsDeletions DEF Inserted
        <4>3. QED
          BY <2>2, <4>1, <4>2
      <3>2. CASE m # l
        <4>1. /\ pollState'[m] = pollState[m]
              /\ openRows'[m] = openRows[m]
              /\ newest'[m] = newest[m]
              /\ deletion'[m] = deletion[m] /\ Doomed(m)' = Doomed(m)
          BY <2>1, <3>2, RecordKeepsDeletions DEF RecordResult, TypeOK
        <4>2. QED
          BY <1>0, <4>1 DEF WasDown
      <3>3. QED
        BY <3>1, <3>2
    <2>4. QED
      BY <2>3 DEF RowsInv
  <1>3. ASSUME NEW l \in Links, BeginDelete(l) PROVE RowsInv'
    BY <1>0, <1>3, BeginDeleteStep DEF ReadBy, RowsInv, WasDown
  <1>8. ASSUME NEW l \in Links, ReadCascade(l) PROVE RowsInv'
    <2>1. ASSUME "measurement" \in Doomed(l)'
          PROVE  Doomed(l)' = ReadBy(deletion'[l].queries)
      <3>1. deletion[l].queries = 1 \/ deletion[l].queries = 2
        BY <1>8, ReadCascadeStep
      <3>2. CASE deletion[l].queries = 1
        <4>1. Doomed(l)' = Doomed(l) \cup AlertTypes \cup {"wan_recovered"}
          BY <1>8, <3>2, ReadCascadeStep, CascadeReads
        <4>2. Doomed(l) = {"measurement"}
          BY <1>0, <2>1, <3>2, <4>1 DEF ReadBy, AlertTypes
        <4>. QED
          BY <1>8, <3>2, <4>1, <4>2, ReadCascadeStep DEF ReadBy, Rows, AlertTypes
      <3>3. CASE deletion[l].queries = 2
        <4>1. Doomed(l)' = Doomed(l) \cup {"poll_state"}
          BY <1>8, <3>3, ReadCascadeStep, CascadeReads
        <4>2. Doomed(l) = Rows \ {"poll_state"}
          BY <1>0, <2>1, <3>3, <4>1 DEF ReadBy
        <4>. QED
          BY <1>8, <3>3, <4>1, <4>2, ReadCascadeStep DEF ReadBy, Rows
      <3>. QED
        BY <3>1, <3>2, <3>3
    <2>2. QED
      BY <1>0, <1>8, <2>1, ReadCascadeStep DEF RowsInv, WasDown
  <1>4. ASSUME NEW l \in Links, CommitDelete(l) PROVE RowsInv'
    <2>1. ASSUME NEW m \in Links PROVE Inv(m)'
      <3>1. CASE m = l
        <4>1. Doomed(m)' = {} /\ deletion[m].queries = 3
          BY <1>4, <3>1, CommitDeleteStep
        <4>2. /\ newest'[m] = IF "measurement" \in Doomed(m) THEN None ELSE newest[m]
              /\ pollState'[m] = IF "poll_state" \in Doomed(m) THEN None ELSE pollState[m]
              /\ openRows'[m] =
                   [t \in AlertTypes |-> IF t \in Doomed(m) THEN 0 ELSE openRows[m][t]]
          BY <1>4, <3>1 DEF CommitDelete, TypeOK
        <4>3. CASE "measurement" \in Doomed(m)
          <5>1. Doomed(m) = Rows
            BY <1>0, <4>1, <4>3 DEF ReadBy
          <5>2. pollState'[m] = None /\ openRows'[m] = NoAlerts
            BY <4>2, <5>1 DEF Rows, NoAlerts
          <5>3. QED
            BY <4>1, <5>2 DEF WasDown
        <4>4. CASE "measurement" \notin Doomed(m)
          <5>1. newest'[m] = newest[m]
            BY <4>2, <4>4
          <5>2. WasDown(m)' => WasDown(m)
            BY <4>2 DEF WasDown
          <5>3. openRows[m] = NoAlerts => openRows'[m] = NoAlerts
            BY <4>2 DEF NoAlerts
          <5>4. QED
            BY <1>0, <4>1, <5>1, <5>2, <5>3
        <4>5. QED
          BY <4>3, <4>4
      <3>2. CASE m # l
        <4>1. /\ pollState'[m] = pollState[m]
              /\ openRows'[m] = openRows[m]
              /\ newest'[m] = newest[m]
              /\ deletion'[m] = deletion[m] /\ Doomed(m)' = Doomed(m)
          BY <1>4, <3>2, CommitDeleteStep DEF CommitDelete, TypeOK
        <4>2. QED
          BY <1>0, <4>1 DEF WasDown
      <3>3. QED
        BY <3>1, <3>2
    <2>2. QED
      BY <2>1 DEF RowsInv
  <1>5. CASE UNCHANGED <<pollState, newest, openRows, deletion>>
    BY <1>0, <1>5 DEF RowsInv, Doomed, WasDown
  <1>6. CASE Restart
    BY <1>0, <1>6 DEF Restart, RowsInv, Doomed, WasDown
  <1>7. QED
    BY <1>1, <1>2, <1>3, <1>4, <1>5, <1>6, <1>8
       DEF Next, Step, vars, tables, Tick, UpdateSettings, DeviceChanges, RunTask, PingNow,
           PollFails, CreateLink, UpdatePollingInterval

LEMMA RowsGoTogether == Spec => []RowsInv
  <1>1. Init => RowsInv
    BY DEF Init, RowsInv, Doomed, WasDown
  <1>2. QED
    BY <1>1, RowsInvInductive, TypeCorrect, PTL DEF Spec

--------------------------------------------------------------------------------
(* What the queries so far have shown bounds the link's severity: not down when  *)
(* the flag was read, nothing worse than healthy when the alerts were.  Nothing  *)
(* is known of a link that was deleted meanwhile.                               *)
Bound(stage) ==
  IF stage = "poll_state" THEN 3 ELSE IF stage = "alerts" THEN 2 ELSE 1

RequestInv ==
  request # None =>
    \/ request.low = 0 /\ request.high = 3
    \/ /\ Monitored(request.link)
       /\ request.low <= Level[request.link] /\ Level[request.link] <= request.high
       /\ request.low <= Bound(request.stage)

LEMMA LevelCases ==
  ASSUME NEW l \in Links
  PROVE  /\ Level[l] \in Levels
         /\ Monitored(l) /\ WasDown(l) => Level[l] = 3
         /\ ~WasDown(l) => Level[l] <= 2
         /\ Monitored(l) /\ openRows[l] # NoAlerts => Level[l] >= 2
         /\ ~WasDown(l) /\ openRows[l] = NoAlerts => Level[l] <= 1
         /\ Monitored(l) /\ newest[l] # None => Level[l] >= 1
         /\ ~WasDown(l) /\ openRows[l] = NoAlerts /\ newest[l] = None => Level[l] = 0
  BY DEF Level, Levels, Severity, HealthOf

LEMMA NoAlertExists ==
  ASSUME TypeOK, NEW l \in Links
  PROVE  OpenAlertExists(l) <=> openRows[l] # NoAlerts
  <1>1. openRows[l] \in [AlertTypes -> Nat]
    BY DEF TypeOK
  <1>. QED
    BY <1>1 DEF OpenAlertExists, AlertOpen, NoAlerts

(* A link that exists keeps its monitored flag until it is deleted.             *)
LEMMA MonitoredLasts ==
  ASSUME TypeOK, [Next]_vars, NEW l \in Links, Monitored(l), link'[l] # None
  PROVE  Monitored(l)'
  <1>1. link[l] \in LinkRows
    BY DEF TypeOK, Monitored, Exists
  <1>2. ASSUME NEW m \in Links, NEW override \in Overrides \cup {None},
               UpdatePollingInterval(m, override)
        PROVE  Monitored(l)'
    BY <1>1, <1>2 DEF UpdatePollingInterval, Monitored, Exists, TypeOK, LinkRows
  <1>3. ASSUME NEW m \in Links, NEW row \in LinkRows, CreateLink(m, row)
        PROVE  Monitored(l)'
    BY <1>3 DEF CreateLink, Monitored, Exists, TypeOK
  <1>4. ASSUME NEW m \in Links, CommitDelete(m) PROVE Monitored(l)'
    BY <1>4 DEF CommitDelete, Monitored, Exists, TypeOK
  <1>5. CASE UNCHANGED link
    BY <1>5 DEF Monitored, Exists
  <1>6. QED
    BY <1>2, <1>3, <1>4, <1>5
       DEF Next, Step, vars, tables, Elapse, Tick, Restart, UpdateSettings, DeviceChanges,
           RunTask, PingNow, PollCompletes, RecordResult, PollFails, BeginDelete,
           ReadCascade

LEMMA ReadKeepsInv ==
  ASSUME HealthTypeOK, DownFlagHasAlert, RequestInv, Read
  PROVE  RequestInv'
  <1> DEFINE l == request.link
  <1>1. CASE Reply # None
    BY <1>1 DEF Read, RequestInv
  <1>2. CASE Reply = None
    <2>1. request \in Requests
      BY DEF Read, HealthTypeOK
    <2>2. /\ request' = [request EXCEPT !.stage = NextStage(@)]
          /\ UNCHANGED vars
      BY <1>2 DEF Read
    <2>3. request.stage # "measurements"
      BY <1>2, HealthAssumption DEF Reply, Severity
    <2>4. /\ request'.link = l /\ request'.low = request.low /\ request'.high = request.high
          /\ request'.stage = NextStage(request.stage)
      BY <2>1, <2>2 DEF Requests
    <2>5. Level' = Level /\ (Monitored(l) => Monitored(l)')
      BY <2>2 DEF vars, tables, Level, HealthOf, Monitored, Exists, WasDown
    <2>6. l \in Links
      BY <2>1 DEF Requests
    <2>7. CASE request.stage = "poll_state"
      <3>1. ~WasDown(l)
        BY <1>2, <2>7, HealthAssumption DEF Reply, Severity
      <3>2. Level[l] <= 2 /\ Bound(request'.stage) = 2
        BY <2>4, <2>6, <2>7, <3>1, LevelCases DEF NextStage, Bound
      <3>. QED
        BY <2>1, <2>4, <2>5, <2>6, <3>2, LevelCases
           DEF RequestInv, Requests, Levels, Monitored, Exists, Read
    <2>8. CASE request.stage = "alerts"
      <3>1. openRows[l] = NoAlerts
        BY <1>2, <2>6, <2>8, NoAlertExists, HealthAssumption DEF Reply, Severity, HealthTypeOK
      <3>2. ~WasDown(l)
        BY <2>6, <3>1 DEF DownFlagHasAlert, NoAlerts, AlertTypes
      <3>3. Level[l] <= 1 /\ Bound(request'.stage) = 1
        BY <2>4, <2>6, <2>8, <3>1, <3>2, LevelCases DEF NextStage, Bound
      <3>. QED
        BY <2>1, <2>4, <2>5, <2>6, <3>3, LevelCases
           DEF RequestInv, Requests, Levels, Monitored, Exists, Read
    <2>9. QED
      BY <2>1, <2>3, <2>7, <2>8 DEF Requests, Stages
  <1>3. QED
    BY <1>1, <1>2

LEMMA ObserveKeepsInv ==
  ASSUME HealthTypeOK, RequestInv, [Next]_vars, Observe
  PROVE  RequestInv' /\ request' \in Requests \cup {None}
  <1>1. CASE request = None
    BY <1>1 DEF Observe, RequestInv
  <1>2. CASE request # None
    <2>0. request \in Requests
      BY <1>2 DEF HealthTypeOK
    <2>1. PICK l \in Links : l = request.link
      BY <2>0 DEF Requests
    <2>2. CASE link'[l] = None
      <3>1. request' = [request EXCEPT !.low = 0, !.high = 3]
        BY <1>2, <2>1, <2>2 DEF Observe
      <3>2. request' \in Requests
        <4>1. 0 \in Levels /\ 3 \in Levels
          BY DEF Levels
        <4>. QED
          BY <2>0, <3>1, <4>1 DEF Requests
      <3>3. request'.low = 0 /\ request'.high = 3
        BY <2>0, <3>1 DEF Requests
      <3>. QED
        BY <3>2, <3>3 DEF RequestInv
    <2>3. CASE link'[l] # None
      <3>1. request' = [request EXCEPT !.low = Lower(@, Level'[l]), !.high = Higher(@, Level'[l])]
        BY <1>2, <2>1, <2>3 DEF Observe
      <3>2. Level'[l] \in Levels
        BY <2>1 DEF Level, Levels, Severity, HealthOf
      <3>3. request' \in Requests
        BY <2>0, <3>1, <3>2 DEF Requests, Lower, Higher
      <3>4. /\ request'.low = Lower(request.low, Level'[l])
            /\ request'.high = Higher(request.high, Level'[l])
            /\ request'.link = l /\ request'.stage = request.stage
        BY <2>0, <2>1, <3>1 DEF Requests
      <3>5. /\ request.low \in Levels /\ request.high \in Levels
        BY <2>0 DEF Requests
      <3>6. CASE request.low = 0 /\ request.high = 3
        <4>1. request'.low = 0 /\ request'.high = 3
          BY <3>2, <3>4, <3>5, <3>6 DEF Lower, Higher, Levels
        <4>. QED
          BY <3>3, <4>1 DEF RequestInv
      <3>7. CASE /\ Monitored(request.link)
                 /\ request.low <= Level[request.link] /\ Level[request.link] <= request.high
                 /\ request.low <= Bound(request.stage)
        <4>1. Monitored(l)'
          <5>1. Monitored(l)
            BY <2>1, <3>7
          <5>. QED
            BY <2>3, <5>1, MonitoredLasts DEF HealthTypeOK
        <4>2. Monitored(request.link)'
          BY <3>4, <4>1 DEF Monitored, Exists
        <4>3. /\ request'.low <= Level'[l]
              /\ Level'[l] <= request'.high
              /\ request'.low <= Bound(request'.stage)
          BY <3>2, <3>4, <3>5, <3>7 DEF Lower, Higher, Levels, Bound
        <4>. QED
          BY <3>3, <3>4, <4>2, <4>3 DEF RequestInv
      <3>. QED
        BY <1>2, <3>3, <3>6, <3>7 DEF RequestInv
    <2>4. QED
      BY <2>2, <2>3
  <1>3. QED
    BY <1>1, <1>2

LEMMA AskKeepsInv ==
  ASSUME HealthTypeOK, NEW m \in Links, Ask(m)
  PROVE  RequestInv' /\ request' \in Requests \cup {None}
  <1>1. CASE ~Monitored(m)
    BY <1>1 DEF Ask, RequestInv
  <1>2. CASE Monitored(m)
    <2>1. request' = [link |-> m, stage |-> "poll_state", low |-> Level[m], high |-> Level[m]]
      BY <1>2 DEF Ask
    <2>2. Level[m] \in Levels /\ Level[m] <= 3
      BY LevelCases DEF Levels
    <2>3. request' \in Requests
      BY <2>1, <2>2 DEF Requests, Stages
    <2>4. Level' = Level /\ Monitored(m)'
      BY <1>2 DEF Ask, vars, tables, Level, HealthOf, Monitored, Exists, WasDown
    <2>5. Monitored(request.link)'
      BY <2>1, <2>4 DEF Monitored, Exists
    <2>6. QED
      BY <2>1, <2>2, <2>3, <2>4, <2>5 DEF RequestInv, Bound, Levels
  <1>3. QED
    BY <1>1, <1>2

LEMMA RequestInvInductive ==
  HealthTypeOK /\ DownFlagHasAlert /\ RequestInv /\ [HealthNext]_healthVars =>
    RequestInv' /\ HealthTypeOK'
  <1> SUFFICES ASSUME HealthTypeOK, DownFlagHasAlert, RequestInv, [HealthNext]_healthVars
               PROVE  RequestInv' /\ request' \in Requests \cup {None}
    BY HealthStep, TypeOKInductive DEF HealthTypeOK
  <1>1. CASE Step /\ Observe
    BY <1>1, ObserveKeepsInv DEF Next
  <1>2. CASE Restart /\ request' = None
    BY <1>2 DEF RequestInv
  <1>3. ASSUME NEW m \in Links, Ask(m) PROVE RequestInv' /\ request' \in Requests \cup {None}
    BY <1>3, AskKeepsInv
  <1>4. CASE Read
    <2>1. request' \in Requests \cup {None}
      BY <1>4 DEF Read, HealthTypeOK, Requests, NextStage, Stages
    <2>2. QED
      BY <1>4, <2>1, ReadKeepsInv
  <1>5. CASE UNCHANGED healthVars
    BY <1>5 DEF healthVars, vars, tables, HealthTypeOK, RequestInv, Level, HealthOf, Monitored,
                Exists, WasDown
  <1>6. QED
    BY <1>1, <1>2, <1>3, <1>4, <1>5 DEF HealthNext

LEMMA RequestInvariant == HealthSpec => [](HealthTypeOK /\ RequestInv)
  <1>1. HealthInit => HealthTypeOK /\ RequestInv
    <2>1. Init => TypeOK
      BY IcmpAssumption DEF Init, TypeOK, NoAlerts
    <2>2. QED
      BY <2>1 DEF HealthInit, HealthTypeOK, RequestInv
  <1>2. QED
    BY <1>1, RequestInvInductive, MonitorRuns, DownFlagIsBacked, PTL DEF HealthSpec

(* The monitor and the request keep their types (health.py:61-84).              *)
THEOREM HealthTypeCorrect == HealthSpec => []HealthTypeOK
  BY RequestInvariant, PTL

(* A page shows a health the link had while it was asked for, or one between    *)
(* two it had, whatever is committed between the queries (health.py:61-84).     *)
THEOREM PagesShowTheHealth == HealthSpec => []AnswerIsOfTheRequest
  <1>1. ASSUME HealthTypeOK, RequestInv, RowsInv PROVE AnswerIsOfTheRequest
    <2>1. SUFFICES ASSUME request # None, Reply # None
                   PROVE  /\ request.low <= Severity[Reply]
                          /\ Severity[Reply] <= request.high
      BY DEF AnswerIsOfTheRequest
    <2>2. request \in Requests
      BY <1>1, <2>1 DEF HealthTypeOK
    <2>3. PICK l \in Links : l = request.link
      BY <2>2 DEF Requests
    <2>4. /\ request.low \in Levels /\ request.high \in Levels
          /\ request.stage \in Stages
      BY <2>2 DEF Requests
    <2>5. Level[l] \in Levels
      BY LevelCases
    <2>6. CASE request.low = 0 /\ request.high = 3
      <3>1. Reply \in {"unknown", "healthy", "warning", "critical"}
        BY <2>1 DEF Reply
      <3>. QED
        BY <2>6, <3>1 DEF Severity
    <2>7. CASE /\ Monitored(l)
               /\ request.low <= Level[l] /\ Level[l] <= request.high
               /\ request.low <= Bound(request.stage)
      <3>1. CASE request.stage = "poll_state"
        <4>1. WasDown(l) /\ Reply = "critical"
          BY <2>1, <2>3, <3>1 DEF Reply
        <4>. QED
          BY <2>4, <2>7, <4>1, LevelCases DEF Severity, Levels
      <3>2. CASE request.stage = "alerts"
        <4>1. OpenAlertExists(l) /\ Reply = "warning"
          BY <2>1, <2>3, <3>2 DEF Reply
        <4>2. Level[l] >= 2
          BY <1>1, <2>7, <4>1, LevelCases, NoAlertExists DEF HealthTypeOK
        <4>. QED
          BY <2>4, <2>5, <2>7, <3>2, <4>1, <4>2 DEF Severity, Levels, Bound
      <3>3. CASE request.stage = "measurements"
        <4>1. CASE newest[l] = None
          <5>1. Level[l] = 0 /\ Reply = "unknown"
            BY <1>1, <2>3, <3>3, <4>1, LevelCases DEF RowsInv, Reply
          <5>. QED
            BY <2>4, <2>7, <5>1 DEF Severity, Levels
        <4>2. CASE newest[l] # None
          <5>1. Level[l] >= 1 /\ Reply = "healthy"
            BY <2>3, <2>7, <3>3, <4>2, LevelCases DEF Reply
          <5>. QED
            BY <2>4, <2>5, <2>7, <3>3, <5>1 DEF Severity, Levels, Bound
        <4>3. QED
          BY <4>1, <4>2
      <3>4. QED
        BY <2>4, <3>1, <3>2, <3>3 DEF Stages
    <2>8. QED
      BY <1>1, <2>1, <2>3, <2>6, <2>7 DEF RequestInv
  <1>2. QED
    BY <1>1, RequestInvariant, RowsGoTogether, MonitorRuns, PTL
================================================================================
