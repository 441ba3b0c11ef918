--------------------------- MODULE IcmpMonitorProofs ---------------------------
(* Machine-checked proofs of the safety properties of IcmpMonitor, for every    *)
(* number of links, every cadence, every set of ping results and thresholds.    *)
EXTENDS IcmpMonitor, TLAPS

(* The engine answers with one of its three actions.                            *)
LEMMA DecisionIsAction ==
  ASSUME NEW l, NEW t \in AlertTypes, NEW r
  PROVE  Decision(l, t, r) \in AlertActions
  BY DEF Decision, AlertTypes, AlertActions, EvaluateAvailability,
         EvaluateHighLatency, EvaluatePacketLoss, ThresholdDecision

(* Recording a result adds at most one open row of a type to none and takes at  *)
(* most one away: the number of open rows stays a natural number.               *)
LEMMA OpenRowsAfterType ==
  ASSUME TypeOK, NEW l \in Links, NEW t \in AlertTypes, NEW r
  PROVE  OpenRowsAfter(l, t, r) \in Nat
  <1>1. openRows[l][t] \in Nat
    BY DEF TypeOK
  <1>2. QED
    BY <1>1 DEF OpenRowsAfter, OpenAlert, CloseAlert, AlertOpen

LEMMA IsDownAfterType ==
  ASSUME TypeOK, NEW l \in Links, NEW r
  PROVE  IsDownAfter(l, r) \in BOOLEAN
  <1>1. WasDown(l) \in BOOLEAN
    BY DEF TypeOK, WasDown, PollStates
  <1>2. QED
    BY <1>1 DEF IsDownAfter

LEMMA RecordResultType ==
  ASSUME TypeOK, NEW l \in Links, NEW r \in Results, RecordResult(l, r)
  PROVE  /\ pollState' \in [Links -> PollStates \cup {None}]
         /\ newest' \in [Links -> Results \cup {None}]
         /\ openRows' \in [Links -> [AlertTypes -> Nat]]
         /\ recovered' \in [Links -> BOOLEAN]
         /\ deletion' \in [Links -> Deletions \cup {None}]
         /\ UNCHANGED <<link, inherited>>
  <1>1. [age |-> 0, isDown |-> IsDownAfter(l, r)] \in PollStates
    BY IsDownAfterType, IcmpAssumption DEF PollStates
  <1>2. [t \in AlertTypes |-> OpenRowsAfter(l, t, r)] \in [AlertTypes -> Nat]
    BY OpenRowsAfterType
  <1>3. Recovers(l, r) \in BOOLEAN
    BY DEF Recovers
  <1>4. pollState' \in [Links -> PollStates \cup {None}]
    BY <1>1 DEF RecordResult, TypeOK
  <1>5. openRows' \in [Links -> [AlertTypes -> Nat]]
    BY <1>2 DEF RecordResult, TypeOK
  <1>6. recovered' \in [Links -> BOOLEAN]
    BY <1>3 DEF RecordResult, TypeOK
  <1>7. deletion' \in [Links -> Deletions \cup {None}]
    <2>1. ASSUME deletion[l] # None
          PROVE  [queries |-> deletion[l].queries,
                  rows |-> deletion[l].rows \ Inserted(l, r)] \in Deletions
      BY <2>1 DEF TypeOK, Deletions
    <2>2. QED
      BY <2>1 DEF RecordResult, TypeOK
  <1>8. QED
    BY <1>4, <1>5, <1>6, <1>7 DEF RecordResult, TypeOK

(* What the steps of a deletion, and a poll beside it, do to the rows it holds.   *)
LEMMA CascadeReads ==
  /\ Cascade[1] = {"measurement"}
  /\ Cascade[2] = AlertTypes \cup {"wan_recovered"}
  /\ Cascade[3] = {"poll_state"}
  BY DEF Cascade

LEMMA RecordKeepsDeletions ==
  ASSUME TypeOK, NEW l \in Links, NEW r, RecordResult(l, r)
  PROVE  /\ Doomed(l)' = Doomed(l) \ Inserted(l, r)
         /\ deletion'[l] = None <=> deletion[l] = None
         /\ deletion[l] # None => deletion'[l].queries = deletion[l].queries
         /\ \A m \in Links \ {l} : deletion'[m] = deletion[m] /\ Doomed(m)' = Doomed(m)
  <1>1. deletion'[l] = IF deletion[l] = None THEN None
                       ELSE [queries |-> deletion[l].queries,
                             rows |-> deletion[l].rows \ Inserted(l, r)]
    BY DEF RecordResult, TypeOK
  <1>2. \A m \in Links \ {l} : deletion'[m] = deletion[m] /\ Doomed(m)' = Doomed(m)
    BY DEF RecordResult, TypeOK, Doomed
  <1>3. CASE deletion[l] = None
    BY <1>1, <1>2, <1>3 DEF Doomed
  <1>4. CASE deletion[l] # None
    <2>1. deletion[l] \in Deletions /\ deletion'[l] \in Deletions
      BY <1>1, <1>4 DEF TypeOK, Deletions
    <2>2. deletion'[l] # None
      BY <2>1, IcmpAssumption
    <2>3. /\ deletion'[l].rows = deletion[l].rows \ Inserted(l, r)
          /\ deletion'[l].queries = deletion[l].queries
      BY <1>1, <1>4, <2>1 DEF Deletions
    <2>4. QED
      BY <1>2, <1>4, <2>2, <2>3 DEF Doomed
  <1>5. QED
    BY <1>3, <1>4

LEMMA BeginDeleteStep ==
  ASSUME TypeOK, NEW l \in Links, BeginDelete(l)
  PROVE  /\ deletion' \in [Links -> Deletions \cup {None}]
         /\ deletion'[l] # None /\ deletion'[l].queries = 1
         /\ Doomed(l)' = {"measurement"}
         /\ \A m \in Links \ {l} : deletion'[m] = deletion[m] /\ Doomed(m)' = Doomed(m)
         /\ UNCHANGED <<link, pollState, newest, openRows, recovered, inherited>>
  <1>1. [queries |-> 1, rows |-> {"measurement"}] \in Deletions
    BY DEF Deletions, Rows
  <1>2. deletion' = [deletion EXCEPT ![l] = [queries |-> 1, rows |-> {"measurement"}]]
    BY CascadeReads DEF BeginDelete
  <1>3. deletion'[l] = [queries |-> 1, rows |-> {"measurement"}] /\ deletion'[l] # None
    BY <1>1, <1>2, IcmpAssumption DEF TypeOK
  <1>4. Doomed(l)' = {"measurement"}
    BY <1>3 DEF Doomed
  <1>5. QED
    BY <1>1, <1>2, <1>3, <1>4 DEF BeginDelete, TypeOK, Doomed

LEMMA ReadCascadeStep ==
  ASSUME TypeOK, NEW l \in Links, ReadCascade(l)
  PROVE  /\ deletion' \in [Links -> Deletions \cup {None}]
         /\ deletion[l] # None /\ deletion'[l] # None
         /\ deletion[l].queries \in 1..2
         /\ deletion'[l].queries = deletion[l].queries + 1
         /\ Doomed(l)' = Doomed(l) \cup Cascade[deletion[l].queries + 1]
         /\ \A m \in Links \ {l} : deletion'[m] = deletion[m] /\ Doomed(m)' = Doomed(m)
         /\ UNCHANGED <<link, pollState, newest, openRows, recovered, inherited>>
  <1>. DEFINE next == [queries |-> deletion[l].queries + 1,
                       rows |-> deletion[l].rows \cup Cascade[deletion[l].queries + 1]]
  <1>1. deletion[l] # None /\ deletion[l] \in Deletions /\ deletion[l].queries \in 1..2
    BY DEF ReadCascade, TypeOK, Deletions
  <1>2. deletion[l].queries + 1 \in {2, 3} /\ deletion[l].rows \in SUBSET Rows
    BY <1>1 DEF Deletions
  <1>3. Cascade[deletion[l].queries + 1] \in SUBSET Rows
    BY <1>2, CascadeReads DEF Rows
  <1>4. next \in Deletions /\ next # None
    BY <1>2, <1>3, IcmpAssumption DEF Deletions
  <1>5. deletion' = [deletion EXCEPT ![l] = next]
    BY DEF ReadCascade
  <1>6. deletion'[l] = next
    BY <1>5 DEF TypeOK
  <1>7. Doomed(l) = deletion[l].rows /\ Doomed(l)' = next.rows
    BY <1>1, <1>4, <1>6 DEF Doomed
  <1>8. QED
    BY <1>1, <1>4, <1>5, <1>6, <1>7 DEF ReadCascade, TypeOK, Doomed

LEMMA CommitDeleteStep ==
  ASSUME TypeOK, NEW l \in Links, CommitDelete(l)
  PROVE  /\ deletion[l] # None /\ deletion[l].queries = 3 /\ deletion'[l] = None
         /\ Doomed(l)' = {}
         /\ \A m \in Links \ {l} : deletion'[m] = deletion[m] /\ Doomed(m)' = Doomed(m)
  BY DEF CommitDelete, TypeOK, Doomed

LEMMA AgedType ==
  ASSUME NEW state \in PollStates \cup {None}
  PROVE  Aged(state) \in PollStates \cup {None}
  <1>1. MaxInterval \in Nat /\ None \notin PollStates
    BY IcmpAssumption
  <1>2. CASE state = None \/ state.age = MaxInterval
    BY <1>2 DEF Aged
  <1>3. CASE state \in PollStates /\ state.age # MaxInterval
    <2>1. [state EXCEPT !.age = @ + 1] \in PollStates
      BY <1>1, <1>3 DEF PollStates
    <2>2. QED
      BY <1>1, <1>3, <2>1 DEF Aged
  <1>4. QED
    BY <1>2, <1>3

(* The passing of time changes no flag and makes no row.                        *)
LEMMA ElapseKeepsFlag ==
  ASSUME TypeOK, Elapse, NEW l \in Links
  PROVE  /\ WasDown(l)' = WasDown(l)
         /\ pollState'[l] # None <=> pollState[l] # None
  <1>1. pollState'[l] = Aged(pollState[l])
    BY DEF Elapse
  <1>2. CASE pollState[l] = None \/ pollState[l].age = MaxInterval
    <2>1. pollState'[l] = pollState[l]
      BY <1>1, <1>2 DEF Aged
    <2>2. QED
      BY <2>1 DEF WasDown
  <1>3. CASE pollState[l] # None /\ pollState[l].age # MaxInterval
    <2>1. MaxInterval \in Nat /\ None \notin PollStates
      BY IcmpAssumption
    <2>2. pollState[l] \in PollStates
      BY <1>3 DEF TypeOK
    <2>3. pollState'[l] = [pollState[l] EXCEPT !.age = @ + 1]
      BY <1>1, <1>3 DEF Aged
    <2>4. pollState'[l] \in PollStates /\ pollState'[l].isDown = pollState[l].isDown
      BY <1>3, <2>1, <2>2, <2>3 DEF PollStates
    <2>5. pollState'[l] # None
      BY <2>1, <2>4
    <2>6. QED
      BY <1>3, <2>4, <2>5 DEF WasDown
  <1>4. QED
    BY <1>2, <1>3

LEMMA BeginPollType ==
  ASSUME TypeOK, NEW l \in Links, BeginPoll(l)
  PROVE  lock' \in [Links -> BOOLEAN] /\ pinging' \in [Links -> Nat]
  <1>1. CASE Locked(l) \/ ~Monitored(l)
    BY <1>1 DEF BeginPoll, TypeOK
  <1>2. CASE ~(Locked(l) \/ ~Monitored(l))
    <2>1. lock \in [Links -> BOOLEAN] /\ pinging \in [Links -> Nat]
      BY DEF TypeOK
    <2>2. /\ lock' = [lock EXCEPT ![l] = TRUE]
          /\ pinging' = [pinging EXCEPT ![l] = @ + 1]
      BY <1>2, Zenon DEF BeginPoll
    <2>3. QED
      BY <2>1, <2>2
  <1>3. QED
    BY <1>1, <1>2

(* Type correctness is inductive as it stands.                                  *)
LEMMA TypeOKInductive == TypeOK /\ [Next]_vars => TypeOK'
  <1> SUFFICES ASSUME TypeOK, [Next]_vars PROVE TypeOK'
    OBVIOUS
  <1> USE DEF tables, tasks
  <1>1. CASE Elapse
    <2>1. ASSUME NEW l \in Links PROVE Aged(pollState[l]) \in PollStates \cup {None}
      BY AgedType DEF TypeOK
    <2>2. QED
      BY <1>1, <2>1 DEF Elapse, TypeOK
  <1>2. CASE Tick
    BY <1>2, IcmpAssumption DEF Tick, TypeOK
  <1>3. ASSUME NEW interval \in Intervals, UpdateSettings(interval) PROVE TypeOK'
    BY <1>3 DEF UpdateSettings, TypeOK
  <1>4. ASSUME NEW l \in Links, NEW d \in Devices, DeviceChanges(l, d) PROVE TypeOK'
    BY <1>4 DEF DeviceChanges, TypeOK
  <1>5. ASSUME NEW l \in Links, RunTask(l) PROVE TypeOK'
    <2>1. MaxSpawned \in Nat
      BY IcmpAssumption
    <2>2. spawned' \in [Links -> 0..MaxSpawned]
      BY <1>5, <2>1 DEF RunTask, TypeOK
    <2>3. QED
      BY <1>5, <2>2, BeginPollType DEF RunTask, TypeOK
  <1>6. ASSUME NEW l \in Links, PingNow(l) PROVE TypeOK'
    BY <1>6, BeginPollType DEF PingNow, TypeOK
  <1>7. ASSUME NEW l \in Links, PollCompletes(l) PROVE TypeOK'
    <2>1. PICK r \in PingResults[device[l]] : RecordResult(l, r)
      BY <1>7 DEF PollCompletes
    <2>2. r \in Results
      BY <2>1, IcmpAssumption DEF TypeOK
    <2>3. lock' \in [Links -> BOOLEAN] /\ pinging' \in [Links -> Nat]
      BY <1>7 DEF PollCompletes, EndPoll, TypeOK
    <2>4. QED
      BY <1>7, <2>1, <2>2, <2>3, RecordResultType DEF PollCompletes, TypeOK
  <1>8. ASSUME NEW l \in Links, PollFails(l) PROVE TypeOK'
    BY <1>8 DEF PollFails, EndPoll, TypeOK
  <1>9. ASSUME NEW l \in Links, NEW row \in LinkRows, CreateLink(l, row) PROVE TypeOK'
    <2>1. HasRows(l) \in BOOLEAN
      BY DEF HasRows, TypeOK
    <2>2. QED
      BY <1>9, <2>1 DEF CreateLink, TypeOK
  <1>10. ASSUME NEW l \in Links, NEW override \in Overrides \cup {None},
                UpdatePollingInterval(l, override)
         PROVE  TypeOK'
    <2>1. [link[l] EXCEPT !.override = override] \in LinkRows
      BY <1>10 DEF UpdatePollingInterval, Exists, TypeOK, LinkRows
    <2>2. QED
      BY <1>10, <2>1 DEF UpdatePollingInterval, TypeOK
  <1>11. ASSUME NEW l \in Links, BeginDelete(l) PROVE TypeOK'
    BY <1>11, BeginDeleteStep DEF BeginDelete, TypeOK
  <1>15. ASSUME NEW l \in Links, ReadCascade(l) PROVE TypeOK'
    BY <1>15, ReadCascadeStep DEF ReadCascade, TypeOK
  <1>12. ASSUME NEW l \in Links, CommitDelete(l) PROVE TypeOK'
    BY <1>12 DEF CommitDelete, TypeOK
  <1>13. CASE UNCHANGED vars
    BY <1>13 DEF vars, TypeOK
  <1>14. CASE Restart
    BY <1>14, IcmpAssumption DEF Restart, TypeOK
  <1>16. QED
    BY <1>1, <1>2, <1>3, <1>4, <1>5, <1>6, <1>7, <1>8, <1>9, <1>10, <1>11, <1>12,
       <1>13, <1>14, <1>15 DEF Next, Step

(* Every variable keeps its type in every behaviour of the model.               *)
THEOREM TypeCorrect == Spec => []TypeOK
  <1>1. Init => TypeOK
    <2>1. MaxSpawned \in Nat
      BY IcmpAssumption
    <2>2. QED
      BY <2>1 DEF Init, TypeOK, NoAlerts
  <1>2. QED
    BY <1>1, TypeOKInductive, PTL DEF Spec

--------------------------------------------------------------------------------
(* The lock is held exactly while one poll of the link waits for its ping.      *)
LockInv == \A l \in Links : pinging[l] = IF lock[l] THEN 1 ELSE 0

LEMMA LockInvInductive == TypeOK /\ LockInv /\ [Next]_vars => LockInv'
  <1> SUFFICES ASSUME TypeOK, LockInv, [Next]_vars PROVE LockInv'
    OBVIOUS
  <1>1. ASSUME NEW l \in Links, BeginPoll(l) PROVE LockInv'
    BY <1>1 DEF BeginPoll, Locked, LockInv, TypeOK
  <1>2. ASSUME NEW l \in Links, EndPoll(l) PROVE LockInv'
    BY <1>2 DEF EndPoll, LockInv, TypeOK
  <1>3. CASE UNCHANGED <<lock, pinging>>
    BY <1>3 DEF LockInv
  <1>4. CASE Restart
    BY <1>4 DEF Restart, LockInv
  <1>5. QED
    BY <1>1, <1>2, <1>3, <1>4
       DEF Next, Step, vars, tasks, Elapse, Tick, UpdateSettings, DeviceChanges, RunTask, PingNow,
           PollCompletes, PollFails, CreateLink, UpdatePollingInterval, BeginDelete,
           ReadCascade, CommitDelete

(* No target is ever pinged by two polls at once (worker.py:127-132).           *)
THEOREM PollsNeverOverlap == Spec => []NoOverlap
  <1>1. Init => LockInv
    BY DEF Init, LockInv
  <1>2. LockInv => NoOverlap
    BY DEF LockInv, NoOverlap
  <1>3. QED
    BY <1>1, <1>2, LockInvInductive, TypeCorrect, PTL DEF Spec

--------------------------------------------------------------------------------
(* Recording a result keeps at most one row open, because both the decision and *)
(* _open_alert look for an open one first.                                      *)
LEMMA RecordKeepsOne ==
  ASSUME TypeOK, NEW l \in Links, NEW t \in AlertTypes, NEW r, openRows[l][t] <= 1
  PROVE  OpenRowsAfter(l, t, r) <= 1
  <1>1. openRows[l][t] \in Nat
    BY DEF TypeOK
  <1>2. QED
    BY <1>1 DEF OpenRowsAfter, OpenAlert, CloseAlert, AlertOpen

LEMMA OneOpenAlertInductive == TypeOK /\ OneOpenAlert /\ [Next]_vars => OneOpenAlert'
  <1> SUFFICES ASSUME TypeOK, OneOpenAlert, [Next]_vars PROVE OneOpenAlert'
    OBVIOUS
  <1>1. ASSUME NEW l \in Links, PollCompletes(l) PROVE OneOpenAlert'
    <2>1. PICK r \in PingResults[device[l]] : RecordResult(l, r)
      BY <1>1 DEF PollCompletes
    <2>2. SUFFICES ASSUME NEW m \in Links, NEW t \in AlertTypes
                   PROVE  openRows'[m][t] <= 1
      BY DEF OneOpenAlert
    <2>3. CASE m = l
      BY <2>1, <2>3, RecordKeepsOne DEF RecordResult, OneOpenAlert, TypeOK
    <2>4. CASE m # l
      BY <2>1, <2>4 DEF RecordResult, OneOpenAlert, TypeOK
    <2>5. QED
      BY <2>3, <2>4
  <1>2. ASSUME NEW l \in Links, CommitDelete(l) PROVE OneOpenAlert'
    BY <1>2 DEF CommitDelete, OneOpenAlert, TypeOK
  <1>3. CASE UNCHANGED openRows
    BY <1>3 DEF OneOpenAlert
  <1>4. QED
    BY <1>1, <1>2, <1>3
       DEF Next, Step, vars, tables, Elapse, Tick, Restart, UpdateSettings, DeviceChanges, RunTask,
           PingNow, PollFails, CreateLink, UpdatePollingInterval, BeginDelete,
           ReadCascade

(* No link ever has two open alerts of one type (worker.py:69-97).              *)
THEOREM AlertsAreUnique == Spec => []OneOpenAlert
  <1>1. Init => OneOpenAlert
    BY DEF Init, OneOpenAlert, NoAlerts
  <1>2. QED
    BY <1>1, OneOpenAlertInductive, TypeCorrect, PTL DEF Spec

--------------------------------------------------------------------------------
(* Why the flag cannot outlive its alert when a deletion removes rows: if the   *)
(* deletion has read the alert that set the flag, it has read the flag too or   *)
(* has yet to read it.                                                          *)
FlagIsDoomed(l) == deletion[l].queries = 3 => "poll_state" \in Doomed(l)

FlagInv ==
  \A l \in Links : WasDown(l) =>
    /\ openRows[l]["wan_down"] > 0
    /\ "wan_down" \in Doomed(l) => FlagIsDoomed(l)

LEMMA RecordKeepsFlagInv ==
  ASSUME TypeOK, FlagInv, NEW l \in Links, NEW r, RecordResult(l, r)
  PROVE  FlagInv'
  <1> DEFINE d == Decision(l, "wan_down", r)
  <1> DEFINE n == openRows[l]["wan_down"]
  <1>1. "wan_down" \in AlertTypes /\ n \in Nat
    BY DEF TypeOK, AlertTypes
  <1>2. d = IF ~r.reachable /\ ~(n > 0) THEN "open"
            ELSE IF r.reachable /\ n > 0 THEN "close" ELSE "none"
    BY DEF Decision, EvaluateAvailability, AlertOpen
  <1>3. SUFFICES ASSUME NEW m \in Links, WasDown(m)'
                 PROVE  /\ openRows'[m]["wan_down"] > 0
                        /\ "wan_down" \in Doomed(m)' => FlagIsDoomed(m)'
    BY DEF FlagInv
  <1>4. CASE m # l
    <2>1. /\ pollState'[m] = pollState[m]
          /\ openRows'[m] = openRows[m]
          /\ deletion'[m] = deletion[m] /\ Doomed(m)' = Doomed(m)
      BY <1>4, RecordKeepsDeletions DEF RecordResult, TypeOK
    <2>2. WasDown(m)
      BY <1>3, <2>1 DEF WasDown
    <2>3. QED
      BY <2>1, <2>2 DEF FlagInv, FlagIsDoomed
  <1>5. CASE m = l
    <2>1. IsDownAfter(l, r)
      BY <1>3, <1>5 DEF WasDown, RecordResult, TypeOK
    <2>2. openRows'[l]["wan_down"] = OpenRowsAfter(l, "wan_down", r)
      BY <1>1 DEF RecordResult, TypeOK
    <2>3. /\ Doomed(l)' = Doomed(l) \ Inserted(l, r)
          /\ "wan_down" \in Doomed(l) => deletion'[l].queries = deletion[l].queries
      BY RecordKeepsDeletions DEF Doomed
    <2>4. CASE d = "open"
      <3>1. n = 0 /\ OpenRowsAfter(l, "wan_down", r) = 1
        BY <1>1, <1>2, <2>4 DEF OpenRowsAfter, OpenAlert, AlertOpen
      <3>2. "wan_down" \in Inserted(l, r)
        BY <1>1, <3>1 DEF Inserted
      <3>3. QED
        BY <1>5, <2>2, <2>3, <3>1, <3>2
    <2>5. CASE d # "open"
      <3>1. d # "close" /\ WasDown(l)
        BY <2>1, <2>5 DEF IsDownAfter
      <3>2. OpenRowsAfter(l, "wan_down", r) = n
        BY <2>5, <3>1 DEF OpenRowsAfter
      <3>3. n > 0 /\ ("wan_down" \in Doomed(l) => FlagIsDoomed(l))
        BY <3>1 DEF FlagInv
      <3>4. "poll_state" \notin Inserted(l, r)
        BY <3>1 DEF Inserted, WasDown, Recovers, AlertTypes
      <3>5. QED
        BY <1>5, <2>2, <2>3, <3>2, <3>3, <3>4 DEF FlagIsDoomed
    <2>6. QED
      BY <2>4, <2>5
  <1>6. QED
    BY <1>4, <1>5

LEMMA FlagInvInductive == TypeOK /\ FlagInv /\ [Next]_vars => FlagInv'
  <1> SUFFICES ASSUME TypeOK, FlagInv, [Next]_vars PROVE FlagInv'
    OBVIOUS
  <1>1. CASE Elapse
    <2>1. \A l \in Links : WasDown(l)' = WasDown(l)
      BY <1>1, ElapseKeepsFlag
    <2>2. QED
      BY <1>1, <2>1 DEF Elapse, FlagInv, FlagIsDoomed, Doomed
  <1>2. ASSUME NEW l \in Links, PollCompletes(l) PROVE FlagInv'
    BY <1>2, RecordKeepsFlagInv DEF PollCompletes
  <1>3. ASSUME NEW l \in Links, BeginDelete(l) PROVE FlagInv'
    BY <1>3, BeginDeleteStep DEF FlagInv, FlagIsDoomed, WasDown
  <1>8. ASSUME NEW l \in Links, ReadCascade(l) PROVE FlagInv'
    <2>1. ASSUME "wan_down" \in Doomed(l)' PROVE FlagIsDoomed(l)'
      <3>1. deletion[l].queries = 2 => "poll_state" \in Doomed(l)'
        BY <1>8, ReadCascadeStep, CascadeReads
      <3>2. QED
        BY <1>8, <3>1, ReadCascadeStep DEF FlagIsDoomed
    <2>2. QED
      BY <1>8, <2>1, ReadCascadeStep DEF FlagInv, FlagIsDoomed, WasDown
  <1>4. ASSUME NEW l \in Links, CommitDelete(l) PROVE FlagInv'
    <2>1. SUFFICES ASSUME NEW m \in Links, WasDown(m)'
                   PROVE  /\ openRows'[m]["wan_down"] > 0
                          /\ "wan_down" \in Doomed(m)' => FlagIsDoomed(m)'
      BY DEF FlagInv
    <2>2. CASE m = l
      <3>1. "poll_state" \notin Doomed(l) /\ WasDown(l) /\ deletion[l].queries = 3
        BY <1>4, <2>1, <2>2 DEF CommitDelete, WasDown, TypeOK
      <3>2. openRows[l]["wan_down"] > 0 /\ "wan_down" \notin Doomed(l)
        BY <3>1 DEF FlagInv, FlagIsDoomed
      <3>3. openRows'[l]["wan_down"] > 0
        BY <1>4, <3>2 DEF CommitDelete, TypeOK, AlertTypes
      <3>4. Doomed(l)' = {}
        BY <1>4, CommitDeleteStep
      <3>5. QED
        BY <2>2, <3>3, <3>4
    <2>3. CASE m # l
      <3>1. /\ pollState'[m] = pollState[m]
            /\ openRows'[m] = openRows[m]
            /\ deletion'[m] = deletion[m] /\ Doomed(m)' = Doomed(m)
        BY <1>4, <2>3, CommitDeleteStep DEF CommitDelete, TypeOK
      <3>2. WasDown(m)
        BY <2>1, <3>1 DEF WasDown
      <3>3. QED
        BY <3>1, <3>2 DEF FlagInv, FlagIsDoomed
    <2>4. QED
      BY <2>2, <2>3
  <1>5. CASE UNCHANGED <<pollState, openRows, deletion>>
    BY <1>5 DEF FlagInv, FlagIsDoomed, Doomed, WasDown
  <1>6. CASE Restart
    BY <1>6 DEF Restart, FlagInv, Doomed, WasDown
  <1>7. QED
    BY <1>1, <1>2, <1>3, <1>4, <1>5, <1>6, <1>8
       DEF Next, Step, vars, tables, Tick, UpdateSettings, DeviceChanges, RunTask, PingNow,
           PollFails, CreateLink, UpdatePollingInterval

(* poll_states.is_down is never set without an open outage alert, whatever      *)
(* deletions and reused ids do (worker.py:166-171).                             *)
THEOREM DownFlagIsBacked == Spec => []DownFlagHasAlert
  <1>1. Init => FlagInv
    BY DEF Init, FlagInv, WasDown
  <1>2. FlagInv => DownFlagHasAlert
    BY DEF FlagInv, DownFlagHasAlert
  <1>3. QED
    BY <1>1, <1>2, FlagInvInductive, TypeCorrect, PTL DEF Spec

--------------------------------------------------------------------------------
(* What the refinement needs of a running deletion: its link is still there,    *)
(* and if it has read an open outage alert it has read every earlier recovery.  *)
DeleteInv ==
  \A l \in Links : deletion[l] # None =>
    /\ Exists(l)
    /\ openRows[l]["wan_down"] > 0 /\ recovered[l] /\ "wan_down" \in Doomed(l) =>
         "wan_recovered" \in Doomed(l)

LEMMA OneOutage ==
  ASSUME TypeOK, OneOpenAlert, NEW l \in Links
  PROVE  openRows[l]["wan_down"] \in {0, 1}
  <1>1. "wan_down" \in AlertTypes
    BY DEF AlertTypes
  <1>2. openRows[l]["wan_down"] \in Nat
    BY <1>1 DEF TypeOK
  <1>3. openRows[l]["wan_down"] <= 1
    BY <1>1 DEF OneOpenAlert
  <1>4. QED
    BY <1>2, <1>3

LEMMA RecordKeepsDeleteInv ==
  ASSUME TypeOK, DeleteInv, OneOpenAlert, NEW l \in Links, NEW r, RecordResult(l, r)
  PROVE  DeleteInv'
  <1> DEFINE n == openRows[l]["wan_down"]
  <1>1. "wan_down" \in AlertTypes /\ "wan_recovered" \notin AlertTypes /\ n \in {0, 1}
    BY OneOutage DEF AlertTypes
  <1>2. SUFFICES ASSUME NEW m \in Links, deletion'[m] # None
                 PROVE  /\ Exists(m)'
                        /\ openRows'[m]["wan_down"] > 0 /\ recovered'[m]
                             /\ "wan_down" \in Doomed(m)' => "wan_recovered" \in Doomed(m)'
    BY DEF DeleteInv
  <1>3. CASE m # l
    <2>1. /\ link' = link /\ openRows'[m] = openRows[m] /\ recovered'[m] = recovered[m]
          /\ deletion'[m] = deletion[m] /\ Doomed(m)' = Doomed(m)
      BY <1>3, RecordKeepsDeletions DEF RecordResult, TypeOK
    <2>2. QED
      BY <1>2, <2>1 DEF DeleteInv, Exists
  <1>4. CASE m = l
    <2>1. /\ openRows'[l]["wan_down"] = OpenRowsAfter(l, "wan_down", r)
          /\ recovered'[l] = (recovered[l] \/ Recovers(l, r))
          /\ link' = link
      BY <1>1 DEF RecordResult, TypeOK
    <2>2. deletion[l] # None /\ Doomed(l)' = Doomed(l) \ Inserted(l, r)
      BY <1>2, <1>4, RecordKeepsDeletions
    <2>3. Exists(l)'
      BY <2>1, <2>2 DEF DeleteInv, Exists
    <2>4. ASSUME openRows'[l]["wan_down"] > 0, recovered'[l], "wan_down" \in Doomed(l)'
          PROVE  "wan_recovered" \in Doomed(l)'
      <3>1. OpenRowsAfter(l, "wan_down", r) <= n
        BY <1>1, <2>2, <2>4, OpenRowsAfterType DEF Inserted
      <3>2. n = 1 /\ OpenRowsAfter(l, "wan_down", r) = 1
        BY <1>1, <2>1, <2>4, <3>1, OpenRowsAfterType
      <3>3. ~Recovers(l, r)
        BY <3>2 DEF Recovers, OpenRowsAfter, CloseAlert, AlertOpen
      <3>4. "wan_recovered" \in Doomed(l)
        BY <2>1, <2>2, <2>4, <3>2, <3>3 DEF DeleteInv
      <3>5. "wan_recovered" \notin Inserted(l, r)
        BY <1>1, <3>3 DEF Inserted
      <3>6. QED
        BY <2>2, <3>4, <3>5
    <2>5. QED
      BY <1>4, <2>3, <2>4
  <1>5. QED
    BY <1>3, <1>4

LEMMA DeleteInvInductive ==
  TypeOK /\ OneOpenAlert /\ DeleteInv /\ [Next]_vars => DeleteInv'
  <1> SUFFICES ASSUME TypeOK, OneOpenAlert, DeleteInv, [Next]_vars PROVE DeleteInv'
    OBVIOUS
  <1>1. ASSUME NEW l \in Links, PollCompletes(l) PROVE DeleteInv'
    BY <1>1, RecordKeepsDeleteInv DEF PollCompletes
  <1>2. ASSUME NEW l \in Links, NEW row \in LinkRows, CreateLink(l, row) PROVE DeleteInv'
    BY <1>2, IcmpAssumption DEF CreateLink, DeleteInv, Doomed, Exists, TypeOK
  <1>3. ASSUME NEW l \in Links, NEW override \in Overrides \cup {None},
               UpdatePollingInterval(l, override)
        PROVE  DeleteInv'
    <2>1. [link[l] EXCEPT !.override = override] # None
      <3>1. [link[l] EXCEPT !.override = override] \in LinkRows
        BY <1>3 DEF UpdatePollingInterval, Exists, TypeOK, LinkRows
      <3>2. QED
        BY <3>1, IcmpAssumption
    <2>2. \A m \in Links : Exists(m) => Exists(m)'
      BY <1>3, <2>1 DEF UpdatePollingInterval, Exists, TypeOK
    <2>3. QED
      BY <1>3, <2>2 DEF UpdatePollingInterval, DeleteInv, Doomed
  <1>4. ASSUME NEW l \in Links, BeginDelete(l) PROVE DeleteInv'
    <2>1. Exists(l)
      BY <1>4 DEF BeginDelete
    <2>2. QED
      BY <1>4, <2>1, BeginDeleteStep DEF DeleteInv, Exists
  <1>9. ASSUME NEW l \in Links, ReadCascade(l) PROVE DeleteInv'
    <2>1. \/ Doomed(l)' = Doomed(l) \cup {"poll_state"}
          \/ "wan_recovered" \in Doomed(l)'
      <3>1. deletion[l].queries = 1 \/ deletion[l].queries = 2
        BY <1>9, ReadCascadeStep
      <3>2. QED
        BY <1>9, <3>1, ReadCascadeStep, CascadeReads
    <2>2. QED
      BY <1>9, <2>1, ReadCascadeStep DEF DeleteInv, Exists
  <1>5. ASSUME NEW l \in Links, CommitDelete(l) PROVE DeleteInv'
    <2>1. \A m \in Links \ {l} :
            link'[m] = link[m] /\ openRows'[m] = openRows[m] /\ recovered'[m] = recovered[m]
      BY <1>5 DEF CommitDelete, TypeOK
    <2>2. QED
      BY <1>5, <2>1, CommitDeleteStep DEF DeleteInv, Exists
  <1>6. CASE UNCHANGED <<link, openRows, recovered, deletion>>
    BY <1>6 DEF DeleteInv, Doomed, Exists
  <1>7. CASE Restart
    BY <1>7 DEF Restart, DeleteInv
  <1>8. QED
    BY <1>1, <1>2, <1>3, <1>4, <1>5, <1>6, <1>7, <1>9
       DEF Next, Step, vars, tables, Elapse, Tick, UpdateSettings, DeviceChanges, RunTask,
           PingNow, PollFails

--------------------------------------------------------------------------------
(* The refinement: each action is a step of the outage log or leaves it alone.  *)
KnownLinks == [l \in Links |-> Exists(l)]

LEMMA RecordImplementsLog ==
  ASSUME TypeOK, OneOpenAlert, NEW l \in Links, NEW r, RecordResult(l, r)
  PROVE  [Log!Next]_(Log!vars)
  <1> DEFINE n == openRows[l]["wan_down"]
  <1> DEFINE k == OpenRowsAfter(l, "wan_down", r)
  <1>1. "wan_down" \in AlertTypes /\ n \in {0, 1}
    BY OneOutage DEF AlertTypes
  <1>2. /\ openRows'[l]["wan_down"] = k
        /\ recovered'[l] = (recovered[l] \/ Recovers(l, r))
        /\ UNCHANGED KnownLinks
    BY <1>1 DEF RecordResult, TypeOK, KnownLinks, Exists
  <1>3. \A m \in Links : m # l => OutageState'[m] = OutageState[m]
    BY DEF RecordResult, TypeOK, OutageState
  <1>4. CASE Decision(l, "wan_down", r) = "open"
    <2>1. n = 0 /\ k = 1
      BY <1>1, <1>4 DEF Decision, EvaluateAvailability, AlertOpen, OpenRowsAfter, OpenAlert
    <2>2. OutageState[l] # "outage" /\ OutageState'[l] = "outage"
      BY <1>2, <2>1 DEF OutageState
    <2>3. OutageState' = [OutageState EXCEPT ![l] = "outage"]
      BY <1>3, <2>2 DEF OutageState
    <2>4. Log!Raise(l)
      BY <1>2, <2>2, <2>3 DEF Log!Raise, KnownLinks
    <2>5. QED
      BY <2>4 DEF Log!Next
  <1>5. CASE Decision(l, "wan_down", r) = "close"
    <2>1. n = 1 /\ k = 0 /\ Recovers(l, r)
      BY <1>1, <1>5
         DEF Decision, EvaluateAvailability, AlertOpen, OpenRowsAfter, CloseAlert, Recovers
    <2>2. OutageState[l] = "outage" /\ OutageState'[l] = "recovered"
      <3>1. recovered'[l]
        BY <2>1 DEF RecordResult, TypeOK
      <3>2. ~(openRows'[l]["wan_down"] > 0)
        BY <1>2, <2>1
      <3>3. QED
        BY <2>1, <3>1, <3>2 DEF OutageState
    <2>3. OutageState' = [OutageState EXCEPT ![l] = "recovered"]
      BY <1>3, <2>2 DEF OutageState
    <2>4. Log!Recover(l)
      BY <1>2, <2>2, <2>3 DEF Log!Recover, KnownLinks
    <2>5. QED
      BY <2>4 DEF Log!Next
  <1>6. CASE Decision(l, "wan_down", r) \notin {"open", "close"}
    <2>1. k = n /\ ~Recovers(l, r)
      BY <1>6 DEF OpenRowsAfter, Recovers
    <2>2. OutageState'[l] = OutageState[l]
      BY <1>2, <2>1 DEF OutageState, TypeOK
    <2>3. OutageState' = OutageState
      BY <1>3, <2>2 DEF OutageState
    <2>4. QED
      BY <1>2, <2>3 DEF Log!vars, KnownLinks
  <1>7. QED
    BY <1>4, <1>5, <1>6

LEMMA CommitDeleteImplementsLog ==
  ASSUME TypeOK, DeleteInv, NEW l \in Links, CommitDelete(l)
  PROVE  Log!Next
  <1>1. "wan_down" \in AlertTypes
    BY DEF AlertTypes
  <1>2. deletion[l] # None /\ KnownLinks[l] = TRUE
    BY DEF CommitDelete, DeleteInv, KnownLinks
  <1>3. KnownLinks' = [KnownLinks EXCEPT ![l] = FALSE]
    BY DEF CommitDelete, KnownLinks, Exists, TypeOK
  <1>4. \A m \in Links : m # l => OutageState'[m] = OutageState[m]
    BY DEF CommitDelete, OutageState, TypeOK
  <1>5. OutageState'[l] \in {"clear", OutageState[l]}
    <2>1. /\ openRows'[l]["wan_down"] =
               IF "wan_down" \in Doomed(l) THEN 0 ELSE openRows[l]["wan_down"]
          /\ recovered'[l] <=> recovered[l] /\ "wan_recovered" \notin Doomed(l)
      BY <1>1 DEF CommitDelete, TypeOK
    <2>2. CASE openRows[l]["wan_down"] > 0 /\ "wan_down" \in Doomed(l)
      <3>1. ~recovered'[l]
        BY <1>2, <2>1, <2>2 DEF DeleteInv
      <3>2. QED
        BY <2>1, <2>2, <3>1 DEF OutageState
    <2>3. CASE openRows[l]["wan_down"] > 0 /\ "wan_down" \notin Doomed(l)
      BY <2>1, <2>3 DEF OutageState
    <2>4. CASE ~(openRows[l]["wan_down"] > 0)
      <3>1. ~(openRows'[l]["wan_down"] > 0)
        BY <2>1, <2>4
      <3>2. QED
        BY <2>1, <2>4, <3>1 DEF OutageState
    <2>5. QED
      BY <2>2, <2>3, <2>4
  <1>6. \/ OutageState' = [OutageState EXCEPT ![l] = "clear"]
        \/ UNCHANGED OutageState
    BY <1>4, <1>5 DEF OutageState
  <1>7. Log!Forget(l)
    BY <1>2, <1>3, <1>6 DEF Log!Forget, KnownLinks
  <1>8. QED
    BY <1>7 DEF Log!Next

LEMMA StepImplementsLog ==
  TypeOK /\ OneOpenAlert /\ DeleteInv /\ [Next]_vars => [Log!Next]_(Log!vars)
  <1> SUFFICES ASSUME TypeOK, OneOpenAlert, DeleteInv, [Next]_vars
               PROVE  [Log!Next]_(Log!vars)
    OBVIOUS
  <1>1. ASSUME NEW l \in Links, PollCompletes(l) PROVE [Log!Next]_(Log!vars)
    BY <1>1, RecordImplementsLog DEF PollCompletes
  <1>2. ASSUME NEW l \in Links, NEW row \in LinkRows, CreateLink(l, row)
        PROVE  [Log!Next]_(Log!vars)
    <2>1. row # None
      BY IcmpAssumption
    <2>2. KnownLinks' = [KnownLinks EXCEPT ![l] = TRUE] /\ KnownLinks[l] = FALSE
      BY <1>2, <2>1 DEF CreateLink, KnownLinks, Exists, TypeOK
    <2>3. UNCHANGED OutageState
      BY <1>2 DEF CreateLink, OutageState
    <2>4. Log!Join(l)
      BY <2>2, <2>3 DEF Log!Join, KnownLinks
    <2>5. QED
      BY <2>4 DEF Log!Next
  <1>3. ASSUME NEW l \in Links, NEW override \in Overrides \cup {None},
               UpdatePollingInterval(l, override)
        PROVE  [Log!Next]_(Log!vars)
    <2>1. [link[l] EXCEPT !.override = override] # None
      <3>1. [link[l] EXCEPT !.override = override] \in LinkRows
        BY <1>3 DEF UpdatePollingInterval, Exists, TypeOK, LinkRows
      <3>2. QED
        BY <3>1, IcmpAssumption
    <2>2. UNCHANGED KnownLinks
      BY <1>3, <2>1 DEF UpdatePollingInterval, KnownLinks, Exists, TypeOK
    <2>3. UNCHANGED OutageState
      BY <1>3 DEF UpdatePollingInterval, OutageState
    <2>4. QED
      BY <2>2, <2>3 DEF Log!vars, KnownLinks
  <1>4. ASSUME NEW l \in Links, CommitDelete(l) PROVE [Log!Next]_(Log!vars)
    BY <1>4, CommitDeleteImplementsLog
  <1>5. CASE UNCHANGED <<link, openRows, recovered>>
    <2>1. UNCHANGED <<KnownLinks, OutageState>>
      BY <1>5 DEF KnownLinks, OutageState, Exists
    <2>2. QED
      BY <2>1 DEF Log!vars, KnownLinks
  <1>6. QED
    BY <1>1, <1>2, <1>3, <1>4, <1>5
       DEF Next, Step, vars, tables, Elapse, Tick, Restart, UpdateSettings, DeviceChanges,
           RunTask, PingNow, PollFails, BeginDelete, ReadCascade

(* Every behaviour of the monitor is, seen through its alert rows, a behaviour  *)
(* of the outage log: outages do not overlap, each ends with one recovery       *)
(* record, and only a deletion forgets them (worker.py:164-180).                *)
THEOREM ImplementsOutageLog == Spec => OutagesAreLogged
  <1>1. Init => Log!Init
    <2>1. SUFFICES ASSUME Init PROVE Log!Init
      OBVIOUS
    <2>2. \A l \in Links : ~Exists(l) /\ ~recovered[l] /\ openRows[l]["wan_down"] = 0
      BY <2>1 DEF Init, Exists, NoAlerts, AlertTypes
    <2>3. OutageState = [l \in Links |-> "clear"]
      BY <2>2 DEF OutageState
    <2>4. KnownLinks = [l \in Links |-> FALSE]
      <3>1. ASSUME NEW l \in Links PROVE Exists(l) = FALSE
        BY <2>2
      <3>2. QED
        BY <3>1 DEF KnownLinks
    <2>5. QED
      BY <2>3, <2>4 DEF Log!Init, KnownLinks
  <1>2. Init => DeleteInv
    BY DEF Init, DeleteInv
  <1>3. Spec => []DeleteInv
    BY <1>2, DeleteInvInductive, TypeCorrect, AlertsAreUnique, PTL DEF Spec
  <1>4. QED
    BY <1>1, <1>3, StepImplementsLog, TypeCorrect, AlertsAreUnique, PTL
       DEF Spec, OutagesAreLogged, Log!Spec

--------------------------------------------------------------------------------
(* Alerts and flag follow the newest result: recording a result re-establishes  *)
(* the agreement whatever the tables held for the alerts, and needs the old     *)
(* agreement for the flag only.                                                 *)
LEMMA RecordAgrees ==
  ASSUME TypeOK, OneOpenAlert, NEW l \in Links, NEW r \in Results, RecordResult(l, r),
         WasDown(l) <=> openRows[l]["wan_down"] > 0
  PROVE  AlertsFollow(l, r)'
  <1>1. AlertTypes = {"wan_down", "high_latency", "packet_loss"}
    BY DEF AlertTypes
  <1>2. ASSUME NEW t \in AlertTypes
        PROVE  /\ openRows[l][t] \in Nat /\ openRows[l][t] <= 1
               /\ openRows'[l][t] = OpenRowsAfter(l, t, r)
    BY <1>1 DEF RecordResult, TypeOK, OneOpenAlert
  <1>3. openRows'[l]["wan_down"] > 0 <=> ~r.reachable
    BY <1>1, <1>2
       DEF OpenRowsAfter, OpenAlert, CloseAlert, AlertOpen, Decision, EvaluateAvailability
  <1>4. WasDown(l)' <=> ~r.reachable
    <2>1. WasDown(l)' <=> IsDownAfter(l, r)
      <3>1. pollState'[l] = [age |-> 0, isDown |-> IsDownAfter(l, r)]
        BY DEF RecordResult, TypeOK
      <3>2. [age |-> 0, isDown |-> IsDownAfter(l, r)] # None
        BY IsDownAfterType, IcmpAssumption DEF PollStates
      <3>3. QED
        BY <3>1, <3>2 DEF WasDown
    <2>2. IsDownAfter(l, r) <=> ~r.reachable
      BY DEF IsDownAfter, Decision, EvaluateAvailability, AlertOpen
    <2>3. QED
      BY <2>1, <2>2
  <1>5. openRows'[l]["packet_loss"] > 0 <=> r.loss > LossThreshold
    <2>1. r.loss \in Int /\ r.loss # None /\ LossThreshold \in Int
      BY NoneAssumption, IcmpAssumption DEF Results
    <2>2. QED
      BY <1>1, <1>2, <2>1
         DEF OpenRowsAfter, OpenAlert, CloseAlert, AlertOpen, Decision, EvaluatePacketLoss,
             ThresholdDecision
  <1>6. r.latency # None => (openRows'[l]["high_latency"] > 0 <=> r.latency > LatencyThreshold)
    <2>1. LatencyThreshold \in Int /\ (r.latency # None => r.latency \in Int)
      BY IcmpAssumption DEF Results
    <2>2. QED
      BY <1>1, <1>2, <2>1
         DEF OpenRowsAfter, OpenAlert, CloseAlert, AlertOpen, Decision, EvaluateHighLatency,
             ThresholdDecision
  <1>7. QED
    BY <1>3, <1>4, <1>5, <1>6 DEF AlertsFollow

LEMMA AgreementInductive ==
  TypeOK /\ OneOpenAlert /\ AlertsMatchNewest /\ [Next]_vars => AlertsMatchNewest'
  <1> SUFFICES ASSUME TypeOK, OneOpenAlert, AlertsMatchNewest, [Next]_vars
               PROVE  AlertsMatchNewest'
    OBVIOUS
  <1> DEFINE Agrees(l) ==
        Exists(l) /\ ~inherited[l] =>
          IF newest[l] = None THEN ~HasRows(l) ELSE AlertsFollow(l, newest[l])
  <1>0. \A l \in Links : Agrees(l)
    BY DEF AlertsMatchNewest
  <1>1. CASE Elapse
    <2>1. ASSUME NEW m \in Links PROVE Agrees(m)'
      <3>1. /\ WasDown(m)' = WasDown(m)
            /\ pollState'[m] # None <=> pollState[m] # None
        BY <1>1, ElapseKeepsFlag
      <3>2. UNCHANGED <<link, newest, openRows, recovered, inherited>>
        BY <1>1 DEF Elapse
      <3>3. QED
        BY <1>0, <3>1, <3>2 DEF AlertsFollow, HasRows, Exists
    <2>2. QED
      BY <2>1 DEF AlertsMatchNewest
  <1>2. ASSUME NEW l \in Links, PollCompletes(l) PROVE AlertsMatchNewest'
    <2>1. PICK r \in PingResults[device[l]] : RecordResult(l, r)
      BY <1>2 DEF PollCompletes
    <2>2. r \in Results /\ r # None
      BY <2>1, IcmpAssumption DEF TypeOK
    <2>3. SUFFICES ASSUME NEW m \in Links PROVE Agrees(m)'
      BY DEF AlertsMatchNewest
    <2>4. CASE m # l
      <3>1. /\ pollState'[m] = pollState[m]
            /\ openRows'[m] = openRows[m]
            /\ newest'[m] = newest[m]
            /\ recovered'[m] = recovered[m]
            /\ link' = link /\ inherited' = inherited
        BY <2>1, <2>4 DEF RecordResult, TypeOK
      <3>2. QED
        BY <1>0, <3>1 DEF AlertsFollow, HasRows, Exists, WasDown
    <2>5. CASE m = l
      <3>1. SUFFICES ASSUME Exists(l), ~inherited[l] PROVE AlertsFollow(l, r)'
        BY <2>1, <2>2, <2>5 DEF RecordResult, TypeOK, Exists
      <3>2. WasDown(l) <=> openRows[l]["wan_down"] > 0
        <4>1. CASE newest[l] = None
          BY <1>0, <3>1, <4>1 DEF HasRows, WasDown, NoAlerts, AlertTypes
        <4>2. CASE newest[l] # None
          BY <1>0, <3>1, <4>2 DEF AlertsFollow
        <4>3. QED
          BY <4>1, <4>2
      <3>3. QED
        BY <2>1, <2>2, <3>2, RecordAgrees
    <2>6. QED
      BY <2>4, <2>5
  <1>3. ASSUME NEW l \in Links, NEW row \in LinkRows, CreateLink(l, row)
        PROVE  AlertsMatchNewest'
    BY <1>0, <1>3
       DEF CreateLink, AlertsMatchNewest, AlertsFollow, HasRows, Exists, WasDown, TypeOK
  <1>4. ASSUME NEW l \in Links, NEW override \in Overrides \cup {None},
               UpdatePollingInterval(l, override)
        PROVE  AlertsMatchNewest'
    <2>1. \A m \in Links : Exists(m)' => Exists(m)
      BY <1>4 DEF UpdatePollingInterval, Exists, TypeOK
    <2>2. QED
      BY <1>0, <1>4, <2>1
         DEF UpdatePollingInterval, AlertsMatchNewest, AlertsFollow, HasRows, WasDown
  <1>5. ASSUME NEW l \in Links, CommitDelete(l) PROVE AlertsMatchNewest'
    <2>1. SUFFICES ASSUME NEW m \in Links, Exists(m)' PROVE Agrees(m)'
      BY DEF AlertsMatchNewest
    <2>2. m # l
      BY <1>5, <2>1 DEF CommitDelete, Exists, TypeOK
    <2>3. /\ pollState'[m] = pollState[m]
          /\ openRows'[m] = openRows[m]
          /\ newest'[m] = newest[m]
          /\ recovered'[m] = recovered[m]
          /\ link'[m] = link[m] /\ inherited' = inherited
      BY <1>5, <2>2 DEF CommitDelete, TypeOK
    <2>4. QED
      BY <1>0, <2>3 DEF AlertsFollow, HasRows, Exists, WasDown
  <1>6. CASE UNCHANGED <<link, pollState, newest, openRows, recovered, inherited>>
    BY <1>0, <1>6 DEF AlertsMatchNewest, AlertsFollow, HasRows, Exists, WasDown
  <1>7. QED
    BY <1>1, <1>2, <1>3, <1>4, <1>5, <1>6
       DEF Next, Step, vars, tables, Tick, Restart, UpdateSettings, DeviceChanges, RunTask,
           PingNow, PollFails, BeginDelete, ReadCascade

(* What a link's pages show together agrees with its newest ping result         *)
(* (worker.py:151-202), except for a link created over leftover rows.           *)
THEOREM AlertsAgree == Spec => []AlertsMatchNewest
  <1>1. Init => AlertsMatchNewest
    BY DEF Init, AlertsMatchNewest, Exists
  <1>2. QED
    BY <1>1, AgreementInductive, TypeCorrect, AlertsAreUnique, PTL DEF Spec

--------------------------------------------------------------------------------
(* The finding about DeleteRemovesEverything has one cause: a poll that was in  *)
(* flight when its link's deletion began commits its result.                    *)
NoStrayResult == \A l \in Links : PollCompletes(l) => Exists(l) /\ deletion[l] = None

(* Links that are gone have left nothing, and running deletions hold every row  *)
(* their queries have asked for.                                                *)
ReadBy(queries) ==
  IF queries = 1 THEN {"measurement"}
  ELSE IF queries = 2 THEN Rows \ {"poll_state"}
  ELSE Rows

CleanInv ==
  \A l \in Links :
    /\ ~Exists(l) => ~HasRows(l)
    /\ deletion[l] # None => Exists(l) /\ Doomed(l) = ReadBy(deletion[l].queries)
    /\ ~inherited[l]

LEMMA CleanInvInductive ==
  TypeOK /\ CleanInv /\ [Next]_vars /\ NoStrayResult => CleanInv'
  <1> SUFFICES ASSUME TypeOK, CleanInv, [Next]_vars, NoStrayResult PROVE CleanInv'
    OBVIOUS
  <1>1. CASE Elapse
    <2>1. \A l \in Links : pollState'[l] # None <=> pollState[l] # None
      BY <1>1, ElapseKeepsFlag
    <2>2. UNCHANGED <<link, newest, openRows, recovered, deletion, inherited>>
      BY <1>1 DEF Elapse
    <2>3. QED
      BY <2>1, <2>2 DEF CleanInv, Doomed, HasRows, Exists
  <1>2. ASSUME NEW l \in Links, PollCompletes(l) PROVE CleanInv'
    <2>1. PICK r \in PingResults[device[l]] : RecordResult(l, r)
      BY <1>2 DEF PollCompletes
    <2>2. Exists(l) /\ deletion[l] = None
      BY <1>2 DEF NoStrayResult
    <2>3. /\ link' = link /\ inherited' = inherited /\ deletion'[l] = None
          /\ \A m \in Links \ {l} :
               /\ deletion'[m] = deletion[m] /\ pollState'[m] = pollState[m]
               /\ newest'[m] = newest[m] /\ openRows'[m] = openRows[m]
               /\ recovered'[m] = recovered[m]
      BY <2>1, <2>2 DEF RecordResult, TypeOK
    <2>4. QED
      BY <2>2, <2>3 DEF CleanInv, Doomed, HasRows, Exists
  <1>3. ASSUME NEW l \in Links, NEW row \in LinkRows, CreateLink(l, row) PROVE CleanInv'
    <2>1. ~HasRows(l) /\ deletion[l] = None
      BY <1>3 DEF CreateLink, CleanInv
    <2>2. /\ inherited'[l] = HasRows(l)
          /\ \A m \in Links : m # l => link'[m] = link[m] /\ inherited'[m] = inherited[m]
          /\ UNCHANGED <<pollState, newest, openRows, recovered, deletion>>
      BY <1>3 DEF CreateLink, TypeOK
    <2>3. \A m \in Links : ~inherited'[m]
      BY <2>1, <2>2 DEF CleanInv
    <2>4. HasRows(l)' = HasRows(l)
      BY <2>2 DEF HasRows
    <2>5. QED
      BY <2>1, <2>2, <2>3, <2>4 DEF CleanInv, Doomed, HasRows, Exists
  <1>4. ASSUME NEW l \in Links, NEW override \in Overrides \cup {None},
               UpdatePollingInterval(l, override)
        PROVE  CleanInv'
    <2>1. [link[l] EXCEPT !.override = override] # None
      <3>1. [link[l] EXCEPT !.override = override] \in LinkRows
        BY <1>4 DEF UpdatePollingInterval, Exists, TypeOK, LinkRows
      <3>2. QED
        BY <3>1, IcmpAssumption
    <2>2. \A m \in Links : Exists(m)' <=> Exists(m)
      BY <1>4, <2>1 DEF UpdatePollingInterval, Exists, TypeOK
    <2>3. QED
      BY <1>4, <2>2 DEF UpdatePollingInterval, CleanInv, Doomed, HasRows
  <1>5. ASSUME NEW l \in Links, BeginDelete(l) PROVE CleanInv'
    <2>1. Exists(l)
      BY <1>5 DEF BeginDelete
    <2>2. QED
      BY <1>5, <2>1, BeginDeleteStep DEF CleanInv, ReadBy, HasRows, Exists
  <1>10. ASSUME NEW l \in Links, ReadCascade(l) PROVE CleanInv'
    <2>1. Doomed(l)' = ReadBy(deletion'[l].queries)
      <3>1. Doomed(l) = ReadBy(deletion[l].queries)
        BY <1>10, ReadCascadeStep DEF CleanInv
      <3>2. CASE deletion[l].queries = 1
        BY <1>10, <3>1, <3>2, ReadCascadeStep, CascadeReads DEF ReadBy, Rows, AlertTypes
      <3>3. CASE deletion[l].queries = 2
        BY <1>10, <3>1, <3>3, ReadCascadeStep, CascadeReads DEF ReadBy, Rows
      <3>4. QED
        BY <1>10, <3>2, <3>3, ReadCascadeStep
    <2>2. QED
      BY <1>10, <2>1, ReadCascadeStep DEF CleanInv, HasRows, Exists
  <1>6. ASSUME NEW l \in Links, CommitDelete(l) PROVE CleanInv'
    <2>1. Doomed(l) = Rows
      BY <1>6 DEF CommitDelete, CleanInv, ReadBy
    <2>2. /\ pollState'[l] = None /\ newest'[l] = None /\ ~recovered'[l]
          /\ deletion'[l] = None /\ inherited' = inherited
      BY <1>6, <2>1 DEF CommitDelete, TypeOK, Rows
    <2>3. openRows'[l] = NoAlerts
      BY <1>6, <2>1 DEF CommitDelete, TypeOK, Rows, NoAlerts
    <2>4. ~HasRows(l)'
      BY <2>2, <2>3 DEF HasRows
    <2>5. \A m \in Links \ {l} :
            /\ deletion'[m] = deletion[m] /\ pollState'[m] = pollState[m]
            /\ newest'[m] = newest[m] /\ openRows'[m] = openRows[m]
            /\ recovered'[m] = recovered[m] /\ link'[m] = link[m]
      BY <1>6 DEF CommitDelete, TypeOK
    <2>6. QED
      BY <2>2, <2>4, <2>5 DEF CleanInv, Doomed, HasRows, Exists
  <1>7. CASE Restart
    BY <1>7 DEF Restart, CleanInv, HasRows, Exists
  <1>8. CASE UNCHANGED <<link, pollState, newest, openRows, recovered, deletion, inherited>>
    BY <1>8 DEF CleanInv, Doomed, HasRows, Exists
  <1>9. QED
    BY <1>1, <1>2, <1>3, <1>4, <1>5, <1>6, <1>7, <1>8, <1>10
       DEF Next, Step, vars, tables, Tick, UpdateSettings, DeviceChanges, RunTask, PingNow,
           PollFails

(* A deletion removes everything tied to its link, as wan_links.py:83 says, and *)
(* no link finds rows under its id, if no poll commits once the deletion has    *)
(* read its rows: whatever else overlaps, restarts included, leaves nothing     *)
(* behind.                                                                      *)
THEOREM OnlyStrayResultsSurvive ==
  Spec /\ [][NoStrayResult]_vars =>
    [](DeleteRemovesEverything /\ \A l \in Links : ~inherited[l])
  <1>1. Init => CleanInv
    BY DEF Init, CleanInv, HasRows, Exists
  <1>2. TypeOK /\ CleanInv /\ [Next]_vars /\ [NoStrayResult]_vars => CleanInv'
    <2>1. TypeOK /\ CleanInv /\ UNCHANGED vars => CleanInv'
      BY DEF vars, tables, CleanInv, Doomed, HasRows, Exists
    <2>2. QED
      BY <2>1, CleanInvInductive
  <1>3. CleanInv => DeleteRemovesEverything /\ \A l \in Links : ~inherited[l]
    BY DEF CleanInv, DeleteRemovesEverything
  <1>4. QED
    BY <1>1, <1>2, <1>3, TypeCorrect, PTL DEF Spec
================================================================================
