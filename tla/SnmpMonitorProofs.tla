---------------------------- MODULE SnmpMonitorProofs ----------------------------
(* Proofs about SnmpMonitor and the counter arithmetic it rests on, for every    *)
(* value of the constants.                                                      *)
EXTENDS SnmpMonitor, TLAPS

(* The difference of two samples is the traffic between them if a 32-bit counter *)
(* wrapped at most once (calculations.py:30-36).                                *)
THEOREM SingleWrapIsExact ==
  ASSUME NEW previous \in 0..Counter32Max, NEW traffic \in 0..Counter32Max,
         NEW current \in Int,
         current = IF previous + traffic > Counter32Max
                   THEN previous + traffic - (Counter32Max + 1)
                   ELSE previous + traffic
  PROVE  CounterDelta(previous, current, FALSE) = traffic
  BY CountersAssumption DEF CounterDelta

(* The difference of two 64-bit samples is never negative and never more than    *)
(* the counter shows, whatever happened to the device in between                *)
(* (calculations.py:30-34).                                                     *)
THEOREM WideDeltaIsBounded ==
  ASSUME NEW previous \in Nat, NEW current \in Nat
  PROVE  CounterDelta(previous, current, TRUE) \in 0..current
  BY DEF CounterDelta

(* The difference of two 32-bit samples is one that counter can count.          *)
THEOREM NarrowDeltaIsBounded ==
  ASSUME NEW previous \in 0..Counter32Max, NEW current \in 0..Counter32Max
  PROVE  CounterDelta(previous, current, FALSE) \in 0..Counter32Max
  BY CountersAssumption DEF CounterDelta

--------------------------------------------------------------------------------
LEMMA NoneIsNoInteger == \A n \in Int : n # None
  BY NoneAssumption

LEMMA NoneIsNoSample == None \notin Samples
  BY SnmpAssumption

LEMMA NoneIsNoMeasurement == None \notin Measurements
  BY SnmpAssumption

LEMMA ModIsBounded ==
  ASSUME NEW n \in Nat, NEW m \in Nat
  PROVE  n % (m + 1) \in 0..m
  OBVIOUS

LEMMA OlderType ==
  ASSUME NEW age \in Ages \cup {None}
  PROVE  /\ Older(age) \in Ages \cup {None}
         /\ Older(age) = None <=> age = None
         /\ age # None => Older(age) >= age
  BY SnmpAssumption, NoneIsNoInteger DEF Older, UpTo, Ages

LEMMA OlderIsMonotone ==
  ASSUME NEW a \in Ages, NEW b \in Ages, a >= b
  PROVE  Older(a) >= Older(b)
  BY SnmpAssumption, NoneIsNoInteger DEF Older, UpTo, Ages

LEMMA CarriedType ==
  ASSUME NEW n \in Nat
  PROVE  UpTo(Counter64Max + 1, n) \in Carried
  BY CountersAssumption DEF UpTo, Carried

LEMMA DeltaIsInteger ==
  ASSUME NEW p \in Int, NEW c \in Int, NEW w \in BOOLEAN
  PROVE  CounterDelta(p, c, w) \in Int
  BY CountersAssumption DEF CounterDelta

LEMMA UtilisationIsInteger ==
  ASSUME NEW rx \in Int, NEW tx \in Int, NEW elapsed \in Nat \ {0}
  PROVE  Utilisation(RateOf(rx, elapsed), RateOf(tx, elapsed), Capacity) \in Int
  <1>1. Capacity \in Nat \ {0}
    BY SnmpAssumption
  <1>2. RateOf(rx, elapsed) \in Int /\ RateOf(tx, elapsed) \in Int
    BY DEF RateOf
  <1>. QED
    BY <1>1, <1>2 DEF Utilisation

(* What the evaluation of an integer utilisation amounts to.                    *)
BreachAgeFrom == IF breachAge = None THEN 0 ELSE breachAge

LEMMA SustainedEvaluation ==
  ASSUME NEW util \in Int, breachAge \in Ages \cup {None}, alertOpen \in BOOLEAN
  PROVE  /\ util <= Threshold => BreachAfter(util) = None /\ ~AlertAfter(util)
         /\ util > Threshold =>
              /\ BreachAfter(util) = BreachAgeFrom
              /\ AlertAfter(util) <=> alertOpen \/ BreachAgeFrom >= Duration
  <1>1. Threshold \in Int /\ Duration \in Nat /\ MaxAge \in Nat
    BY SnmpAssumption
  <1>2. util # None
    BY NoneIsNoInteger
  <1>3. CASE util <= Threshold
    <2>1. Sustained(util) = [decision |-> IF alertOpen THEN "close" ELSE "none",
                             breachSince |-> None]
      BY <1>2, <1>3 DEF Sustained, EvaluateSustainedUtilisation
    <2>. QED
      BY <1>1, <1>3, <2>1 DEF BreachAfter, AlertAfter
  <1>4. CASE util > Threshold
    <2>. DEFINE from  == IF breachAge = None THEN None ELSE -breachAge
    <2>. DEFINE since == IF from = None THEN 0 ELSE from
    <2>1. since \in Int /\ -since = BreachAgeFrom /\ since # None
      BY <1>1, NoneIsNoInteger DEF BreachAgeFrom, Ages
    <2>2. Sustained(util) =
            [decision    |-> IF 0 - since >= Duration /\ ~alertOpen THEN "open" ELSE "none",
             breachSince |-> since]
      BY <1>1, <1>2, <1>4 DEF Sustained, EvaluateSustainedUtilisation
    <2>3. 0 - since = BreachAgeFrom
      BY <2>1
    <2>4. Sustained(util).breachSince = since
      BY <2>2
    <2>5. Sustained(util).decision =
            (IF BreachAgeFrom >= Duration /\ ~alertOpen THEN "open" ELSE "none")
      BY <2>2, <2>3
    <2>6. BreachAfter(util) = BreachAgeFrom
      BY <2>1, <2>4 DEF BreachAfter
    <2>7. AlertAfter(util) <=> alertOpen \/ BreachAgeFrom >= Duration
      BY <2>5 DEF AlertAfter
    <2>. QED
      BY <1>1, <1>4, <2>6, <2>7
  <1>. QED
    BY <1>1, <1>3, <1>4

--------------------------------------------------------------------------------
(* Type correctness.                                                            *)
LEMMA RecordFailedAttemptType ==
  ASSUME TypeOK, RecordFailedAttempt
  PROVE  /\ lastOctets' \in [Dirs -> (0..ColumnMax) \cup {None}]
         /\ sample' \in [Dirs -> Samples \cup {None}]
         /\ pollAge' \in Ages \cup {None} /\ breachAge' \in Ages \cup {None}
         /\ alertOpen' \in BOOLEAN
         /\ measured' \in Measurements \cup {None}
         /\ calmAge' \in Ages \cup {None}
  BY SnmpAssumption DEF TypeOK, RecordFailedAttempt, NoOctets, Ages

LEMMA ReadingType ==
  ASSUME TypeOK, NEW i \in Ifaces, NEW answer
  PROVE  Reading(i, answer) \in [Dirs -> Nat \cup {None}]
  <1>1. ASSUME NEW d \in Dirs
        PROVE  octets[i][d] \in Nat /\ octets[i][d] % (Counter32Max + 1) \in Nat
    BY CountersAssumption, ModIsBounded DEF TypeOK
  <1>. QED
    BY <1>1 DEF Reading

LEMMA FreshSampleType ==
  ASSUME NEW i \in Ifaces, NEW is64 \in BOOLEAN
  PROVE  FreshSample(i, is64) \in Samples
  BY SnmpAssumption, CountersAssumption DEF FreshSample, Samples, Ages, Carried

LEMMA RecordBaselineType ==
  ASSUME TypeOK, NEW i \in Ifaces, NEW reading \in [Dirs -> Nat \cup {None}],
         NEW is64 \in BOOLEAN, Storable(reading), RecordBaseline(i, reading, is64)
  PROVE  /\ lastOctets' \in [Dirs -> (0..ColumnMax) \cup {None}]
         /\ sample' \in [Dirs -> Samples \cup {None}]
         /\ pollAge' \in Ages
  <1>1. ColumnMax \in Nat /\ MaxAge \in Nat /\ Counter64Max \in Nat
    BY SnmpAssumption, CountersAssumption
  <1>2. FreshSample(i, is64) \in Samples
    BY FreshSampleType
  <1>3. \A d \in Dirs : reading[d] # None => reading[d] \in 0..ColumnMax
    BY <1>1 DEF Storable
  <1>4. lastOctets' \in [Dirs -> (0..ColumnMax) \cup {None}]
    BY <1>3 DEF RecordBaseline, TypeOK
  <1>. QED
    BY <1>1, <1>2, <1>4 DEF RecordBaseline, TypeOK, Ages

LEMMA UtilisationType ==
  ASSUME TypeOK, NEW reading \in [Dirs -> Nat \cup {None}], Rated(reading),
         NEW is64 \in BOOLEAN, pollAge # 0
  PROVE  /\ Deltas(reading, is64) \in [Dirs -> Int]
         /\ UtilisationOf(Deltas(reading, is64)) \in Int
         /\ pollAge \in Ages
  <1>1. MaxAge \in Nat /\ ColumnMax \in Nat
    BY SnmpAssumption
  <1>2. pollAge \in Ages /\ pollAge \in Nat \ {0}
    BY <1>1 DEF TypeOK, Rated, Ages
  <1>3. ASSUME NEW d \in Dirs
        PROVE  lastOctets[d] \in Int /\ reading[d] \in Int
    BY <1>1 DEF TypeOK, Rated
  <1>4. Deltas(reading, is64) \in [Dirs -> Int]
    BY <1>3, DeltaIsInteger DEF Deltas
  <1>5. Deltas(reading, is64)["in"] \in Int /\ Deltas(reading, is64)["out"] \in Int
    BY <1>4 DEF Dirs
  <1>. QED
    BY <1>2, <1>4, <1>5, UtilisationIsInteger DEF UtilisationOf

LEMMA NewMeasurementType ==
  ASSUME TypeOK, NEW reading \in [Dirs -> Nat \cup {None}], Rated(reading),
         NEW is64 \in BOOLEAN, pollAge # 0
  PROVE  /\ NewMeasurement(Deltas(reading, is64)) \in Measurements
         /\ NewMeasurement(Deltas(reading, is64)) # None
  <1>. DEFINE deltas == Deltas(reading, is64)
  <1>1. deltas \in [Dirs -> Int] /\ UtilisationOf(deltas) \in Int /\ pollAge \in Ages
    BY UtilisationType
  <1>2. (IF measured = None THEN 0 ELSE 1 - measured.id) \in 0..1
    BY DEF TypeOK, Measurements
  <1>. HIDE DEF deltas
  <1>3. NewMeasurement(deltas) \in Measurements
    BY <1>1, <1>2 DEF NewMeasurement, Measurements
  <1>. QED
    BY <1>3, NoneIsNoMeasurement DEF deltas

LEMMA RecordRateType ==
  ASSUME TypeOK, NEW reading \in [Dirs -> Nat \cup {None}], pollAge # 0,
         NEW is64 \in BOOLEAN, RecordRate(reading, is64)
  PROVE  /\ breachAge' \in Ages \cup {None}
         /\ alertOpen' \in BOOLEAN
         /\ measured' \in Measurements \cup {None}
         /\ calmAge' \in Ages \cup {None}
  <1>1. MaxAge \in Nat /\ Threshold \in Int
    BY SnmpAssumption
  <1>2. CASE ~Rated(reading)
    BY <1>2 DEF RecordRate, TypeOK
  <1>3. CASE Rated(reading)
    <2>. DEFINE deltas == Deltas(reading, is64)
                util   == UtilisationOf(deltas)
    <2>1. deltas \in [Dirs -> Int] /\ util \in Int /\ pollAge \in Ages
      BY <1>3, UtilisationType
    <2>2. /\ measured' = NewMeasurement(deltas)
          /\ breachAge' = BreachAfter(util)
          /\ alertOpen' = AlertAfter(util)
          /\ calmAge' = IF util <= Threshold THEN 0 ELSE calmAge
      BY <1>3 DEF RecordRate
    <2>. HIDE DEF deltas, util
    <2>3. measured' \in Measurements
      BY <1>3, <2>2, NewMeasurementType DEF deltas
    <2>4. breachAge \in Ages \cup {None} /\ alertOpen \in BOOLEAN
      BY DEF TypeOK
    <2>5. BreachAfter(util) \in Ages \cup {None}
      BY <1>1, <2>1, <2>4, SustainedEvaluation DEF BreachAgeFrom, Ages
    <2>6. AlertAfter(util) \in BOOLEAN
      BY <2>4 DEF AlertAfter
    <2>7. calmAge' \in Ages \cup {None}
      BY <1>1, <2>2 DEF TypeOK, Ages
    <2>. QED
      BY <2>2, <2>3, <2>5, <2>6, <2>7
  <1>. QED
    BY <1>2, <1>3

LEMMA AgedSampleIsSample ==
  ASSUME TypeOK, NEW d \in Dirs, sample[d] # None
  PROVE  LET aged == [sample[d] EXCEPT !.age = Older(@),
                        !.carried = UpTo(Counter64Max + 1, @ + load[sample[d].iface][d])]
         IN  aged \in Samples /\ aged # None
  <1>1. Counter64Max \in Nat
    BY CountersAssumption
  <1>2. sample[d] \in Samples
    BY DEF TypeOK
  <1>3. sample[d].iface \in Ifaces /\ sample[d].age \in Ages /\ sample[d].carried \in Carried
    BY <1>2 DEF Samples
  <1>4. Older(sample[d].age) \in Ages
    BY <1>3, OlderType, NoneIsNoInteger, SnmpAssumption DEF Ages
  <1>5. load[sample[d].iface][d] \in Nat
    BY <1>3, SnmpAssumption DEF TypeOK
  <1>6. UpTo(Counter64Max + 1, sample[d].carried + load[sample[d].iface][d]) \in Carried
    BY <1>1, <1>3, <1>5, CarriedType DEF Carried
  <1>7. [sample[d] EXCEPT !.age = Older(@),
           !.carried = UpTo(Counter64Max + 1, @ + load[sample[d].iface][d])] \in Samples
    BY <1>2, <1>4, <1>6 DEF Samples
  <1>. QED
    BY <1>7, NoneIsNoSample

LEMMA ElapseType ==
  ASSUME TypeOK, Elapse
  PROVE  /\ octets' \in [Ifaces -> [Dirs -> 0..Counter64Max]]
         /\ sample' \in [Dirs -> Samples \cup {None}]
         /\ pollAge' \in Ages \cup {None} /\ breachAge' \in Ages \cup {None}
         /\ calmAge' \in Ages \cup {None}
  <1>1. Counter64Max \in Nat
    BY CountersAssumption
  <1>2. ASSUME NEW i \in Ifaces, NEW d \in Dirs
        PROVE  octets[i][d] \in Nat /\ load[i][d] \in Nat
    BY <1>1, SnmpAssumption DEF TypeOK
  <1>3. ASSUME NEW i \in Ifaces, NEW d \in Dirs
        PROVE  (octets[i][d] + load[i][d]) % (Counter64Max + 1) \in 0..Counter64Max
    <2>1. octets[i][d] + load[i][d] \in Nat
      BY <1>2
    <2>. QED
      BY <1>1, <2>1, ModIsBounded
  <1>4. octets' \in [Ifaces -> [Dirs -> 0..Counter64Max]]
    BY <1>3 DEF Elapse
  <1>6. sample' \in [Dirs -> Samples \cup {None}]
    BY AgedSampleIsSample DEF Elapse, TypeOK
  <1>7. pollAge' = Older(pollAge) /\ breachAge' = Older(breachAge) /\ calmAge' = Older(calmAge)
    BY DEF Elapse
  <1>. QED
    BY <1>4, <1>6, <1>7, OlderType DEF TypeOK

LEMMA BeginPollType ==
  ASSUME TypeOK, BeginPoll
  PROVE  /\ lastOctets' \in [Dirs -> (0..ColumnMax) \cup {None}]
         /\ sample' \in [Dirs -> Samples \cup {None}]
         /\ pollAge' \in Ages \cup {None} /\ breachAge' \in Ages \cup {None}
         /\ alertOpen' \in BOOLEAN
         /\ measured' \in Measurements \cup {None}
         /\ calmAge' \in Ages \cup {None}
         /\ inFlight' \in Ifaces \cup {None}
  <1>1. CASE inFlight # None \/ selected = None
    BY <1>1 DEF BeginPoll, TypeOK, records, pollState, history
  <1>2. CASE inFlight = None /\ selected # None /\ ~credentialOk
    <2>1. RecordFailedAttempt /\ UNCHANGED inFlight
      BY <1>2 DEF BeginPoll
    <2>. QED
      BY <2>1, RecordFailedAttemptType DEF TypeOK
  <1>3. CASE inFlight = None /\ selected # None /\ credentialOk
    BY <1>3 DEF BeginPoll, TypeOK, records, pollState, history
  <1>. QED
    BY <1>1, <1>2, <1>3 DEF TypeOK

LEMMA PollAnswersType ==
  ASSUME TypeOK, PollAnswers
  PROVE  /\ lastOctets' \in [Dirs -> (0..ColumnMax) \cup {None}]
         /\ sample' \in [Dirs -> Samples \cup {None}]
         /\ pollAge' \in Ages \cup {None} /\ breachAge' \in Ages \cup {None}
         /\ alertOpen' \in BOOLEAN
         /\ measured' \in Measurements \cup {None}
         /\ calmAge' \in Ages \cup {None}
  <1>1. inFlight \in Ifaces /\ pollAge # 0
    BY DEF PollAnswers, TypeOK
  <1>2. PICK answer \in Answers :
          IF Storable(Reading(inFlight, answer))
          THEN /\ RecordRate(Reading(inFlight, answer), UsedHighCapacity(answer))
               /\ RecordBaseline(inFlight, Reading(inFlight, answer), UsedHighCapacity(answer))
          ELSE UNCHANGED records
    BY DEF PollAnswers
  <1>3. CASE ~Storable(Reading(inFlight, answer))
    BY <1>2, <1>3 DEF TypeOK, records, pollState, history
  <1>4. CASE Storable(Reading(inFlight, answer))
    <2>1. Reading(inFlight, answer) \in [Dirs -> Nat \cup {None}]
      BY <1>1, ReadingType
    <2>2. UsedHighCapacity(answer) \in BOOLEAN
      BY DEF UsedHighCapacity, TypeOK
    <2>. QED
      BY <1>1, <1>2, <1>4, <2>1, <2>2, RecordRateType, RecordBaselineType
  <1>. QED
    BY <1>3, <1>4

(* Every variable keeps its type (SnmpMonitor's state and the columns it stands  *)
(* for, models.py:251-292).                                                     *)
THEOREM TypeCorrect == Spec => []TypeOK
  <1>1. ASSUME Init PROVE TypeOK
    <2>1. Counter64Max \in Nat /\ MaxSpawned \in Nat /\ Widths \subseteq BOOLEAN
      BY CountersAssumption, SnmpAssumption
    <2>2. octets \in [Ifaces -> [Dirs -> 0..Counter64Max]]
      BY <1>1, <2>1 DEF Init
    <2>3. lastOctets \in [Dirs -> (0..ColumnMax) \cup {None}]
      BY <1>1 DEF Init, NoOctets
    <2>4. sample \in [Dirs -> Samples \cup {None}]
      BY <1>1 DEF Init, NoOctets
    <2>5. load \in [Ifaces -> Loads]
      BY <1>1 DEF Init
    <2>6. wide \in BOOLEAN /\ spawned \in 0..MaxSpawned
      BY <1>1, <2>1 DEF Init
    <2>. QED
      BY <1>1, <2>2, <2>3, <2>4, <2>5, <2>6 DEF Init, TypeOK
  <1>2. ASSUME TypeOK, [Next]_vars PROVE TypeOK'
    <2>. USE <1>2
    <2>1. CASE Elapse
      BY <2>1, ElapseType DEF Elapse, TypeOK, tasks
    <2>2. ASSUME NEW condition \in Devices, DeviceChanges(condition) PROVE TypeOK'
      BY <2>2 DEF DeviceChanges, TypeOK, records, pollState, history, tasks
    <2>3. ASSUME NEW i \in Ifaces, NEW carried \in Loads, LoadChanges(i, carried) PROVE TypeOK'
      BY <2>3 DEF LoadChanges, TypeOK, records, pollState, history, tasks
    <2>4. CASE DeviceReboots
      <3>1. octets' \in [Ifaces -> [Dirs -> 0..Counter64Max]]
        BY <2>4, CountersAssumption DEF DeviceReboots
      <3>2. sample' \in [Dirs -> Samples \cup {None}]
        BY <2>4 DEF DeviceReboots, TypeOK, Samples
      <3>. QED
        BY <2>4, <3>1, <3>2 DEF DeviceReboots, TypeOK, pollState, tasks
    <2>5. CASE Tick
      BY <2>5, SnmpAssumption DEF Tick, TypeOK, records, pollState, history, environment
    <2>6. CASE RunTask
      BY <2>6, BeginPollType, SnmpAssumption DEF RunTask, TypeOK, environment
    <2>7. CASE PollNow
      BY <2>7, BeginPollType DEF PollNow, TypeOK, environment
    <2>8. CASE PollAnswers
      BY <2>8, PollAnswersType DEF PollAnswers, TypeOK, environment
    <2>9. CASE PollFails
      BY <2>9, RecordFailedAttemptType DEF PollFails, TypeOK, environment
    <2>10. ASSUME NEW i \in Ifaces, SelectInterface(i) PROVE TypeOK'
      BY <2>10 DEF SelectInterface, TypeOK, records, pollState, history, tasks, environment
    <2>11. CASE Restart
      BY <2>11, SnmpAssumption DEF Restart, TypeOK, records, pollState, history, environment
    <2>12. CASE UNCHANGED vars
      BY <2>12 DEF vars, TypeOK, records, pollState, history, tasks, environment
    <2>. QED
      BY <2>1, <2>2, <2>3, <2>4, <2>5, <2>6, <2>7, <2>8, <2>9, <2>10, <2>11, <2>12
      DEF Next
  <1>. QED
    BY <1>1, <1>2, PTL DEF Spec

--------------------------------------------------------------------------------
(* The steps that touch the alert: a poll records a rate, or time passes.       *)
AlertState == <<breachAge, alertOpen, measured, calmAge>>

RateStep ==
  \E util \in Int :
    /\ measured' # None /\ measured'.utilisation = util
    /\ breachAge' = BreachAfter(util)
    /\ alertOpen' = AlertAfter(util)
    /\ calmAge' = IF util <= Threshold THEN 0 ELSE calmAge

ElapseStep ==
  /\ breachAge' = Older(breachAge)
  /\ calmAge' = Older(calmAge)
  /\ UNCHANGED <<alertOpen, measured>>

LEMMA RecordRateSteps ==
  ASSUME TypeOK, NEW reading \in [Dirs -> Nat \cup {None}], pollAge # 0,
         NEW is64 \in BOOLEAN, RecordRate(reading, is64)
  PROVE  RateStep \/ UNCHANGED AlertState
  <1>1. CASE ~Rated(reading)
    BY <1>1 DEF RecordRate, AlertState
  <1>2. CASE Rated(reading)
    <2>. DEFINE deltas == Deltas(reading, is64)
                util   == UtilisationOf(deltas)
    <2>1. deltas \in [Dirs -> Int] /\ util \in Int
      BY <1>2, UtilisationType
    <2>2. /\ measured' = NewMeasurement(deltas)
          /\ breachAge' = BreachAfter(util)
          /\ alertOpen' = AlertAfter(util)
          /\ calmAge' = IF util <= Threshold THEN 0 ELSE calmAge
      BY <1>2 DEF RecordRate
    <2>3. measured' # None
      BY <1>2, <2>2, NewMeasurementType
    <2>4. measured'.utilisation = util
      BY <2>2 DEF NewMeasurement
    <2>. HIDE DEF util
    <2>. QED
      BY <2>1, <2>2, <2>3, <2>4 DEF RateStep
  <1>. QED
    BY <1>1, <1>2

LEMMA AlertSteps ==
  ASSUME TypeOK, [Next]_vars
  PROVE  RateStep \/ ElapseStep \/ UNCHANGED AlertState
  <1>1. CASE Elapse
    BY <1>1 DEF Elapse, ElapseStep
  <1>2. CASE PollAnswers
    <2>1. inFlight \in Ifaces /\ pollAge # 0
      BY <1>2 DEF PollAnswers, TypeOK
    <2>2. PICK answer \in Answers :
            IF Storable(Reading(inFlight, answer))
            THEN /\ RecordRate(Reading(inFlight, answer), UsedHighCapacity(answer))
                 /\ RecordBaseline(inFlight, Reading(inFlight, answer), UsedHighCapacity(answer))
            ELSE UNCHANGED records
      BY <1>2 DEF PollAnswers
    <2>3. Reading(inFlight, answer) \in [Dirs -> Nat \cup {None}]
      BY <2>1, ReadingType
    <2>4. UsedHighCapacity(answer) \in BOOLEAN
      BY DEF UsedHighCapacity, TypeOK
    <2>. QED
      BY <2>1, <2>2, <2>3, <2>4, RecordRateSteps
      DEF records, pollState, history, AlertState
  <1>3. ASSUME NEW condition \in Devices, DeviceChanges(condition) PROVE UNCHANGED AlertState
    BY <1>3 DEF DeviceChanges, records, pollState, history, AlertState
  <1>4. ASSUME NEW i \in Ifaces, NEW carried \in Loads, LoadChanges(i, carried)
        PROVE  UNCHANGED AlertState
    BY <1>4 DEF LoadChanges, records, pollState, history, AlertState
  <1>5. CASE DeviceReboots
    BY <1>5 DEF DeviceReboots, pollState, AlertState
  <1>6. CASE Tick
    BY <1>6 DEF Tick, records, pollState, history, AlertState
  <1>7. CASE RunTask \/ PollNow
    BY <1>7 DEF RunTask, PollNow, BeginPoll, RecordFailedAttempt, records, pollState, history,
                AlertState
  <1>8. CASE PollFails
    BY <1>8 DEF PollFails, RecordFailedAttempt, AlertState
  <1>9. ASSUME NEW i \in Ifaces, SelectInterface(i) PROVE UNCHANGED AlertState
    BY <1>9 DEF SelectInterface, records, pollState, history, AlertState
  <1>10. CASE Restart
    BY <1>10 DEF Restart, records, pollState, history, AlertState
  <1>11. CASE UNCHANGED vars
    BY <1>11 DEF vars, records, pollState, history, AlertState
  <1>. QED
    BY <1>1, <1>2, <1>3, <1>4, <1>5, <1>6, <1>7, <1>8, <1>9, <1>10, <1>11 DEF Next

(* A breach is younger than the last calm utilisation: what makes the age of the *)
(* breach evidence that nothing calm was measured meanwhile.                    *)
BreachIsYounger ==
  breachAge # None => calmAge = None \/ calmAge >= breachAge

BreachInv == BreachIsYounger /\ SustainedAlertEarned

LEMMA BreachInvInductive ==
  ASSUME TypeOK, BreachInv, [Next]_vars
  PROVE  BreachInv'
  <1>1. Duration \in Nat /\ Duration <= MaxAge /\ MaxAge \in Nat /\ Threshold \in Int
    BY SnmpAssumption
  <1>2. /\ breachAge \in Ages \cup {None} /\ calmAge \in Ages \cup {None}
        /\ alertOpen \in BOOLEAN
    BY DEF TypeOK
  <1>3. CASE RateStep
    <2>1. PICK util \in Int :
            /\ breachAge' = BreachAfter(util)
            /\ alertOpen' = AlertAfter(util)
            /\ calmAge' = IF util <= Threshold THEN 0 ELSE calmAge
      BY <1>3 DEF RateStep
    <2>2. CASE util <= Threshold
      BY <1>2, <2>1, <2>2, SustainedEvaluation DEF BreachInv, BreachIsYounger, SustainedAlertEarned
    <2>3. CASE util > Threshold
      <3>1. breachAge' = BreachAgeFrom /\ calmAge' = calmAge
        BY <1>1, <1>2, <2>1, <2>3, SustainedEvaluation
      <3>2. alertOpen' <=> alertOpen \/ BreachAgeFrom >= Duration
        BY <1>2, <2>1, <2>3, SustainedEvaluation
      <3>3. BreachAgeFrom \in Ages /\ BreachAgeFrom # None
        BY <1>1, <1>2, NoneIsNoInteger DEF BreachAgeFrom, Ages
      <3>4. calmAge = None \/ calmAge >= BreachAgeFrom
        BY <1>1, <1>2 DEF BreachInv, BreachIsYounger, BreachAgeFrom, Ages
      <3>5. alertOpen => BreachAgeFrom >= Duration
        BY DEF BreachInv, SustainedAlertEarned, BreachAgeFrom
      <3>6. BreachIsYounger'
        BY <3>1, <3>4 DEF BreachIsYounger
      <3>7. alertOpen' => BreachAgeFrom >= Duration
        BY <3>2, <3>5
      <3>8. BreachAgeFrom >= Duration => calmAge = None \/ calmAge >= Duration
        BY <1>1, <1>2, <3>3, <3>4 DEF Ages
      <3>9. SustainedAlertEarned'
        BY <3>1, <3>3, <3>7, <3>8 DEF SustainedAlertEarned
      <3>. QED
        BY <3>6, <3>9 DEF BreachInv
    <2>. QED
      BY <1>1, <2>2, <2>3
  <1>4. CASE ElapseStep
    <2>1. breachAge' = Older(breachAge) /\ calmAge' = Older(calmAge) /\ alertOpen' = alertOpen
      BY <1>4 DEF ElapseStep
    <2>2. BreachIsYounger'
      BY <1>2, <2>1, OlderType, OlderIsMonotone DEF BreachInv, BreachIsYounger
    <2>3. ASSUME alertOpen
          PROVE  /\ Older(breachAge) # None /\ Older(breachAge) >= Duration
                 /\ Older(calmAge) = None \/ Older(calmAge) >= Duration
      <3>1. breachAge \in Ages /\ breachAge >= Duration
        BY <1>2, <2>3 DEF BreachInv, SustainedAlertEarned
      <3>2. Older(breachAge) \in Ages \cup {None} /\ Older(breachAge) # None
            /\ Older(breachAge) >= breachAge
        BY <1>2, <3>1, OlderType, NoneIsNoInteger DEF Ages
      <3>3. Older(breachAge) >= Duration
        BY <1>1, <3>1, <3>2 DEF Ages
      <3>4. CASE calmAge = None
        BY <3>2, <3>3, <3>4 DEF Older
      <3>5. CASE calmAge # None
        <4>1. calmAge \in Ages /\ calmAge >= Duration
          BY <1>2, <2>3, <3>5 DEF BreachInv, SustainedAlertEarned
        <4>2. Older(calmAge) \in Ages /\ Older(calmAge) >= calmAge
          BY <1>2, <3>5, OlderType
        <4>3. Older(calmAge) >= Duration
          BY <1>1, <4>1, <4>2 DEF Ages
        <4>. QED
          BY <3>2, <3>3, <4>3
      <3>. QED
        BY <3>4, <3>5
    <2>4. SustainedAlertEarned'
      BY <2>1, <2>3 DEF SustainedAlertEarned
    <2>. QED
      BY <2>2, <2>4 DEF BreachInv
  <1>5. CASE UNCHANGED AlertState
    BY <1>5 DEF AlertState, BreachInv, BreachIsYounger, SustainedAlertEarned
  <1>. QED
    BY <1>3, <1>4, <1>5, AlertSteps

(* The sustained-utilisation alert is open only while a breach has lasted its    *)
(* duration and nothing within the threshold was measured meanwhile             *)
(* (alert_engine.py:60-84, worker.py:293-311).                                  *)
THEOREM AlertIsEarned == Spec => []SustainedAlertEarned
  <1>1. ASSUME Init PROVE BreachInv
    BY <1>1 DEF Init, BreachInv, BreachIsYounger, SustainedAlertEarned
  <1>2. TypeOK /\ BreachInv /\ [Next]_vars => BreachInv'
    BY BreachInvInductive
  <1>3. BreachInv => SustainedAlertEarned
    BY DEF BreachInv
  <1>. QED
    BY <1>1, <1>2, <1>3, TypeCorrect, PTL DEF Spec

LEMMA AlertFollowsInductive ==
  ASSUME TypeOK, AlertFollowsUtilisation, [Next]_vars
  PROVE  AlertFollowsUtilisation'
  <1>1. Threshold \in Int /\ MaxAge \in Nat
    BY SnmpAssumption
  <1>2. breachAge \in Ages \cup {None} /\ alertOpen \in BOOLEAN
    BY DEF TypeOK
  <1>3. CASE RateStep
    <2>1. PICK util \in Int :
            /\ measured'.utilisation = util
            /\ breachAge' = BreachAfter(util)
            /\ alertOpen' = AlertAfter(util)
      BY <1>3 DEF RateStep
    <2>2. CASE util <= Threshold
      BY <1>1, <1>2, <2>1, <2>2, SustainedEvaluation DEF AlertFollowsUtilisation
    <2>3. CASE util > Threshold
      <3>1. breachAge' = BreachAgeFrom
        BY <1>2, <2>1, <2>3, SustainedEvaluation
      <3>2. BreachAgeFrom # None
        BY <1>1, <1>2, NoneIsNoInteger DEF BreachAgeFrom, Ages
      <3>. QED
        BY <2>1, <2>3, <3>1, <3>2 DEF AlertFollowsUtilisation
    <2>. QED
      BY <1>1, <2>2, <2>3
  <1>4. CASE ElapseStep
    BY <1>2, <1>4, OlderType DEF ElapseStep, AlertFollowsUtilisation
  <1>5. CASE UNCHANGED AlertState
    BY <1>5 DEF AlertState, AlertFollowsUtilisation
  <1>. QED
    BY <1>3, <1>4, <1>5, AlertSteps

(* The sustained-utilisation alert and the breach it is timed by follow from the *)
(* newest utilisation on record (worker.py:275-311).                             *)
THEOREM AlertFollowsRecord == Spec => []AlertFollowsUtilisation
  <1>1. ASSUME Init PROVE AlertFollowsUtilisation
    BY <1>1 DEF Init, AlertFollowsUtilisation
  <1>2. TypeOK /\ AlertFollowsUtilisation /\ [Next]_vars => AlertFollowsUtilisation'
    BY AlertFollowsInductive
  <1>. QED
    BY <1>1, <1>2, TypeCorrect, PTL DEF Spec

--------------------------------------------------------------------------------
(* The stored octets of both directions are as old as the last recorded attempt: *)
(* what makes one timestamp enough for two counters.                            *)
BaselineInv ==
  \A d \in Dirs :
    /\ sample[d] = None <=> lastOctets[d] = None
    /\ sample[d] # None => pollAge # None /\ sample[d].age = pollAge

Baseline == <<lastOctets, sample, pollAge, measured>>

(* Every answer has the 32-bit counters of both directions.                      *)
CompleteAnswers == \A answer \in Answers : answer.low = Dirs

LEMMA CompleteAnswer ==
  ASSUME TypeOK, CompleteAnswers, PollAnswers
  PROVE  \/ UNCHANGED Baseline
         \/ \E reading \in [Dirs -> Nat], is64 \in BOOLEAN :
              /\ inFlight \in Ifaces
              /\ RecordRate(reading, is64) /\ RecordBaseline(inFlight, reading, is64)
  <1>1. inFlight \in Ifaces
    BY DEF PollAnswers, TypeOK
  <1>2. PICK answer \in Answers :
          IF Storable(Reading(inFlight, answer))
          THEN /\ RecordRate(Reading(inFlight, answer), UsedHighCapacity(answer))
               /\ RecordBaseline(inFlight, Reading(inFlight, answer), UsedHighCapacity(answer))
          ELSE UNCHANGED records
    BY DEF PollAnswers
  <1>3. Reading(inFlight, answer) \in [Dirs -> Nat]
    <2>1. ASSUME NEW d \in Dirs
          PROVE  /\ octets[inFlight][d] \in Nat
                 /\ octets[inFlight][d] % (Counter32Max + 1) \in Nat
      BY <1>1, CountersAssumption, ModIsBounded DEF TypeOK
    <2>2. answer.low = Dirs
      BY DEF CompleteAnswers
    <2>. QED
      BY <2>1, <2>2 DEF Reading
  <1>4. UsedHighCapacity(answer) \in BOOLEAN
    BY DEF UsedHighCapacity, TypeOK
  <1>. QED
    BY <1>1, <1>2, <1>3, <1>4 DEF records, pollState, history, Baseline

LEMMA BaselineSteps ==
  ASSUME TypeOK, CompleteAnswers, [Next]_vars
  PROVE  \/ UNCHANGED Baseline
         \/ Elapse
         \/ DeviceReboots
         \/ RecordFailedAttempt
         \/ \E reading \in [Dirs -> Nat], is64 \in BOOLEAN :
              /\ inFlight \in Ifaces
              /\ RecordRate(reading, is64) /\ RecordBaseline(inFlight, reading, is64)
  <1>1. CASE PollAnswers
    BY <1>1, CompleteAnswer
  <1>2. ASSUME NEW condition \in Devices, DeviceChanges(condition) PROVE UNCHANGED Baseline
    BY <1>2 DEF DeviceChanges, records, pollState, history, Baseline
  <1>3. ASSUME NEW i \in Ifaces, NEW carried \in Loads, LoadChanges(i, carried)
        PROVE  UNCHANGED Baseline
    BY <1>3 DEF LoadChanges, records, pollState, history, Baseline
  <1>4. CASE Tick
    BY <1>4 DEF Tick, records, pollState, history, Baseline
  <1>5. CASE RunTask \/ PollNow
    BY <1>5 DEF RunTask, PollNow, BeginPoll, records, pollState, history, Baseline
  <1>6. CASE PollFails
    BY <1>6 DEF PollFails
  <1>7. ASSUME NEW i \in Ifaces, SelectInterface(i) PROVE UNCHANGED Baseline
    BY <1>7 DEF SelectInterface, records, pollState, history, Baseline
  <1>8. CASE Restart
    BY <1>8 DEF Restart, records, pollState, history, Baseline
  <1>9. CASE UNCHANGED vars
    BY <1>9 DEF vars, records, pollState, history, Baseline
  <1>. QED
    BY <1>1, <1>2, <1>3, <1>4, <1>5, <1>6, <1>7, <1>8, <1>9 DEF Next

LEMMA BaselineInvInductive ==
  ASSUME TypeOK, CompleteAnswers, BaselineInv, [Next]_vars
  PROVE  BaselineInv'
  <1>1. CASE UNCHANGED Baseline
    BY <1>1 DEF Baseline, BaselineInv
  <1>2. CASE Elapse
    <2>1. ASSUME NEW d \in Dirs
          PROVE  /\ sample'[d] = None <=> lastOctets'[d] = None
                 /\ sample'[d] # None => pollAge' # None /\ sample'[d].age = pollAge'
      <3>1. lastOctets' = lastOctets /\ pollAge' = Older(pollAge)
        BY <1>2 DEF Elapse
      <3>2. CASE sample[d] = None
        BY <1>2, <3>1, <3>2 DEF Elapse, BaselineInv
      <3>3. CASE sample[d] # None
        <4>1. sample[d] \in Samples
          BY <3>3 DEF TypeOK
        <4>2. sample'[d] \in Samples \cup {None}
          BY <1>2, ElapseType
        <4>3. sample'[d] = [sample[d] EXCEPT !.age = Older(@),
                !.carried = UpTo(Counter64Max + 1, @ + load[sample[d].iface][d])]
          BY <1>2, <3>3 DEF Elapse
        <4>4. sample'[d].age = Older(sample[d].age)
          BY <4>1, <4>3 DEF Samples
        <4>5. sample'[d] # None
          BY <1>2, <3>3, AgedSampleIsSample DEF Elapse
        <4>6. pollAge # None /\ sample[d].age = pollAge /\ lastOctets[d] # None
          BY <3>3 DEF BaselineInv
        <4>7. Older(pollAge) # None
          BY <4>6, OlderType DEF TypeOK
        <4>. QED
          BY <3>1, <4>4, <4>5, <4>6, <4>7
      <3>. QED
        BY <3>2, <3>3
    <2>. QED
      BY <2>1 DEF BaselineInv
  <1>3. CASE DeviceReboots
    <2>1. ASSUME NEW d \in Dirs, sample[d] # None
          PROVE  sample'[d] # None /\ sample'[d].age = sample[d].age
      <3>1. sample'[d] = [sample[d] EXCEPT !.rebooted = TRUE]
        BY <1>3, <2>1 DEF DeviceReboots
      <3>2. sample[d] \in Samples
        BY <2>1 DEF TypeOK
      <3>3. sample'[d] \in Samples /\ sample'[d].age = sample[d].age
        BY <3>1, <3>2 DEF Samples
      <3>. QED
        BY <3>3, NoneIsNoSample
    <2>2. \A d \in Dirs : sample[d] = None => sample'[d] = None
      BY <1>3 DEF DeviceReboots
    <2>3. lastOctets' = lastOctets /\ pollAge' = pollAge
      BY <1>3 DEF DeviceReboots, pollState
    <2>. QED
      BY <2>1, <2>2, <2>3 DEF BaselineInv
  <1>4. CASE RecordFailedAttempt
    BY <1>4 DEF RecordFailedAttempt, NoOctets, BaselineInv
  <1>5. ASSUME NEW reading \in [Dirs -> Nat], NEW is64 \in BOOLEAN,
               RecordBaseline(inFlight, reading, is64), inFlight \in Ifaces
        PROVE  BaselineInv'
    <2>1. \A d \in Dirs : reading[d] # None
      BY NoneIsNoInteger
    <2>2. /\ pollAge' = 0
          /\ \A d \in Dirs : lastOctets'[d] = reading[d] /\ sample'[d] = FreshSample(inFlight, is64)
      BY <1>5, <2>1 DEF RecordBaseline
    <2>3. FreshSample(inFlight, is64).age = 0
      BY DEF FreshSample
    <2>4. FreshSample(inFlight, is64) # None
      BY <1>5, FreshSampleType, NoneIsNoSample
    <2>. QED
      BY <2>1, <2>2, <2>3, <2>4, NoneIsNoInteger DEF BaselineInv
  <1>. QED
    BY <1>1, <1>2, <1>3, <1>4, <1>5, BaselineSteps

LEMMA RateElapsed ==
  ASSUME TypeOK, CompleteAnswers, BaselineInv, [Next]_vars, NewRate
  PROVE  \A d \in Dirs : measured'.elapsed = sample[d].age
  <1>1. PICK reading \in [Dirs -> Nat], is64 \in BOOLEAN : RecordRate(reading, is64)
    BY BaselineSteps DEF NewRate, Baseline, Elapse, DeviceReboots, RecordFailedAttempt
  <1>2. Rated(reading)
    BY <1>1 DEF RecordRate, NewRate
  <1>3. measured' = NewMeasurement(Deltas(reading, is64))
    BY <1>1, <1>2 DEF RecordRate
  <1>4. measured'.elapsed = pollAge
    BY <1>3 DEF NewMeasurement
  <1>. QED
    BY <1>2, <1>4 DEF Rated, BaselineInv

(* A rate is the difference of two samples over the time between these very      *)
(* samples, if the device answers for both directions or not at all             *)
(* (worker.py:100-114 and 251-291).                                             *)
THEOREM RatesAreTimedRight == CompleteAnswers /\ Spec => ElapsedIsHonest
  <1>1. SUFFICES ASSUME CompleteAnswers PROVE Spec => ElapsedIsHonest
    OBVIOUS
  <1>2. ASSUME Init PROVE BaselineInv
    BY <1>2 DEF Init, NoOctets, BaselineInv
  <1>3. TypeOK /\ BaselineInv /\ [Next]_vars => BaselineInv'
    BY <1>1, BaselineInvInductive
  <1>4. TypeOK /\ BaselineInv /\ [Next]_vars =>
          [NewRate => \A d \in Dirs : measured'.elapsed = sample[d].age]_vars
    BY <1>1, RateElapsed
  <1>. QED
    BY <1>2, <1>3, <1>4, TypeCorrect, PTL DEF Spec, ElapsedIsHonest

----------------------------------------------------------------------------------
LEMMA RecordedIsNotDue ==
  ASSUME pollAge' = 0
  PROVE  ~Due'
  BY NoneIsNoInteger, SnmpAssumption DEF Due

(* A poll that was attempted leaves the link not due, whether it was answered,   *)
(* failed, or could not use its credential (worker.py:100-109 and 207-257).      *)
THEOREM AttemptsKeepTheCadence == Spec => AttemptsAreRecorded
  <1>1. ASSUME PollAnswers, Fits(inFlight) PROVE ~Due'
    <2>1. PICK answer \in Answers :
            LET reading == Reading(inFlight, answer)
            IN  IF Storable(reading)
                THEN /\ RecordRate(reading, UsedHighCapacity(answer))
                     /\ RecordBaseline(inFlight, reading, UsedHighCapacity(answer))
                ELSE UNCHANGED records
      BY <1>1 DEF PollAnswers
    <2>2. Storable(Reading(inFlight, answer))
      BY <1>1 DEF Fits
    <2>3. pollAge' = 0
      BY <2>1, <2>2 DEF RecordBaseline
    <2>. QED
      BY <2>3, RecordedIsNotDue
  <1>2. ASSUME PollFails PROVE ~Due'
    BY <1>2, RecordedIsNotDue DEF PollFails, RecordFailedAttempt
  <1>3. ASSUME RunTask \/ PollNow, inFlight = None, selected # None, ~credentialOk
        PROVE  ~Due'
    BY <1>3, RecordedIsNotDue DEF RunTask, PollNow, BeginPoll, RecordFailedAttempt
  <1>4. [Next]_vars => [Attempted => ~Due']_vars
    BY <1>1, <1>2, <1>3 DEF Attempted
  <1>. QED
    BY <1>4, PTL DEF Spec, AttemptsAreRecorded

----------------------------------------------------------------------------------
(* Arithmetic of counters that wrap.                                           *)
LEMMA Divides ==
  ASSUME NEW n \in Nat, NEW m \in Nat
  PROVE  n = ((n \div (m + 1)) * (m + 1)) + (n % (m + 1)) /\ n \div (m + 1) \in Int
  <1>1. n = ((n \div (m + 1)) * (m + 1)) + (n % (m + 1))
    OBVIOUS
  <1>2. n \div (m + 1) \in Int
    OBVIOUS
  <1>. QED
    BY <1>1, <1>2

LEMMA WrapsOnce ==
  ASSUME NEW m \in Nat, NEW a \in 0..m, NEW b \in 0..m
  PROVE  (a + b) % (m + 1) = IF a + b <= m THEN a + b ELSE a + b - (m + 1)
  OBVIOUS

LEMMA FewWraps ==
  ASSUME NEW m \in Nat, NEW n \in 0..(m + m), NEW r \in 0..m, NEW k \in Int,
         r = n + (k * (m + 1))
  PROVE  r = n \/ r = n - (m + 1)
  <1>1. CASE k >= 1
    <2>1. k * (m + 1) >= m + 1
      BY <1>1
    <2>. QED
      BY <2>1
  <1>2. CASE k <= -2
    <2>1. k * (m + 1) <= (-2) * (m + 1)
      BY <1>2
    <2>. QED
      BY <2>1
  <1>3. CASE k = 0
    BY <1>3
  <1>4. CASE k = -1
    BY <1>4
  <1>. QED
    BY <1>1, <1>2, <1>3, <1>4

(* The counter's value after a tick differs from the one before by what was      *)
(* carried and by whole turns of a 32-bit counter.                              *)
LEMMA TurnsOfTheWide ==
  ASSUME NEW o \in Nat, NEW l \in Nat
  PROVE  \E k \in Int : (o + l) % (Counter64Max + 1) = o + l + (k * (Counter32Max + 1))
  <1>. DEFINE big == Counter64Max + 1
  <1>. DEFINE small == Counter32Max + 1
  <1>. DEFINE q == (o + l) \div big
  <1>. DEFINE t == big \div small
  <1>1. Counter32Max \in Nat /\ Counter64Max \in Nat /\ big % small = 0
    BY CountersAssumption, SnmpAssumption
  <1>0. o + l \in Nat
    OBVIOUS
  <1>2. o + l = (q * big) + ((o + l) % big) /\ q \in Int
    BY <1>0, <1>1, Divides, Zenon
  <1>4. small \in Nat /\ big \in Nat /\ (o + l) % big \in Int
    BY <1>1
  <1>3. big = t * small /\ t \in Int
    <2>1. big = (t * small) + (big % small) /\ t \in Int
      BY <1>1, <1>4, Divides, Zenon
    <2>. HIDE DEF t
    <2>2. t * small \in Int
      BY <1>4, <2>1
    <2>. QED
      BY <1>1, <2>1, <2>2
  <1>. DEFINE k == -(q * t)
  <1>5. k \in Int
    BY <1>2, <1>3
  <1>6. q * big = (q * t) * small
    <2>. HIDE DEF q, t, small, big
    <2>. QED BY <1>2, <1>3, <1>4
  <1>7. (o + l) % big = o + l + (k * small)
    <2>. HIDE DEF q, t, small, big
    <2>1. k * small = -((q * t) * small)
      BY <1>2, <1>3, <1>4
    <2>2. (q * t) * small \in Int
      BY <1>2, <1>3, <1>4
    <2>. DEFINE m == (o + l) % big
    <2>. DEFINE p == (q * t) * small
    <2>. HIDE DEF m, p
    <2>3. o + l = p + m /\ m \in Int /\ p \in Int
      BY <1>2, <1>4, <1>6, <2>2 DEF m, p
    <2>4. m = o + l + -p
      BY <2>3
    <2>. QED
      BY <2>1, <2>4 DEF m, p
  <1>. WITNESS k \in Int
  <1>. QED
    BY <1>7

(* What a counter's value o says of a sample s that was stored as p: what was    *)
(* carried since, up to a turn of the 64-bit counter, or to any number of turns  *)
(* of a 32-bit one.                                                             *)
Counts(s, p, o) ==
  /\ p <= Counter64Max
  /\ s.is64 =>
       IF s.rebooted \/ s.carried > Counter64Max THEN o <= s.carried
       ELSE o = p + s.carried \/ o = p + s.carried - (Counter64Max + 1)
  /\ ~s.is64 =>
       /\ p <= Counter32Max
       /\ ~s.rebooted /\ s.carried <= Counter64Max =>
            \E k \in Int : o = p + s.carried + (k * (Counter32Max + 1))

TrafficInv ==
  \A d \in Dirs : sample[d] # None =>
    /\ lastOctets[d] # None
    /\ Counts(sample[d], lastOctets[d], octets[sample[d].iface][d])

(* A tick in which l is carried.                                                *)
LEMMA CountsOn ==
  ASSUME NEW s \in Samples, NEW p \in Nat, NEW o \in 0..Counter64Max, NEW l \in Nat,
         NEW t \in Samples, Counts(s, p, o),
         t.is64 = s.is64, t.rebooted = s.rebooted,
         t.carried = UpTo(Counter64Max + 1, s.carried + l)
  PROVE  Counts(t, p, (o + l) % (Counter64Max + 1))
  <1>. DEFINE n == (o + l) % (Counter64Max + 1)
  <1>1. Counter32Max \in Nat /\ Counter64Max \in Nat
    BY CountersAssumption
  <1>2. s.carried \in Nat /\ s.carried <= Counter64Max + 1
    BY <1>1 DEF Samples, Carried
  <1>3. t.carried \in Nat /\ t.carried <= Counter64Max + 1
    BY <1>1 DEF Samples, Carried
  <1>4. t.carried > Counter64Max \/ t.carried = s.carried + l
    BY <1>1, <1>2 DEF UpTo
  <1>5. n \in 0..Counter64Max
    BY <1>1, ModIsBounded
  <1>6. ASSUME s.is64
        PROVE  IF t.rebooted \/ t.carried > Counter64Max THEN n <= t.carried
               ELSE n = p + t.carried \/ n = p + t.carried - (Counter64Max + 1)
    <2>1. CASE t.carried > Counter64Max
      BY <1>1, <1>3, <1>5, <2>1
    <2>2. CASE t.carried <= Counter64Max
      <3>1. t.carried = s.carried + l /\ s.carried <= Counter64Max /\ l <= Counter64Max
        BY <1>1, <1>2, <1>3, <1>4, <2>2
      <3>2. l \in 0..Counter64Max
        BY <1>1, <3>1
      <3>3. n = IF o + l <= Counter64Max THEN o + l ELSE o + l - (Counter64Max + 1)
        BY <1>1, <3>2, WrapsOnce, Zenon
      <3>4. CASE t.rebooted
        <4>1. o <= s.carried
          BY <1>6, <3>4 DEF Counts
        <4>. QED
          BY <1>1, <1>2, <3>1, <3>3, <3>4, <4>1
      <3>5. CASE ~t.rebooted
        <4>1. /\ p <= Counter64Max
              /\ o = p + s.carried \/ o = p + s.carried - (Counter64Max + 1)
          BY <1>1, <1>2, <1>6, <3>1, <3>5 DEF Counts
        <4>. HIDE DEF n
        <4>. QED
          BY <1>1, <1>2, <2>2, <3>1, <3>3, <3>5, <4>1
      <3>. QED
        BY <3>4, <3>5
    <2>. QED
      BY <1>1, <1>3, <2>1, <2>2
  <1>7. ASSUME ~s.is64, ~t.rebooted, t.carried <= Counter64Max
        PROVE  \E k \in Int : n = p + t.carried + (k * (Counter32Max + 1))
    <2>. DEFINE small == Counter32Max + 1
    <2>1. t.carried = s.carried + l /\ s.carried <= Counter64Max
      BY <1>1, <1>2, <1>3, <1>4, <1>7
    <2>2. PICK j \in Int : o = p + s.carried + (j * small)
      BY <1>7, <2>1 DEF Counts
    <2>3. PICK k \in Int : n = o + l + (k * small)
      BY TurnsOfTheWide
    <2>4. small \in Int
      BY <1>1
    <2>. HIDE DEF n, small
    <2>5. (j + k) * small = (j * small) + (k * small)
      BY <2>4
    <2>6. j * small \in Int /\ k * small \in Int
      BY <2>4
    <2>7. n = p + t.carried + ((j + k) * small)
      BY <1>2, <2>1, <2>2, <2>3, <2>5, <2>6
    <2>8. j + k \in Int
      OBVIOUS
    <2>. QED
      BY <2>7, <2>8 DEF small
  <1>. QED
    BY <1>6, <1>7 DEF Counts

(* What is stored now is read from the counter as it is.                        *)
LEMMA CountsFromHere ==
  ASSUME NEW i \in Ifaces, NEW is64 \in BOOLEAN, NEW o \in 0..Counter64Max, NEW p \in Nat,
         p = IF is64 THEN o ELSE o % (Counter32Max + 1)
  PROVE  Counts(FreshSample(i, is64), p, o)
  <1>1. Counter32Max \in Nat /\ Counter64Max \in Nat /\ Counter32Max <= Counter64Max
    BY CountersAssumption
  <1>2. CASE is64
    BY <1>1, <1>2 DEF Counts, FreshSample
  <1>3. CASE ~is64
    <2>1. p = o % (Counter32Max + 1) /\ p \in 0..Counter32Max
      BY <1>1, <1>3, ModIsBounded
    <2>2. o = ((o \div (Counter32Max + 1)) * (Counter32Max + 1)) + p
          /\ o \div (Counter32Max + 1) \in Int
      <3>1. o \in Nat
        BY <1>1
      <3>. QED
        BY <1>1, <2>1, <3>1, Divides, Zenon
    <2>. DEFINE k == o \div (Counter32Max + 1)
    <2>. HIDE DEF k
    <2>3. k \in Int /\ k * (Counter32Max + 1) \in Int
      BY <1>1, <2>2 DEF k
    <2>4. o = p + 0 + (k * (Counter32Max + 1))
      <3>1. o = (k * (Counter32Max + 1)) + p
        BY <2>2 DEF k
      <3>. QED
        BY <2>1, <2>3, <3>1
    <2>. DEFINE s == FreshSample(i, is64)
    <2>5. s.carried = 0 /\ s.is64 = FALSE
      BY <1>3 DEF FreshSample
    <2>. HIDE DEF s
    <2>6. \E n \in Int : o = p + s.carried + (n * (Counter32Max + 1))
      BY <2>3, <2>4, <2>5
    <2>7. p <= Counter64Max /\ p <= Counter32Max
      BY <1>1, <2>1
    <2>8. Counts(s, p, o)
      BY <2>5, <2>6, <2>7 DEF Counts
    <2>. QED
      BY <2>8 DEF s
  <1>. QED
    BY <1>2, <1>3

(* The steps that touch the baseline or the counters.                           *)
CounterState == <<lastOctets, sample, octets, measured>>

Recorded(answer) ==
  /\ inFlight \in Ifaces
  /\ RecordRate(Reading(inFlight, answer), UsedHighCapacity(answer))
  /\ RecordBaseline(inFlight, Reading(inFlight, answer), UsedHighCapacity(answer))
  /\ UNCHANGED octets

LEMMA CounterSteps ==
  ASSUME TypeOK, [Next]_vars
  PROVE  \/ UNCHANGED CounterState
         \/ Elapse
         \/ DeviceReboots
         \/ RecordFailedAttempt /\ UNCHANGED octets
         \/ \E answer \in Answers : Recorded(answer)
  <1>1. CASE PollAnswers
    <2>1. inFlight \in Ifaces /\ UNCHANGED octets
      BY <1>1 DEF PollAnswers, TypeOK, environment
    <2>2. PICK answer \in Answers :
            IF Storable(Reading(inFlight, answer))
            THEN /\ RecordRate(Reading(inFlight, answer), UsedHighCapacity(answer))
                 /\ RecordBaseline(inFlight, Reading(inFlight, answer), UsedHighCapacity(answer))
            ELSE UNCHANGED records
      BY <1>1 DEF PollAnswers
    <2>. QED
      BY <2>1, <2>2 DEF Recorded, records, pollState, history, CounterState
  <1>2. ASSUME NEW condition \in Devices, DeviceChanges(condition)
        PROVE  UNCHANGED CounterState
    BY <1>2 DEF DeviceChanges, records, pollState, history, CounterState
  <1>3. ASSUME NEW i \in Ifaces, NEW carried \in Loads, LoadChanges(i, carried)
        PROVE  UNCHANGED CounterState
    BY <1>3 DEF LoadChanges, records, pollState, history, CounterState
  <1>4. CASE Tick
    BY <1>4 DEF Tick, records, pollState, history, environment, CounterState
  <1>5. CASE RunTask \/ PollNow
    BY <1>5 DEF RunTask, PollNow, BeginPoll, records, pollState, history, environment,
                CounterState
  <1>6. CASE PollFails
    BY <1>6 DEF PollFails, environment
  <1>7. ASSUME NEW i \in Ifaces, SelectInterface(i) PROVE UNCHANGED CounterState
    BY <1>7 DEF SelectInterface, records, pollState, history, environment, CounterState
  <1>8. CASE Restart
    BY <1>8 DEF Restart, records, pollState, history, environment, CounterState
  <1>9. CASE UNCHANGED vars
    BY <1>9 DEF vars, records, pollState, history, environment, CounterState
  <1>. QED
    BY <1>1, <1>2, <1>3, <1>4, <1>5, <1>6, <1>7, <1>8, <1>9 DEF Next

LEMMA StoredIsNatural ==
  ASSUME TypeOK, NEW d \in Dirs, lastOctets[d] # None
  PROVE  lastOctets[d] \in Nat
  BY SnmpAssumption DEF TypeOK

LEMMA OctetsType ==
  ASSUME TypeOK, NEW i \in Ifaces, NEW d \in Dirs
  PROVE  octets[i][d] \in 0..Counter64Max
  BY DEF TypeOK

(* Octets are stored with what they stand for.                                  *)
Paired == \A d \in Dirs : sample[d] = None <=> lastOctets[d] = None

LEMMA PairedInductive ==
  ASSUME TypeOK, Paired, [Next]_vars
  PROVE  Paired'
  <1>1. CASE UNCHANGED CounterState
    BY <1>1 DEF CounterState, Paired
  <1>2. CASE Elapse
    <2>1. ASSUME NEW d \in Dirs PROVE sample'[d] = None <=> sample[d] = None
      BY <1>2, AgedSampleIsSample DEF Elapse
    <2>. QED
      BY <1>2, <2>1 DEF Elapse, Paired
  <1>3. CASE DeviceReboots
    <2>1. ASSUME NEW d \in Dirs PROVE sample'[d] = None <=> sample[d] = None
      <3>1. sample[d] # None => [sample[d] EXCEPT !.rebooted = TRUE] \in Samples
        BY DEF TypeOK, Samples
      <3>. QED
        BY <1>3, <3>1, NoneIsNoSample DEF DeviceReboots
    <2>. QED
      BY <1>3, <2>1 DEF DeviceReboots, pollState, Paired
  <1>4. CASE RecordFailedAttempt
    BY <1>4 DEF RecordFailedAttempt, NoOctets, Paired
  <1>5. ASSUME NEW answer \in Answers, Recorded(answer) PROVE Paired'
    <2>. DEFINE fresh == FreshSample(inFlight, UsedHighCapacity(answer))
    <2>1. fresh # None
      <3>1. UsedHighCapacity(answer) \in BOOLEAN
        BY DEF UsedHighCapacity, TypeOK
      <3>. QED
        BY <1>5, <3>1, FreshSampleType, NoneIsNoSample DEF Recorded
    <2>. HIDE DEF fresh
    <2>2. ASSUME NEW d \in Dirs
          PROVE  LET reading == Reading(inFlight, answer)
                 IN  /\ lastOctets'[d] = IF reading[d] = None THEN lastOctets[d]
                                         ELSE reading[d]
                     /\ sample'[d] = IF reading[d] = None THEN sample[d] ELSE fresh
      BY <1>5 DEF Recorded, RecordBaseline, fresh
    <2>. QED
      BY <2>1, <2>2 DEF Paired
  <1>. QED
    BY <1>1, <1>2, <1>3, <1>4, <1>5, CounterSteps

LEMMA TrafficInvInductive ==
  ASSUME TypeOK, TrafficInv, [Next]_vars
  PROVE  TrafficInv'
  <1>. DEFINE Inv(d) ==
         sample[d] # None =>
           /\ lastOctets[d] # None
           /\ Counts(sample[d], lastOctets[d], octets[sample[d].iface][d])
  <1>0. \A d \in Dirs : Inv(d)
    BY DEF TrafficInv
  <1>1. CASE UNCHANGED CounterState
    BY <1>1 DEF CounterState, TrafficInv
  <1>2. CASE Elapse
    <2>1. ASSUME NEW d \in Dirs, sample'[d] # None
          PROVE  /\ lastOctets'[d] # None
                 /\ Counts(sample'[d], lastOctets'[d], octets'[sample'[d].iface][d])
      <3>1. sample[d] # None /\ lastOctets' = lastOctets
        BY <1>2, <2>1 DEF Elapse
      <3>. DEFINE i == sample[d].iface
      <3>2. sample[d] \in Samples /\ i \in Ifaces
        BY <3>1 DEF TypeOK, Samples
      <3>3. sample'[d] = [sample[d] EXCEPT !.age = Older(@),
              !.carried = UpTo(Counter64Max + 1, @ + load[sample[d].iface][d])]
        BY <1>2, <3>1 DEF Elapse
      <3>4. /\ sample'[d].iface = i
            /\ sample'[d].is64 = sample[d].is64
            /\ sample'[d].rebooted = sample[d].rebooted
            /\ sample'[d].carried = UpTo(Counter64Max + 1, sample[d].carried + load[i][d])
        BY <3>2, <3>3 DEF Samples
      <3>5. sample'[d] \in Samples
        BY <1>2, <2>1, ElapseType
      <3>6. octets'[i][d] = (octets[i][d] + load[i][d]) % (Counter64Max + 1)
        BY <1>2, <3>2 DEF Elapse
      <3>7. load[i][d] \in Nat
        BY <3>2, SnmpAssumption DEF TypeOK
      <3>8. octets[i][d] \in 0..Counter64Max
        BY <3>2, OctetsType
      <3>9. lastOctets[d] \in Nat /\ lastOctets[d] # None
        BY <1>0, <3>1, StoredIsNatural
      <3>10. Counts(sample[d], lastOctets[d], octets[i][d])
        BY <1>0, <3>1
      <3>. HIDE DEF i
      <3>11. Counts(sample'[d], lastOctets[d], (octets[i][d] + load[i][d]) % (Counter64Max + 1))
        BY <3>2, <3>4, <3>5, <3>7, <3>8, <3>9, <3>10, CountsOn, Zenon
      <3>. QED
        BY <3>1, <3>4, <3>6, <3>9, <3>11
    <2>. QED
      BY <2>1 DEF TrafficInv
  <1>3. CASE DeviceReboots
    <2>1. ASSUME NEW d \in Dirs, sample'[d] # None
          PROVE  /\ lastOctets'[d] # None
                 /\ Counts(sample'[d], lastOctets'[d], octets'[sample'[d].iface][d])
      <3>1. sample[d] # None /\ lastOctets' = lastOctets
        BY <1>3, <2>1 DEF DeviceReboots, pollState
      <3>2. sample[d] \in Samples
        BY <3>1 DEF TypeOK
      <3>3. sample'[d] = [sample[d] EXCEPT !.rebooted = TRUE]
        BY <1>3, <3>1 DEF DeviceReboots
      <3>4. /\ sample'[d].iface \in Ifaces
            /\ sample'[d].is64 = sample[d].is64
            /\ sample'[d].rebooted
            /\ sample'[d].carried \in Nat
        BY <3>2, <3>3, CountersAssumption DEF Samples, Carried
      <3>5. octets'[sample'[d].iface][d] = 0
        BY <1>3, <3>4 DEF DeviceReboots
      <3>6. lastOctets[d] # None /\ Counts(sample[d], lastOctets[d], octets[sample[d].iface][d])
        BY <1>0, <3>1
      <3>7. Counts(sample'[d], lastOctets[d], 0)
        BY <3>4, <3>6 DEF Counts
      <3>. QED
        BY <3>1, <3>5, <3>6, <3>7
    <2>. QED
      BY <2>1 DEF TrafficInv
  <1>4. CASE RecordFailedAttempt
    BY <1>4 DEF RecordFailedAttempt, NoOctets, TrafficInv
  <1>5. ASSUME NEW answer \in Answers, Recorded(answer) PROVE TrafficInv'
    <2>. DEFINE reading == Reading(inFlight, answer)
    <2>. DEFINE is64 == UsedHighCapacity(answer)
    <2>1. ASSUME NEW d \in Dirs, sample'[d] # None
          PROVE  /\ lastOctets'[d] # None
                 /\ Counts(sample'[d], lastOctets'[d], octets'[sample'[d].iface][d])
      <3>1. /\ octets' = octets /\ inFlight \in Ifaces
            /\ lastOctets'[d] = IF reading[d] = None THEN lastOctets[d] ELSE reading[d]
            /\ sample'[d] = IF reading[d] = None THEN sample[d] ELSE FreshSample(inFlight, is64)
        BY <1>5 DEF Recorded, RecordBaseline
      <3>2. CASE reading[d] = None
        BY <1>0, <2>1, <3>1, <3>2
      <3>3. CASE reading[d] # None
        <4>1. reading[d] = IF is64 THEN octets[inFlight][d]
                           ELSE octets[inFlight][d] % (Counter32Max + 1)
          BY <3>3 DEF Reading
        <4>2. is64 \in BOOLEAN
          BY DEF UsedHighCapacity, TypeOK
        <4>3. octets[inFlight][d] \in 0..Counter64Max
          BY <3>1, OctetsType
        <4>4. reading[d] \in Nat
          BY <3>1, <3>3, ReadingType
        <4>. HIDE DEF reading, is64
        <4>5. Counts(FreshSample(inFlight, is64), reading[d], octets[inFlight][d])
          BY <3>1, <4>1, <4>2, <4>3, <4>4, CountsFromHere, Zenon
        <4>6. FreshSample(inFlight, is64).iface = inFlight
          BY DEF FreshSample
        <4>. QED
          BY <3>1, <3>3, <4>5, <4>6
      <3>. QED
        BY <3>2, <3>3
    <2>. QED
      BY <2>1 DEF TrafficInv
  <1>. QED
    BY <1>1, <1>2, <1>3, <1>4, <1>5, CounterSteps

(* Two samples of a 64-bit counter.                                             *)
LEMMA WideDeltaIsTraffic ==
  ASSUME NEW s \in Samples, s.is64, NEW p \in Nat, NEW o \in 0..Counter64Max,
         Counts(s, p, o)
  PROVE  /\ ~s.rebooted /\ s.carried <= o => CounterDelta(p, o, TRUE) = s.carried
         /\ CounterDelta(p, o, TRUE) \in 0..s.carried
  <1>1. Counter64Max \in Nat /\ s.carried \in Nat /\ p <= Counter64Max
    BY CountersAssumption DEF Samples, Carried, Counts
  <1>2. CASE s.rebooted \/ s.carried > Counter64Max
    <2>1. o <= s.carried
      BY <1>2 DEF Counts
    <2>2. ~s.rebooted => s.carried > o
      BY <1>1, <1>2
    <2>. QED
      BY <1>1, <2>1, <2>2 DEF CounterDelta
  <1>3. CASE ~(s.rebooted \/ s.carried > Counter64Max)
    <2>1. o = p + s.carried \/ o = p + s.carried - (Counter64Max + 1)
      BY <1>1, <1>3 DEF Counts
    <2>. QED
      BY <1>1, <1>3, <2>1 DEF CounterDelta
  <1>. QED
    BY <1>2, <1>3, Zenon

(* Two samples of a 32-bit counter, which shows the rest r of its wide one.     *)
LEMMA NarrowDeltaIsTraffic ==
  ASSUME NEW s \in Samples, ~s.is64, NEW p \in Nat, NEW o \in 0..Counter64Max,
         Counts(s, p, o), NEW r \in Nat, r = o % (Counter32Max + 1)
  PROVE  /\ ~s.rebooted /\ s.carried <= Counter32Max => CounterDelta(p, r, FALSE) = s.carried
         /\ CounterDelta(p, r, FALSE) \in 0..Counter32Max
  <1>1. /\ Counter32Max \in Nat /\ Counter64Max \in Nat /\ Counter32Max <= Counter64Max
        /\ s.carried \in Nat
    BY CountersAssumption DEF Samples, Carried
  <1>2. p \in 0..Counter32Max
    BY <1>1 DEF Counts
  <1>3. r \in 0..Counter32Max
    BY <1>1, ModIsBounded
  <1>4. ASSUME ~s.rebooted, s.carried <= Counter32Max
        PROVE  CounterDelta(p, r, FALSE) = s.carried
    <2>. DEFINE w == Counter32Max + 1
    <2>. DEFINE n == p + s.carried
    <2>1. PICK k \in Int : o = p + s.carried + (k * w)
      BY <1>1, <1>4 DEF Counts
    <2>. DEFINE j == o \div w
    <2>2. o = (j * w) + r /\ j \in Int
      <3>1. o \in Nat
        BY <1>1
      <3>. QED
        BY <1>1, <3>1, Divides, Zenon
    <2>3. w \in Int /\ n \in 0..(Counter32Max + Counter32Max)
      BY <1>1, <1>2, <1>4
    <2>4. r = n + ((k - j) * w)
      <3>. HIDE DEF j, w
      <3>1. (k - j) * w = (k * w) - (j * w)
        BY <2>2, <2>3
      <3>2. k * w \in Int /\ j * w \in Int
        BY <2>2, <2>3
      <3>. HIDE DEF n
      <3>3. o = n + (k * w)
        BY <2>1 DEF n
      <3>4. n \in Int
        BY <1>1, <2>3
      <3>. DEFINE a == k * w
      <3>. DEFINE b == j * w
      <3>5. /\ (k - j) * w = a - b
            /\ a \in Int /\ b \in Int
            /\ o = n + a /\ o = b + r
        BY <2>2, <3>1, <3>2, <3>3
      <3>. HIDE DEF a, b
      <3>6. r = n + (a - b)
        BY <3>4, <3>5
      <3>. QED
        BY <3>5, <3>6
    <2>5. k - j \in Int
      BY <2>2
    <2>. HIDE DEF j, n
    <2>6. r = n \/ r = n - (Counter32Max + 1)
      BY <1>1, <1>3, <2>3, <2>4, <2>5, FewWraps, Zenon
    <2>7. r = IF p + s.carried > Counter32Max THEN p + s.carried - (Counter32Max + 1)
              ELSE p + s.carried
      BY <1>1, <1>3, <2>3, <2>6 DEF n
    <2>8. s.carried \in 0..Counter32Max /\ r \in Int
      BY <1>1, <1>3, <1>4
    <2>. QED
      BY <1>2, <2>7, <2>8, SingleWrapIsExact, Zenon
  <1>. QED
    BY <1>2, <1>3, <1>4, NarrowDeltaIsBounded

LEMMA RateIsTraffic ==
  ASSUME TypeOK, Paired, TrafficInv, [Next]_vars, NewRate, NEW d \in Dirs, SameCounter(d)
  PROVE  RateIsOfTheTraffic(d)
  <1>1. PICK answer \in Answers : Recorded(answer)
    BY CounterSteps DEF NewRate, CounterState, Elapse, DeviceReboots, RecordFailedAttempt
  <1>. DEFINE reading == Reading(inFlight, answer)
  <1>. DEFINE is64 == UsedHighCapacity(answer)
  <1>. DEFINE s == sample[d]
  <1>. DEFINE o == octets[inFlight][d]
  <1>. DEFINE p == lastOctets[d]
  <1>2. Rated(reading) /\ inFlight \in Ifaces
    BY <1>1 DEF Recorded, RecordRate, NewRate
  <1>3. measured'.delta[d] = CounterDelta(p, reading[d], is64)
    BY <1>1, <1>2 DEF Recorded, RecordRate, NewMeasurement, Deltas
  <1>4. p # None /\ reading[d] # None
    BY <1>2 DEF Rated
  <1>5. sample'[d] = FreshSample(inFlight, is64)
    BY <1>1, <1>4 DEF Recorded, RecordBaseline
  <1>6. s \in Samples /\ Counts(s, p, octets[s.iface][d])
    BY <1>4 DEF Paired, TrafficInv, TypeOK
  <1>7. s.iface = inFlight /\ s.is64 = is64
    BY <1>5 DEF SameCounter, FreshSample
  <1>8. o \in 0..Counter64Max /\ p \in Nat /\ Counts(s, p, o)
    BY <1>2, <1>4, <1>6, <1>7, OctetsType, StoredIsNatural
  <1>9. reading[d] = IF is64 THEN o ELSE o % (Counter32Max + 1)
    BY <1>4 DEF Reading
  <1>10. reading[d] \in Nat
    BY <1>2, <1>4, ReadingType
  <1>11. s.is64 \in BOOLEAN
    BY <1>6 DEF Samples
  <1>. DEFINE r == reading[d]
  <1>. HIDE DEF s, o, p, is64, r
  <1>12. CASE s.is64
    <2>1. r = o /\ measured'.delta[d] = CounterDelta(p, o, TRUE)
      BY <1>3, <1>7, <1>9, <1>12 DEF r
    <2>2. /\ ~s.rebooted /\ s.carried <= o => measured'.delta[d] = s.carried
          /\ measured'.delta[d] \in 0..s.carried
      BY <1>6, <1>8, <1>12, <2>1, WideDeltaIsTraffic
    <2>. QED
      BY <1>12, <2>2 DEF RateIsOfTheTraffic, Unambiguous, s, o
  <1>13. CASE ~s.is64
    <2>1. r = o % (Counter32Max + 1) /\ r \in Nat
          /\ measured'.delta[d] = CounterDelta(p, r, FALSE)
      BY <1>3, <1>7, <1>9, <1>10, <1>11, <1>13 DEF r
    <2>2. /\ ~s.rebooted /\ s.carried <= Counter32Max => measured'.delta[d] = s.carried
          /\ measured'.delta[d] \in 0..Counter32Max
      BY <1>6, <1>8, <1>13, <2>1, NarrowDeltaIsTraffic, Zenon
    <2>. QED
      BY <1>13, <2>2 DEF RateIsOfTheTraffic, Unambiguous, s
  <1>. QED
    BY <1>12, <1>13

(* What a rate counts is what the circuit carried since the stored sample of the *)
(* same counter, through any order of ticks, failures, wraps and reboots; after  *)
(* a reboot, or too many wraps, it is still one that counter can have counted    *)
(* (calculations.py:19-36, worker.py:251-291).                                   *)
THEOREM DeltasAreTraffic == Spec => DeltaIsTraffic
  <1>1. Init => Paired /\ TrafficInv
    BY DEF Init, NoOctets, Paired, TrafficInv
  <1>2. TypeOK /\ Paired /\ TrafficInv /\ [Next]_vars => Paired' /\ TrafficInv'
    BY PairedInductive, TrafficInvInductive
  <1>3. TypeOK /\ Paired /\ TrafficInv /\ [Next]_vars =>
          [NewRate => \A d \in Dirs : SameCounter(d) => RateIsOfTheTraffic(d)]_vars
    BY RateIsTraffic
  <1>. QED
    BY <1>1, <1>2, <1>3, TypeCorrect, PTL DEF Spec, DeltaIsTraffic

----------------------------------------------------------------------------------
(* The finding about RateOfOneInterface has one cause: another interface is       *)
(* selected while octets of the old one are stored, or a poll of it is running.   *)
SelectsWhenClear == selected' # selected => inFlight = None /\ lastOctets = NoOctets

OneInterface ==
  /\ inFlight # None => inFlight = selected
  /\ \A d \in Dirs : sample[d] # None => sample[d].iface = selected

(* A poll asks for the interface selected at its start.                           *)
LEMMA PollsTheSelected ==
  ASSUME OneInterface, [Next]_vars, SelectsWhenClear
  PROVE  inFlight' # None => inFlight' = selected'
  <1>1. CASE RunTask \/ PollNow
    <2>1. selected' = selected /\ (inFlight' = inFlight \/ inFlight' = selected)
      BY <1>1 DEF RunTask, PollNow, BeginPoll
    <2>. QED
      BY <2>1 DEF OneInterface
  <1>2. CASE inFlight' = None
    BY <1>2
  <1>3. CASE UNCHANGED <<selected, inFlight>>
    BY <1>3 DEF OneInterface
  <1>4. ASSUME NEW i \in Ifaces, SelectInterface(i)
        PROVE  inFlight' # None => inFlight' = selected'
    BY <1>4 DEF SelectInterface, SelectsWhenClear, OneInterface, tasks
  <1>. QED
    BY <1>1, <1>2, <1>3, <1>4
       DEF Next, vars, tasks, Elapse, DeviceChanges, LoadChanges, DeviceReboots, Tick,
           PollAnswers, PollFails, Restart

(* No octets are stored that are not the selected interface's.                    *)
LEMMA StoresTheSelected ==
  ASSUME TypeOK, Paired, OneInterface, [Next]_vars, SelectsWhenClear
  PROVE  \A d \in Dirs : sample'[d] # None => sample'[d].iface = selected'
  <1>1. ASSUME selected' # selected
        PROVE  \A d \in Dirs : sample'[d] = None
    <2>1. PICK i \in Ifaces : SelectInterface(i)
      BY <1>1 DEF Next, vars, Elapse, DeviceChanges, LoadChanges, DeviceReboots, Tick,
                  RunTask, PollNow, PollAnswers, PollFails, Restart
    <2>2. \A d \in Dirs : sample[d] = None
      BY <1>1 DEF SelectsWhenClear, NoOctets, Paired
    <2>. QED
      BY <2>1, <2>2 DEF SelectInterface, records, history
  <1>2. ASSUME selected' = selected
        PROVE  \A d \in Dirs : sample'[d] # None => sample'[d].iface = selected
    <2>1. CASE UNCHANGED CounterState
      BY <2>1 DEF CounterState, OneInterface
    <2>2. CASE Elapse
      BY <2>2 DEF Elapse, OneInterface, TypeOK, Samples
    <2>3. CASE DeviceReboots
      BY <2>3 DEF DeviceReboots, OneInterface, TypeOK, Samples
    <2>4. CASE RecordFailedAttempt
      BY <2>4 DEF RecordFailedAttempt, NoOctets
    <2>5. ASSUME NEW answer \in Answers, Recorded(answer), NEW d \in Dirs, sample'[d] # None
          PROVE  sample'[d].iface = selected
      <3>. DEFINE fresh == FreshSample(inFlight, UsedHighCapacity(answer))
      <3>1. inFlight = selected
        BY <2>5, SnmpAssumption DEF Recorded, OneInterface
      <3>2. fresh.iface = inFlight
        BY DEF FreshSample
      <3>. HIDE DEF fresh
      <3>3. sample'[d] = sample[d] \/ sample'[d] = fresh
        BY <2>5 DEF Recorded, RecordBaseline, fresh
      <3>. QED
        BY <2>5, <3>1, <3>2, <3>3 DEF OneInterface
    <2>. QED
      BY <2>1, <2>2, <2>3, <2>4, <2>5, CounterSteps
  <1>. QED
    BY <1>1, <1>2

LEMMA RateIsOfTheSelected ==
  ASSUME TypeOK, Paired, OneInterface, [Next]_vars, NewRate
  PROVE  \A d \in Dirs : sample[d].iface = inFlight
  <1>1. CASE \E answer \in Answers : Recorded(answer)
    <2>1. PICK answer \in Answers : Recorded(answer)
      BY <1>1
    <2>2. Rated(Reading(inFlight, answer)) /\ inFlight # None
      BY <2>1, SnmpAssumption DEF Recorded, RecordRate, NewRate
    <2>3. \A d \in Dirs : sample[d] # None
      BY <2>2 DEF Rated, Paired
    <2>. QED
      BY <2>2, <2>3 DEF OneInterface
  <1>2. CASE ~\E answer \in Answers : Recorded(answer)
    BY <1>2, CounterSteps
       DEF NewRate, CounterState, Elapse, DeviceReboots, RecordFailedAttempt
  <1>. QED
    BY <1>1, <1>2

(* The first poll of a freshly selected interface only stores its octets, as      *)
(* api.js:87-89 says, if no interface is exchanged for another while octets are   *)
(* stored or a poll is running: select_interface (wan_links.py:222) would have to *)
(* clear the octets under the poll's lock, and nothing else is wrong.             *)
THEOREM OnlyTheExchangeMixesInterfaces ==
  Spec /\ [][SelectsWhenClear]_vars => RateOfOneInterface
  <1>1. Init => Paired /\ OneInterface
    BY DEF Init, NoOctets, Paired, OneInterface
  <1>2. TypeOK /\ Paired /\ [Next]_vars => Paired'
    BY PairedInductive
  <1>3. TypeOK /\ Paired /\ OneInterface /\ [Next]_vars /\ [SelectsWhenClear]_vars
          => OneInterface'
    <2>1. UNCHANGED vars => SelectsWhenClear
      BY DEF vars, SelectsWhenClear
    <2>. QED
      BY <2>1, PollsTheSelected, StoresTheSelected DEF OneInterface
  <1>4. TypeOK /\ Paired /\ OneInterface /\ [Next]_vars =>
          [NewRate => \A d \in Dirs : sample[d].iface = inFlight]_vars
    BY RateIsOfTheSelected
  <1>. QED
    BY <1>1, <1>2, <1>3, <1>4, TypeCorrect, PTL DEF Spec, RateOfOneInterface
==================================================================================
