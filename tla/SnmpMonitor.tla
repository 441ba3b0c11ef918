------------------------------- MODULE SnmpMonitor -------------------------------
(* SNMP monitoring of one WAN link: the worker's tick, the poll coroutine with   *)
(* its lock, the counter baseline kept in poll_states, the rates it records, the *)
(* sustained-utilisation alert, the Poll SNMP Now and the select-interface       *)
(* endpoints, and restarts of the process (app/monitoring/worker.py,             *)
(* app/monitoring/snmp_client.py, app/api/wan_links.py).                         *)
(*                                                                               *)
(* The device carries traffic and counts it, so that what the code makes of its  *)
(* samples can be compared with what the circuit really carried.                 *)
EXTENDS AlertEngine, Counters

CONSTANTS
  Ifaces,           \* the interfaces discovery has stored for the link
  ColumnMax,        \* the largest value of a BigInteger column
  Capacity,         \* circuit_capacity_bps, in bits per tick
  Threshold,        \* sustained_util_threshold_percent
  Duration,         \* sustained_util_duration_seconds, in ticks
  Interval,         \* the effective SNMP cadence, in ticks
  Loads,            \* what an interface may carry in a tick, per direction
  Widths,           \* whether the device has 64-bit counters: \subseteq BOOLEAN
  Answers,          \* for which directions an answer has which counters
  MaxAge,           \* ages are counted up to it
  MaxSpawned        \* tasks created and not yet run; bounds Tick

Dirs     == {"in", "out"}
Devices  == {"up", "flaky", "down"}
Ages     == 0..MaxAge
Carried  == 0..(Counter64Max + 1)

(* What a row of measurements keeps of a rate, and what a stored sample stands   *)
(* for.                                                                         *)
Measurements ==
  [id : 0..1, elapsed : Ages, delta : [Dirs -> Int], utilisation : Int]
Samples ==
  [iface : Ifaces, is64 : BOOLEAN, age : Ages, carried : Carried, rebooted : BOOLEAN]

ASSUME SnmpAssumption ==
  /\ None \notin Ifaces \cup Measurements \cup Samples
  /\ ColumnMax \in Nat /\ Counter32Max <= ColumnMax
  /\ (Counter64Max + 1) % (Counter32Max + 1) = 0
  /\ Capacity \in Nat \ {0}
  /\ Threshold \in Int
  /\ Duration \in Nat /\ Duration <= MaxAge
  /\ Interval \in Nat \ {0} /\ Interval <= MaxAge
  /\ Loads \subseteq [Dirs -> Nat]
  /\ Widths \subseteq BOOLEAN
  /\ Answers \subseteq [hc : SUBSET Dirs, low : SUBSET Dirs]
  /\ MaxAge \in Nat /\ MaxSpawned \in Nat

VARIABLES
  selected,         \* wan_links.selected_if_index, or None
  credentialOk,     \* the credential's secret can be decrypted with the running key
  lastOctets,       \* poll_states.last_in_octets, last_out_octets
  pollAge,          \* ticks since last_snmp_poll_at, or None
  breachAge,        \* ticks since utilisation_breach_since, or None
  alertOpen,        \* the sustained_utilisation alert is open
  measured,         \* the newest SNMP row of measurements, or None
  inFlight,         \* the interface a running poll asks for, or None: the lock is free
  spawned,          \* tasks _spawn created that have not run yet
  device,           \* how the device answers (environment)
  wide,             \* it has 64-bit counters (environment)
  load,             \* load[i][d]: what interface i carries in a tick (environment)
  octets,           \* octets[i][d]: its 64-bit counters (environment)
  sample,           \* sample[d]: what the stored octets of d stand for (history)
  calmAge           \* ticks since utilisation was last within the threshold (history)

pollState   == <<lastOctets, pollAge, breachAge>>
history     == <<sample, calmAge>>
records     == <<pollState, alertOpen, measured, history>>
environment == <<device, wide, load, octets>>
tasks       == <<inFlight, spawned>>
vars        == <<selected, credentialOk, records, tasks, environment>>

UpTo(cap, n) == IF n > cap THEN cap ELSE n
Older(age)   == IF age = None THEN None ELSE UpTo(MaxAge, age + 1)

(* A sample taken now from the 64-bit or the 32-bit counters of interface i: its *)
(* age, what i has carried since, and whether the device has rebooted since.     *)
FreshSample(i, is64) ==
  [iface |-> i, is64 |-> is64, age |-> 0, carried |-> 0, rebooted |-> FALSE]
NoOctets       == [d \in Dirs |-> None]

----------------------------------------------------------------------------------
(* _record_failed_snmp_attempt.  Mutants: the baseline survives the failure; the *)
(* attempt leaves no time.                                                      *)
RecordFailedAttempt_KeepsOctets ==
  /\ pollAge' = 0
  /\ UNCHANGED <<lastOctets, sample, breachAge, alertOpen, measured, calmAge>>

RecordFailedAttempt_NoTime ==
  /\ lastOctets' = NoOctets
  /\ sample' = NoOctets
  /\ UNCHANGED <<pollAge, breachAge, alertOpen, measured, calmAge>>

RecordFailedAttempt ==
  /\ pollAge' = 0
  /\ lastOctets' = NoOctets
  /\ sample' = NoOctets
  /\ UNCHANGED <<breachAge, alertOpen, measured, calmAge>>

(* _poll_sync: the 64-bit counters if the answer has both, else the 32-bit ones, *)
(* of which some may be missing.                                                *)
UsedHighCapacity(answer) == wide /\ answer.hc = Dirs

Reading(i, answer) ==
  [d \in Dirs |->
     IF UsedHighCapacity(answer) THEN octets[i][d]
     ELSE IF d \in answer.low THEN octets[i][d] % (Counter32Max + 1)
     ELSE None]

(* A rate needs a stored and a new value in both directions.                    *)
Rated(reading) ==
  /\ pollAge # None
  /\ \A d \in Dirs : lastOctets[d] # None /\ reading[d] # None

Deltas(reading, is64) ==
  [d \in Dirs |-> CounterDelta(lastOctets[d], reading[d], is64)]

UtilisationOf(deltas) ==
  Utilisation(RateOf(deltas["in"], pollAge), RateOf(deltas["out"], pollAge), Capacity)

NewMeasurement(deltas) ==
  [id          |-> IF measured = None THEN 0 ELSE 1 - measured.id,
   elapsed     |-> pollAge,
   delta       |-> deltas,
   utilisation |-> UtilisationOf(deltas)]

(* The alert evaluation.  The clock reads 0 and the breach began breachAge ago.  *)
Sustained(utilisation) ==
  EvaluateSustainedUtilisation(utilisation, Threshold, Duration,
    IF breachAge = None THEN None ELSE -breachAge, 0, alertOpen)

(* Mutants of BreachAfter: a breach is not forgotten when utilisation falls; its *)
(* age is taken the wrong way round.                                            *)
BreachAfter_Swapped(utilisation) == Sustained(utilisation).breachSince
BreachAfter_Kept(utilisation) ==
  LET since == Sustained(utilisation).breachSince
  IN  IF since = None THEN breachAge ELSE -since
BreachAfter(utilisation) ==
  LET since == Sustained(utilisation).breachSince
  IN  IF since = None THEN None ELSE -since

(* Mutant of AlertAfter: an open alert is never closed.                         *)
AlertAfter_NeverCloses(utilisation) ==
  alertOpen \/ Sustained(utilisation).decision = "open"
AlertAfter(utilisation) ==
  \/ Sustained(utilisation).decision = "open"
  \/ alertOpen /\ Sustained(utilisation).decision # "close"

(* What a successful poll records: the rate if there is one, and the new octets  *)
(* of the directions that were answered.                                        *)
RecordRate(reading, is64) ==
  IF Rated(reading)
  THEN LET util == UtilisationOf(Deltas(reading, is64))
       IN  /\ measured' = NewMeasurement(Deltas(reading, is64))
           /\ breachAge' = BreachAfter(util)
           /\ alertOpen' = AlertAfter(util)
           /\ calmAge' = IF util <= Threshold THEN 0 ELSE calmAge
  ELSE UNCHANGED <<measured, breachAge, alertOpen, calmAge>>

RecordBaseline(i, reading, is64) ==
  /\ pollAge' = 0
  /\ lastOctets' = [d \in Dirs |-> IF reading[d] = None THEN lastOctets[d] ELSE reading[d]]
  /\ sample' = [d \in Dirs |-> IF reading[d] = None THEN sample[d] ELSE FreshSample(i, is64)]

Storable(reading) == \A d \in Dirs : reading[d] # None => reading[d] <= ColumnMax

----------------------------------------------------------------------------------
Init ==
  /\ selected = None
  /\ credentialOk \in BOOLEAN
  /\ lastOctets = NoOctets
  /\ pollAge = None
  /\ breachAge = None
  /\ alertOpen = FALSE
  /\ measured = None
  /\ inFlight = None
  /\ spawned = 0
  /\ device \in Devices
  /\ wide \in Widths
  /\ load \in [Ifaces -> Loads]
  /\ octets = [i \in Ifaces |-> [d \in Dirs |-> 0]]
  /\ sample = NoOctets
  /\ calmAge = None

(* Time passes and the device counts what it carries.                           *)
Elapse ==
  /\ octets' = [i \in Ifaces |-> [d \in Dirs |->
                  (octets[i][d] + load[i][d]) % (Counter64Max + 1)]]
  /\ sample' = [d \in Dirs |->
                  IF sample[d] = None THEN None
                  ELSE [sample[d] EXCEPT !.age = Older(@),
                          !.carried = UpTo(Counter64Max + 1, @ + load[sample[d].iface][d])]]
  /\ pollAge' = Older(pollAge)
  /\ breachAge' = Older(breachAge)
  /\ calmAge' = Older(calmAge)
  /\ UNCHANGED <<selected, credentialOk, lastOctets, alertOpen, measured, tasks,
                 device, wide, load>>

DeviceChanges(condition) ==
  /\ device' = condition
  /\ UNCHANGED <<selected, credentialOk, records, tasks, wide, load, octets>>

LoadChanges(i, carried) ==
  /\ load' = [load EXCEPT ![i] = carried]
  /\ UNCHANGED <<selected, credentialOk, records, tasks, device, wide, octets>>

(* The device reboots and counts from zero.                                     *)
DeviceReboots ==
  /\ octets' = [i \in Ifaces |-> [d \in Dirs |-> 0]]
  /\ sample' = [d \in Dirs |->
                  IF sample[d] = None THEN None ELSE [sample[d] EXCEPT !.rebooted = TRUE]]
  /\ UNCHANGED <<selected, credentialOk, pollState, alertOpen, measured, calmAge, tasks,
                 device, wide, load>>

----------------------------------------------------------------------------------
(* The SNMP half of _tick.                                                      *)
Due == selected # None /\ (pollAge # None => pollAge >= Interval)

Tick ==
  /\ Due
  /\ spawned < MaxSpawned
  /\ spawned' = spawned + 1
  /\ UNCHANGED <<selected, credentialOk, records, inFlight, environment>>

(* poll_snmp_for_wan_link up to its await: skipped when the lock is held or no   *)
(* interface is selected; a credential that cannot be used is a failed attempt.  *)
BeginPoll ==
  IF inFlight # None \/ selected = None THEN UNCHANGED <<records, inFlight>>
  ELSE IF ~credentialOk THEN RecordFailedAttempt /\ UNCHANGED inFlight
  ELSE inFlight' = selected /\ UNCHANGED records

(* The mutant loses the tasks of an interface that was never polled.            *)
RunTask_OnlyPolled ==
  /\ spawned > 0
  /\ pollAge # None
  /\ spawned' = spawned - 1
  /\ BeginPoll
  /\ UNCHANGED <<selected, credentialOk, environment>>

RunTask ==
  /\ spawned > 0
  /\ spawned' = spawned - 1
  /\ BeginPoll
  /\ UNCHANGED <<selected, credentialOk, environment>>

PollNow ==
  /\ selected # None
  /\ BeginPoll
  /\ UNCHANGED <<selected, credentialOk, spawned, environment>>

(* The device answers, at least a tick after the last recorded attempt.  A value *)
(* too large for its column makes the commit raise, and nothing is recorded.     *)
PollAnswers ==
  /\ inFlight # None
  /\ device \in {"up", "flaky"}
  /\ pollAge # 0
  /\ \E answer \in Answers :
       LET reading == Reading(inFlight, answer)
       IN  IF Storable(reading)
           THEN /\ RecordRate(reading, UsedHighCapacity(answer))
                /\ RecordBaseline(inFlight, reading, UsedHighCapacity(answer))
           ELSE UNCHANGED records
  /\ inFlight' = None
  /\ UNCHANGED <<selected, credentialOk, spawned, environment>>

(* The client raises: no answer within the timeout and its retries.             *)
PollFails ==
  /\ inFlight # None
  /\ device \in {"flaky", "down"}
  /\ RecordFailedAttempt
  /\ inFlight' = None
  /\ UNCHANGED <<selected, credentialOk, spawned, environment>>

(* select_interface; nothing else of the link or of its poll state changes.      *)
SelectInterface(i) ==
  /\ selected' = i
  /\ UNCHANGED <<credentialOk, records, tasks, environment>>

(* The process stops or crashes and starts again, perhaps with another key.      *)
Restart ==
  /\ spawned' = 0
  /\ inFlight' = None
  /\ credentialOk' \in BOOLEAN
  /\ UNCHANGED <<selected, records, environment>>

Next ==
  \/ Elapse
  \/ \E condition \in Devices : DeviceChanges(condition)
  \/ \E i \in Ifaces, carried \in Loads : LoadChanges(i, carried)
  \/ DeviceReboots
  \/ Tick
  \/ RunTask
  \/ PollNow
  \/ PollAnswers
  \/ PollFails
  \/ \E i \in Ifaces : SelectInterface(i)
  \/ Restart

Spec == Init /\ [][Next]_vars

(* The worker keeps ticking and time goes on; a process that is restarted again  *)
(* and again still gets to run a task, and to the end of a poll, now and then.   *)
FairSpec ==
  /\ Spec
  /\ WF_vars(Elapse)
  /\ WF_vars(Tick)
  /\ SF_vars(RunTask)
  /\ SF_vars(PollAnswers)

----------------------------------------------------------------------------------
TypeOK ==
  /\ selected \in Ifaces \cup {None}
  /\ credentialOk \in BOOLEAN
  /\ lastOctets \in [Dirs -> (0..ColumnMax) \cup {None}]
  /\ pollAge \in Ages \cup {None}
  /\ breachAge \in Ages \cup {None}
  /\ alertOpen \in BOOLEAN
  /\ measured \in Measurements \cup {None}
  /\ inFlight \in Ifaces \cup {None}
  /\ spawned \in 0..MaxSpawned
  /\ device \in Devices /\ wide \in BOOLEAN
  /\ load \in [Ifaces -> Loads]
  /\ octets \in [Ifaces -> [Dirs -> 0..Counter64Max]]
  /\ sample \in [Dirs -> Samples \cup {None}]
  /\ calmAge \in Ages \cup {None}

(* A new row of measurements: their ids alternate.                              *)
NewRate == measured' # measured

(* A rate is the difference of two samples over the time between these very      *)
(* samples, across failed polls, restarts and values that could not be stored    *)
(* (worker.py:254-291 with 100-114; calculations.py:3-5).                        *)
ElapsedIsHonest ==
  [][NewRate => \A d \in Dirs : measured'.elapsed = sample[d].age]_vars

(* The stored sample and the new one are of one counter of one interface.        *)
SameCounter(d) ==
  sample[d].iface = sample'[d].iface /\ sample[d].is64 = sample'[d].is64

(* The device has not rebooted, and its counter has not wrapped more often than  *)
(* the code can tell.                                                           *)
Unambiguous(d) ==
  /\ ~sample[d].rebooted
  /\ sample[d].carried <= IF sample[d].is64 THEN octets[inFlight][d] ELSE Counter32Max

RateIsOfTheTraffic(d) ==
  /\ Unambiguous(d) => measured'.delta[d] = sample[d].carried
  /\ measured'.delta[d] \in 0..(IF sample[d].is64 THEN sample[d].carried ELSE Counter32Max)

(* What a rate counts is what the circuit carried since the stored sample of the *)
(* same counter, where two samples tell; where they do not, it is never negative *)
(* and never more than a 32-bit counter can count, or than was carried as a      *)
(* 64-bit one shows it, reboot or not (calculations.py:19-36).                  *)
DeltaIsTraffic ==
  [][NewRate => \A d \in Dirs : SameCounter(d) => RateIsOfTheTraffic(d)]_vars

(* The sustained-utilisation alert is open only while a breach has lasted its    *)
(* duration, with no utilisation within the threshold measured meanwhile         *)
(* (alert_engine.py:60-84, worker.py:293-311; PROJECT.md:133).                   *)
SustainedAlertEarned ==
  alertOpen =>
    /\ breachAge # None /\ breachAge >= Duration
    /\ calmAge = None \/ calmAge >= Duration

(* What the link's page shows agrees: the alert and the breach follow from the   *)
(* newest utilisation on record (worker.py:275-311).                             *)
AlertFollowsUtilisation ==
  measured # None =>
    /\ breachAge # None <=> measured.utilisation > Threshold
    /\ alertOpen => measured.utilisation > Threshold

(* A poll that was attempted, however it ends, leaves the link not due, if the   *)
(* counters fit their columns: the cadence holds for failing devices too         *)
(* (worker.py:100-109).                                                         *)
Fits(i) == \A answer \in Answers : Storable(Reading(i, answer))

Attempted ==
  \/ PollAnswers /\ Fits(inFlight)
  \/ PollFails
  \/ (RunTask \/ PollNow) /\ inFlight = None /\ selected # None /\ ~credentialOk

AttemptsAreRecorded == [][Attempted => ~Due']_vars

(* A device that answers for good, with counters that fit their columns, is      *)
(* measured again and again, whatever its polls met before (worker.py:324-348    *)
(* with 207-315).                                                               *)
MeasurementsKeepComing ==
  <>[](device = "up" /\ credentialOk /\ selected # None /\ Fits(selected)) =>
    []<><<NewRate>>_vars

(* api.js:87-89: "A freshly-selected SNMP interface's first successful poll only *)
(* establishes the counter baseline": a rate is one interface's.                 *)
RateOfOneInterface ==
  [][NewRate => \A d \in Dirs : sample[d].iface = inFlight]_vars
==================================================================================
