------------------------------ MODULE AlertEngine ------------------------------
(* The pure alert decisions of app/monitoring/alert_engine.py and the cadence  *)
(* resolution of app/monitoring/scheduling.py.  A decision is one of "none",   *)
(* "open" and "close"; the message a decision carries is wording and is left   *)
(* out.  Values the code leaves as None are the constant None.                 *)
EXTENDS Integers

CONSTANT None       \* Python's None: no sample, no timestamp, no override

ASSUME NoneAssumption == None \notin Int

AlertActions == {"none", "open", "close"}

(* The transition rule the threshold alerts share: open on the first sample    *)
(* above the threshold, close on the first one back within it.                 *)
ThresholdDecision(sample, threshold, isOpen) ==
  IF sample > threshold /\ ~isOpen THEN "open"
  ELSE IF sample <= threshold /\ isOpen THEN "close"
  ELSE "none"

(* A mutant of EvaluateAvailability: the alert is never closed.                  *)
EvaluateAvailability_NeverCloses(reachable, isOpen) ==
  IF ~reachable /\ ~isOpen THEN "open" ELSE "none"

EvaluateAvailability(reachable, isOpen) ==
  IF ~reachable /\ ~isOpen THEN "open"
  ELSE IF reachable /\ isOpen THEN "close"
  ELSE "none"

EvaluateHighLatency(latency, threshold, isOpen) ==
  IF latency = None THEN "none" ELSE ThresholdDecision(latency, threshold, isOpen)

(* A mutant of EvaluatePacketLoss: the alert outlives the loss.                *)
EvaluatePacketLoss_NeverCloses(loss, threshold, isOpen) ==
  IF loss # None /\ loss > threshold /\ ~isOpen THEN "open" ELSE "none"

EvaluatePacketLoss(loss, threshold, isOpen) ==
  IF loss = None THEN "none" ELSE ThresholdDecision(loss, threshold, isOpen)

(* The sustained-utilisation decision with the new value of breach_since.      *)
EvaluateSustainedUtilisation(util, threshold, duration, breachSince, now, isOpen) ==
  IF util = None THEN [decision |-> "none", breachSince |-> breachSince]
  ELSE IF util <= threshold
       THEN [decision |-> IF isOpen THEN "close" ELSE "none", breachSince |-> None]
       ELSE LET since == IF breachSince = None THEN now ELSE breachSince
            IN  [decision    |-> IF now - since >= duration /\ ~isOpen THEN "open" ELSE "none",
                 breachSince |-> since]

(* A per-link override wins when it is a positive number of seconds; a zero or *)
(* negative one, which the create endpoint accepts, is ignored.                *)
EffectiveInterval(override, globalDefault) ==
  IF override # None /\ override > 0 THEN override ELSE globalDefault
================================================================================
