-------------------------------- MODULE Counters --------------------------------
(* app/monitoring/calculations.py: what the difference of two samples of a      *)
(* cumulative octet counter is taken to be, and the rates and the utilisation   *)
(* derived from it.  The widths are parameters, so that a model checker can     *)
(* reach the wrap; rates and percentages are rounded down.                      *)
EXTENDS Integers

CONSTANTS
  Counter32Max,     \* COUNTER32_MAX: the last value before a Counter32 wraps
  Counter64Max      \* COUNTER64_MAX

ASSUME CountersAssumption ==
  /\ Counter32Max \in Nat
  /\ Counter64Max \in Nat
  /\ Counter32Max <= Counter64Max

(* A smaller value is a wrap of a Counter32 and a reset of a Counter64.  The    *)
(* mutant forgets both.                                                         *)
CounterDelta_NoWrap(previous, current, is64) == current - previous
CounterDelta(previous, current, is64) ==
  IF current >= previous THEN current - previous
  ELSE IF is64 THEN current
  ELSE (Counter32Max - previous) + current + 1

(* calculate_rate, in bits per tick; its callers pass a positive elapsed time.  *)
RateOf(delta, elapsed) == (delta * 8) \div elapsed

(* The busier direction of a full-duplex circuit, in percent of its capacity.   *)
Utilisation(rx, tx, capacity) ==
  ((IF rx >= tx THEN rx ELSE tx) * 100) \div capacity
=================================================================================
