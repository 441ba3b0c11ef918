------------------------------- MODULE OutageLog -------------------------------
(* What the outage alerts of a WAN link promise, without polls, locks or        *)
(* tables: outages do not overlap, an outage ends with exactly one recovery     *)
(* record, and a history is forgotten only when its link is deleted.            *)
CONSTANT Links

VARIABLES
  known,            \* known[l]: link l is in the inventory
  outage            \* outage[l]: the newest entry of l's outage history

vars == <<known, outage>>

OutageStates == {"clear", "outage", "recovered"}

Init ==
  /\ known = [l \in Links |-> FALSE]
  /\ outage = [l \in Links |-> "clear"]

Join(l) ==
  /\ ~known[l]
  /\ known' = [known EXCEPT ![l] = TRUE]
  /\ UNCHANGED outage

Raise(l) ==
  /\ outage[l] # "outage"
  /\ outage' = [outage EXCEPT ![l] = "outage"]
  /\ UNCHANGED known

Recover(l) ==
  /\ outage[l] = "outage"
  /\ outage' = [outage EXCEPT ![l] = "recovered"]
  /\ UNCHANGED known

(* A deletion forgets the history, or leaves behind what a poll wrote while the *)
(* deletion was under way.                                                      *)
Forget(l) ==
  /\ known[l]
  /\ known' = [known EXCEPT ![l] = FALSE]
  /\ \/ outage' = [outage EXCEPT ![l] = "clear"]
     \/ UNCHANGED outage

Next == \E l \in Links : Join(l) \/ Raise(l) \/ Recover(l) \/ Forget(l)

Spec == Init /\ [][Next]_vars
================================================================================
