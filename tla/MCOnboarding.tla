------------------------------ MODULE MCOnboarding ------------------------------
(* Bounds for TLC.                                                                *)
EXTENDS Onboarding, TLC

(* The suburb lies in the first city; the second has none.                        *)
MCCityOf == [u \in Suburbs |-> CHOOSE z \in Cities : TRUE]

Symmetric == Permutations(Slots) \cup Permutations(Indices)

(* Step 1 is explored from an empty page, the later steps from one step 1 that    *)
(* has all its answers: the picker's states and the wizard's add up instead of    *)
(* multiplying.  Going back to step 1 is followed until a link is asked for.      *)
MCSettled ==
  /\ ~Busy
  /\ ~hasty
  /\ suburb = None
  /\ branches = {branch}

MCFollowed ==
  \/ step = 1 /\ \A s \in Slots : asked[s] = None
             /\ \A l \in LinkIds : links[l] = None
  \/ step # 1 /\ MCSettled
================================================================================
