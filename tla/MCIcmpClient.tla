------------------------------ MODULE MCIcmpClient ------------------------------
(* Bounds for TLC: four requests, as in the deployed settings, and replies     *)
(* that are instant ("time<1ms" is read as 1), within and above the threshold. *)
EXTENDS IcmpClient

MCReplyTimes == {1, 40, 400}
MCQuiet      == {"windows", "bsd"}
MCLinux      == {"linux"}
=================================================================================
