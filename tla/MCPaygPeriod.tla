---------------------------- MODULE MCPaygPeriod ----------------------------
(* Instances of PaygPeriod for TLC: a week that costs a cent and a quarter,
   unless a credit leaves less than one, or less than half of one. *)
EXTENDS PaygPeriod

MCUsage == [p \in Periods |-> 5]
=============================================================================
