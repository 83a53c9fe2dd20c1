---------------------------- MODULE MCGateEvents ----------------------------
(* Days of two hours, weeks of two days, and midnight an hour earlier than *)
(* in UTC: three hours reach the third day, which is the second week.      *)
EXTENDS GateEvents
=============================================================================
