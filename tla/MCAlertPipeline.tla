-------------------------- MODULE MCAlertPipeline --------------------------
(* The job over the board's and the other cameras' rows, without lots:     *)
(* alerts of three devices are enough for the dispatch to meet its limits. *)
EXTENDS AlertPipeline

NoLots == <<>>
NoLotOf == <<>>
=============================================================================
