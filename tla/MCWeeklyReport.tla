--------------------------- MODULE MCWeeklyReport ---------------------------
(* The report over the two monitored lots. *)
EXTENDS WeeklyReport

CONSTANTS CAMT_01, CAMT_02
BothLots == <<CAMT_01, CAMT_02>>
=============================================================================
