------------------------ MODULE MCAnomalyDetection ------------------------
(* The detector on two monitored lots, their cameras and the board. *)
EXTENDS AnomalyDetection

CONSTANTS CAMT_01, CAMT_02, ORANGE_PI_MAIN, A1, A2
MCLots == <<CAMT_01, CAMT_02>>
MCLotOf == [s \in Spot |-> IF s = A1 THEN CAMT_01 ELSE CAMT_02]
=============================================================================
