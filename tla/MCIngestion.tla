---------------------------- MODULE MCIngestion ----------------------------
(* One camera and its lot: the three messages write the rows of the board  *)
(* and the camera in both orders.                                          *)
EXTENDS Ingestion

CONSTANT CAMT_01
OneCamera == <<CAMT_01>>
SpotLot == [s \in Spot |-> CAMT_01]
=============================================================================
