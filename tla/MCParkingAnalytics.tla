------------------------ MODULE MCParkingAnalytics ------------------------
(* Two spots of one lot and two cameras, one of which has no lot. *)
EXTENDS ParkingAnalytics

CONSTANTS CAMT_01
OneLot == [s \in Spot |-> CAMT_01]
=============================================================================
