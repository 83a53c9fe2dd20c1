----------------------------- MODULE ReportLog -----------------------------
(***************************************************************************)
(* What ingestion promises its readers: a message takes effect as a whole. *)
(* A report of a lot adds its events together with the presence of the     *)
(* board and of that lot's camera; a heartbeat makes every device present. *)
(***************************************************************************)
CONSTANTS Lot, Device, Board, Event, LotOf

VARIABLES events, rows

Init == events = {} /\ rows = {}

\* Events are only ever added, and all of one lot.
Report(l) ==
  /\ events \subseteq events'
  /\ \A e \in events' \ events : e \in Event /\ LotOf[e.spot] = l
  /\ rows' = rows \cup {Board, l}

Heartbeat ==
  /\ UNCHANGED events
  /\ rows' = Device

Next == (\E l \in Lot : Report(l)) \/ Heartbeat

Spec == Init /\ [][Next]_<<events, rows>>
=============================================================================
