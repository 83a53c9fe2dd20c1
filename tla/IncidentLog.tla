---------------------------- MODULE IncidentLog ----------------------------
(***************************************************************************)
(* What the anomaly table promises its readers: a log of incidents.  An    *)
(* incident is raised once, cleared at most once, acknowledged once and    *)
(* for all, and a key has at most one incident under way.                  *)
(***************************************************************************)
CONSTANTS Key, Number

VARIABLES raised, cleared, acknowledged     \* sets of incidents <<key, number>>

Incident == Key \X Number

UnderWay == raised \ cleared

Init == raised = {} /\ cleared = {} /\ acknowledged = {}

\* A set R of new incidents is raised, a set C of those under way is cleared and
\* a set A of those on record is acknowledged.
Update(R, C, A) ==
  /\ R \subseteq Incident \ raised
  /\ C \subseteq UnderWay
  /\ \A i, j \in R : i[1] = j[1] => i = j
  /\ \A i \in R : \A j \in UnderWay : i[1] # j[1]
  /\ A \subseteq raised
  /\ raised' = raised \cup R
  /\ cleared' = cleared \cup C
  /\ acknowledged' = acknowledged \cup A

Next == Update(raised' \ raised, cleared' \ cleared, acknowledged' \ acknowledged)

Spec == Init /\ [][Next]_<<raised, cleared, acknowledged>>
=============================================================================
