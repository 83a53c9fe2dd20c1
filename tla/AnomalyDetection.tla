-------------------------- MODULE AnomalyDetection --------------------------
(***************************************************************************)
(* The anomaly detector (services/anomaly_service.py) over the two tables  *)
(* it reads: device_health and parking_event_logs.                         *)
(*                                                                         *)
(* Time is kept as AGES: a row remembers for how many ticks it has not     *)
(* been refreshed, up to the largest age any threshold can tell apart.     *)
(* A tick is long (minutes) against a scan (a handful of queries), so no   *)
(* tick falls inside a scan: detect_anomalies reads the clock once.        *)
(***************************************************************************)
EXTENDS Naturals, FiniteSets, Sequences

CONSTANTS
  Board,                \* the device row "ORANGE_PI_MAIN"
  Lots,                 \* MONITORED_LOTS, in scan order; a lot is also its camera's device row
  OtherCameras,         \* device rows of cameras that watch no monitored lot
  Spot,                 \* parking spots of the monitored lots
  LotOf,                \* the lot a spot belongs to
  StuckSlotAge,         \* ANOMALY_STUCK_SLOT_HOURS, in ticks
  PipelineInactiveAge,  \* ANOMALY_PIPELINE_INACTIVE_MINUTES, in ticks
  DeviceOfflineAge,     \* ANOMALY_DEVICE_OFFLINE_SECONDS, in ticks
  MaxMessages,          \* bound: messages ingested in a behaviour
  MaxFaults             \* bound: crashes and failing calls in a behaviour

Lot == {Lots[i] : i \in 1..Len(Lots)}
Device == {Board} \cup Lot \cup OtherCameras

ASSUME DetectionAssumption ==
  /\ Lots \in Seq(Lot)
  /\ LotOf \in [Spot -> Lot]
  /\ StuckSlotAge \in Nat /\ PipelineInactiveAge \in Nat /\ DeviceOfflineAge \in Nat
  /\ MaxMessages \in Nat /\ MaxFaults \in Nat

VARIABLES
  health,     \* device_health: per device, no row or the last status and its age
  lastEvent,  \* parking_event_logs: the newest event of each spot and its age
  messages,   \* messages ingested so far
  anomalies,  \* system_anomalies: a set of rows
  latest,     \* the largest detected_at written so far
  cursor,     \* 0: no scan; n: the n-th query of _find_all is next
  findings,   \* anomaly keys the running scan has found
  faults      \* crashes and failing calls so far

tableVars == <<health, lastEvent, messages>>
detectionVars == <<health, lastEvent, messages, anomalies, latest, cursor, findings, faults>>

(***************************************************************************)
(* Rows and keys.  An anomaly key is the (type, lot, spot, device) tuple   *)
(* of detect_anomalies; a spot determines its lot.                         *)
(***************************************************************************)
NoRow == [status |-> "absent", age |-> 0]
Status == {"online", "offline"}
STUCK_SLOT == "stuck_slot"
PIPELINE_INACTIVE == "pipeline_inactive"
DEVICE_OFFLINE == "device_offline"
AnomalyType == {STUCK_SLOT, PIPELINE_INACTIVE, DEVICE_OFFLINE}

Key == ({STUCK_SLOT} \X Spot) \cup ({PIPELINE_INACTIVE} \X Lot) \cup ({DEVICE_OFFLINE} \X Device)

\* detected stands for detected_at: larger is later, equal means the same scan.
Anomaly == [key : Key, detected : Nat \ {0}, open : BOOLEAN, reviewed : BOOLEAN]

OpenRows == {a \in anomalies : a.open}
OpenKeys == {a.key : a \in OpenRows}

(***************************************************************************)
(* Ingestion, as far as the detector can see it.                           *)
(***************************************************************************)
Fresh(status) == [status |-> status, age |-> 0]

\* Mutant of Heartbeat: the board's row is lost.
HeartbeatWithoutBoard(st) ==
  /\ messages < MaxMessages
  /\ messages' = messages + 1
  /\ health' = [d \in Device \ {Board} |-> Fresh(st[d])]
  /\ UNCHANGED <<lastEvent, anomalies, latest, cursor, findings, faults>>

\* update_hardware_heartbeat: one commit upserts the board and every camera.
Heartbeat(st) ==
  /\ messages < MaxMessages
  /\ messages' = messages + 1
  /\ health' = [d \in Device |-> Fresh(st[d])]
  /\ UNCHANGED <<lastEvent, anomalies, latest, cursor, findings, faults>>

\* A snapshot or camera report of lot l: the events of the changed spots, and
\* the board and the lot's camera marked online, in one commit.
Report(l, changed, occupied) ==
  /\ messages < MaxMessages
  /\ messages' = messages + 1
  /\ lastEvent' = [s \in Spot |-> IF s \in changed
                                    THEN Fresh(IF s \in occupied THEN "occupied" ELSE "free")
                                    ELSE lastEvent[s]]
  /\ health' = [d \in Device |-> IF d \in {Board, l} THEN Fresh("online") ELSE health[d]]
  /\ UNCHANGED <<anomalies, latest, cursor, findings, faults>>

Older(row, limit) ==
  IF row # NoRow /\ row.age < limit THEN [row EXCEPT !.age = @ + 1] ELSE row

MaxEventAge == IF StuckSlotAge > PipelineInactiveAge THEN StuckSlotAge ELSE PipelineInactiveAge

\* Time passes: every row gets older together.
Tick ==
  /\ cursor = 0
  /\ health' = [d \in Device |-> Older(health[d], DeviceOfflineAge + 1)]
  /\ lastEvent' = [s \in Spot |-> Older(lastEvent[s], MaxEventAge)]
  /\ UNCHANGED <<messages, anomalies, latest, cursor, findings, faults>>

(***************************************************************************)
(* The three finders.                                                      *)
(***************************************************************************)
StuckSlots(l) ==
  {s \in Spot : /\ LotOf[s] = l
                /\ lastEvent[s].status = "occupied"
                /\ lastEvent[s].age >= StuckSlotAge}

\* Mutant of InactiveLots: a lot without events is flagged too.
InactiveOrUnreportedLots(l) ==
  {m \in Lot : m = l /\ \A s \in Spot : LotOf[s] = l /\ lastEvent[s] # NoRow
                           => lastEvent[s].age >= PipelineInactiveAge}

\* The newest event of the lot is old; a lot that never reported is skipped.
InactiveLots(l) ==
  LET reported == {s \in Spot : LotOf[s] = l /\ lastEvent[s] # NoRow}
  IN  {m \in Lot : /\ m = l
                   /\ reported # {}
                   /\ \A s \in reported : lastEvent[s].age >= PipelineInactiveAge}

OfflineDevices ==
  {d \in Device : /\ health[d] # NoRow
                  /\ health[d].status # "online" \/ health[d].age > DeviceOfflineAge}

\* _find_all: for each lot its stuck slots, then its pipeline; the devices last.
ScanLength == 2 * Len(Lots) + 1

Found(n) ==
  IF n = ScanLength
    THEN {DEVICE_OFFLINE} \X OfflineDevices
    ELSE IF n % 2 = 1
      THEN {STUCK_SLOT} \X StuckSlots(Lots[(n + 1) \div 2])
      ELSE {PIPELINE_INACTIVE} \X InactiveLots(Lots[n \div 2])

(***************************************************************************)
(* detect_anomalies.                                                       *)
(***************************************************************************)
BeginScan ==
  /\ cursor = 0
  /\ cursor' = 1
  /\ findings' = {}
  /\ UNCHANGED <<tableVars, anomalies, latest, faults>>

RunQuery ==
  /\ cursor \in 1..ScanLength
  /\ cursor' = cursor + 1
  /\ findings' = findings \cup Found(cursor)
  /\ UNCHANGED <<tableVars, anomalies, latest, faults>>

\* Mutant of Opened: the open rows are not looked up.
OpenedAgain == {[key |-> k, detected |-> latest + 1, open |-> TRUE, reviewed |-> FALSE] :
                  k \in findings}

\* Mutant of Opened: a resolved row blocks its key as well.
OpenedOnce == {[key |-> k, detected |-> latest + 1, open |-> TRUE, reviewed |-> FALSE] :
                 k \in findings \ {a.key : a \in anomalies}}

\* One row per finding whose key has no open row.
Opened == {[key |-> k, detected |-> latest + 1, open |-> TRUE, reviewed |-> FALSE] :
             k \in findings \ OpenKeys}

\* Mutant of ResolveAbsent: a resolved row whose key is found is opened again.
ReopenFound(a) == [a EXCEPT !.open = a.key \in findings]

\* _resolve_absent: an open row whose key was not found is closed.
ResolveAbsent(a) == [a EXCEPT !.open = @ /\ a.key \in findings]

CommitScan ==
  /\ cursor = ScanLength + 1
  /\ cursor' = 0
  /\ findings' = {}
  /\ anomalies' = {ResolveAbsent(a) : a \in anomalies} \cup Opened
  /\ latest' = IF Opened = {} THEN latest ELSE latest + 1
  /\ UNCHANGED <<tableVars, faults>>

\* A query or the commit raises, or the process dies: the session rolls back.
AbortScan ==
  /\ cursor # 0
  /\ faults < MaxFaults
  /\ faults' = faults + 1
  /\ cursor' = 0
  /\ findings' = {}
  /\ UNCHANGED <<tableVars, anomalies, latest>>

\* Mutant of Review: a reviewed row is removed.
ReviewAndDelete(a) ==
  /\ ~a.reviewed
  /\ anomalies' = anomalies \ {a}
  /\ UNCHANGED <<tableVars, latest, cursor, findings, faults>>

\* mark_anomaly_reviewed, from the MCP tool on another session.
Review(a) ==
  /\ ~a.reviewed
  /\ anomalies' = (anomalies \ {a}) \cup {[a EXCEPT !.reviewed = TRUE]}
  /\ UNCHANGED <<tableVars, latest, cursor, findings, faults>>

DetectionInit ==
  /\ health = [d \in Device |-> NoRow]
  /\ lastEvent = [s \in Spot |-> NoRow]
  /\ messages = 0
  /\ anomalies = {}
  /\ latest = 0
  /\ cursor = 0
  /\ findings = {}
  /\ faults = 0

Environment ==
  \/ \E st \in [Device -> Status] : Heartbeat(st)
  \/ \E l \in Lot : \E changed \in SUBSET {s \in Spot : LotOf[s] = l} :
       \E occupied \in SUBSET changed : Report(l, changed, occupied)
  \/ Tick
  \/ \E a \in anomalies : Review(a)

Scan == BeginScan \/ RunQuery \/ CommitScan

DetectionNext == Environment \/ Scan \/ AbortScan

\* The scheduler starts the job every interval and the job runs to its end.
DetectionFairness == WF_detectionVars(Scan)

DetectionSpec == DetectionInit /\ [][DetectionNext]_detectionVars /\ DetectionFairness

-----------------------------------------------------------------------------
Row == [status : Status \cup {"absent", "occupied", "free"}, age : Nat]

\* The tables hold rows of their types and the cursor stays within the scan.
DetectionTypeOK ==
  /\ health \in [Device -> Row]
  /\ lastEvent \in [Spot -> Row]
  /\ messages \in Nat
  /\ anomalies \in SUBSET Anomaly
  /\ latest \in Nat
  /\ cursor \in 0..(ScanLength + 1)
  /\ findings \in SUBSET Key
  /\ faults \in Nat

\* "The detector is idempotent": no key ever has two open rows, although no
\* constraint of the table forbids it and scans, reviews and crashes interleave.
AtMostOneOpen ==
  \A a, b \in OpenRows : a.key = b.key => a = b

\* Two rows are never told apart only by a mutable column: (key, detected)
\* stays an identity for the alerts that refer to a row.
RowsIdentified ==
  \A a, b \in anomalies : a.key = b.key /\ a.detected = b.detected => a = b

\* The table implements the incident log of IncidentLog: what its docstring says,
\* one row per incident, no new row while the old one is unresolved, a row resolved
\* once, and no step of the detector or of a reviewer that loses a row or a review.
Log == INSTANCE IncidentLog WITH
         Number <- Nat \ {0},
         raised <- {<<a.key, a.detected>> : a \in anomalies},
         cleared <- {<<a.key, a.detected>> : a \in anomalies \ OpenRows},
         acknowledged <- {<<a.key, a.detected>> : a \in {b \in anomalies : b.reviewed}}
LogSpec == Log!Spec

Reported(l) == \E s \in Spot : LotOf[s] = l /\ lastEvent[s] # NoRow

Holds(k) ==
  \/ k[1] = STUCK_SLOT /\ k[2] \in StuckSlots(LotOf[k[2]])
  \/ k[1] = PIPELINE_INACTIVE /\ Reported(k[2]) /\ k[2] \in InactiveLots(k[2])
  \/ k[1] = DEVICE_OFFLINE /\ k[2] \in OfflineDevices

\* The open rows converge to the conditions that hold: what stays broken gets
\* an open row; what stays repaired, or has never been reported on, has none.
Converges ==
  \A k \in Key : /\ <>[]Holds(k) => <>[](k \in OpenKeys)
                 /\ <>[]~Holds(k) => <>[](k \notin OpenKeys)
=============================================================================
