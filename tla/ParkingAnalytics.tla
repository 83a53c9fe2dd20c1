-------------------------- MODULE ParkingAnalytics --------------------------
(***************************************************************************)
(* The read side of parking: what AnalyticsService and the routes compute  *)
(* from the event log (heatmap, dwell time, slot status, history), from    *)
(* the snapshots (trends, KPIs, live occupancy) and from the device rows   *)
(* and stream playlists (health page), while reports, heartbeats and       *)
(* streams change them and time passes.                                    *)
(*                                                                         *)
(* Time is in ticks.  A message is one step here (Ingestion has its        *)
(* statements), but it is committed up to Delay ticks after it was         *)
(* stamped, so ids may be out of order of time; and rows may have the same *)
(* stamp, of one message or of several.                                    *)
(***************************************************************************)
EXTENDS Integers, FiniteSets, Sequences, SequencesExt

CONSTANTS
  Spot,        \* the spots that events name, in the order of their ids
  Listed,      \* those of them the server lists
  Lot,         \* lots; a lot is also the id of its camera
  LotOf,       \* the lot of a spot
  Board,       \* device row ORANGE_PI_MAIN
  Camera,      \* the cameras CAMT_01 to CAMT_04
  Silence,     \* 1800 seconds
  Hour,        \* ticks of an hour of the trends
  Count,       \* what a payload may give as occupied_spaces
  Delay,       \* bound: from the stamp of a report to its commit
  MaxRows,     \* MAX_QUERY_ROWS
  MaxHistory,  \* rows of a slot's history
  Horizon,     \* bound: last tick
  MaxWrites    \* bound: events, messages without any, heartbeats and stream writes

ASSUME AnalyticsAssumption ==
  /\ Spot \subseteq Nat /\ Listed \subseteq Spot /\ LotOf \in [Spot -> Lot] /\ Lot \subseteq Camera
  /\ Board \notin Camera /\ IsFiniteSet(Spot) /\ IsFiniteSet(Camera)
  /\ Silence \in Nat \ {0} /\ Hour \in Nat \ {0}
  /\ Count \subseteq Nat /\ Delay \in Nat
  /\ MaxRows \in Nat \ {0} /\ MaxHistory \in Nat \ {0}
  /\ Horizon \in Nat /\ MaxWrites \in Nat

VARIABLES
  now,       \* the clock
  log,       \* parking_event_logs
  snapshots, \* both snapshot tables
  drawn,     \* the last id drawn for a row
  devices,   \* device_health: status and last_seen
  playlist,  \* per camera, when its index.m3u8 was last written
  writes     \* how much of MaxWrites is used

vars == <<now, log, snapshots, drawn, devices, playlist, writes>>

Device == Camera \cup {Board}
Status == {"online", "offline"}
Tick == 0..Horizon
Never == -1

\* seen = Never stands for a missing row.
Row == [status : Status, seen : Tick \cup {Never}]
Missing == [status |-> "offline", seen |-> Never]
Event == [id : Nat, spot : Spot, occupied : BOOLEAN, at : Tick]
Snapshot == [id : Nat, lot : Lot, occupied : Count, at : Tick]

SpotsOf(l) == {s \in Spot : LotOf[s] = l}
EventsOf(s) == {e \in log : e.spot = s}
SnapshotsOf(l) == {sn \in snapshots : sn.lot = l}

\* ORDER BY: the members of S by a strict order in which no two of them are equal.
Ordered(S, before(_, _)) ==
  [k \in 1..Cardinality(S) |->
     CHOOSE x \in S : Cardinality({y \in S : before(y, x)}) = k - 1]

-----------------------------------------------------------------------------
(***************************************************************************)
(* The latest event of every spot, by id.                                  *)
(***************************************************************************)
Known(s) == EventsOf(s) # {}

\* check_slot_status: the row with the highest id.
SlotStatus(s) == CHOOSE e \in EventsOf(s) : \A f \in EventsOf(s) : f.id <= e.id

\* find_available_slots
LatestEvents(l) == {SlotStatus(s) : s \in {t \in SpotsOf(l) : Known(t)}}
Available(l) == {e.spot : e \in {f \in LatestEvents(l) : ~f.occupied}}
Occupied(l) == {e.spot : e \in {f \in LatestEvents(l) : f.occupied}}

-----------------------------------------------------------------------------
(***************************************************************************)
(* What changes the tables.                                                *)
(***************************************************************************)
Write(n) == writes + n <= MaxWrites /\ writes' = writes + n

Presence(l, status, at) ==
  devices' = [d \in Device |-> IF d \in {Board, l} THEN [status |-> status, seen |-> at]
                               ELSE devices[d]]

\* Mutant of Report: the status is one that DeviceHealth does not know.
ReportHealthy(l, count, events, at) ==
  /\ Write(Max({1, Len(events)})) /\ at >= 0
  /\ log' = log \cup {[id |-> drawn + k, spot |-> events[k].spot,
                       occupied |-> events[k].occupied, at |-> at] : k \in 1..Len(events)}
  /\ drawn' = drawn + Len(events) + 1
  /\ snapshots' = snapshots \cup {[id |-> drawn', lot |-> l, occupied |-> count, at |-> at]}
  /\ Presence(l, "healthy", at)
  /\ UNCHANGED <<now, playlist>>

\* One commit with one stamp: a snapshot with the count that the payload gives, and
\* `events` in turn.  Nothing relates the two, and a spot may occur twice.
Report(l, count, events, at) ==
  /\ Write(Max({1, Len(events)})) /\ at >= 0
  /\ log' = log \cup {[id |-> drawn + k, spot |-> events[k].spot,
                       occupied |-> events[k].occupied, at |-> at] : k \in 1..Len(events)}
  /\ drawn' = drawn + Len(events) + 1
  /\ snapshots' = snapshots \cup {[id |-> drawn', lot |-> l, occupied |-> count, at |-> at]}
  /\ Presence(l, "online", at)
  /\ UNCHANGED <<now, playlist>>

\* receive_camera_events: what the camera says.
CameraEvents(l, count, at) ==
  \E events \in BoundedSeq([spot : SpotsOf(l), occupied : BOOLEAN], MaxWrites - writes) :
    Report(l, count, events, at)

\* The events of a simulation: the spots it takes, or those it frees.
Simulated(spots, occupied) == SetToSeq({[spot |-> s, occupied |-> occupied] : s \in spots})

\* process_orange_pi_snapshot: any listed spots are taken or any occupied ones freed
\* until they are `count`.  (One that overlaps another simulates over what it has read;
\* what it then inserts is what a camera may send, too.)
SyncSnapshot(l, count, at) ==
  LET parked == Occupied(l)
      free == (SpotsOf(l) \cap Listed) \ parked
      taken == {spots \in SUBSET free :
                  \/ Cardinality(parked) + Cardinality(spots) = count
                  \/ spots = free /\ Cardinality(parked) + Cardinality(free) < count}
      left == {spots \in SUBSET parked : Cardinality(parked) - Cardinality(spots) = count}
  IN  \/ \E spots \in taken : Report(l, count, Simulated(spots, TRUE), at)
      \/ \E spots \in left : Report(l, count, Simulated(spots, FALSE), at)

\* update_hardware_heartbeat: the status sent for every device.
Heartbeat(status) ==
  /\ Write(1)
  /\ devices' = [d \in Device |-> [status |-> status[d], seen |-> now]]
  /\ UNCHANGED <<now, log, snapshots, drawn, playlist>>

\* The streaming server writes the playlist of a camera.
Stream(c) ==
  /\ Write(1)
  /\ playlist' = [playlist EXCEPT ![c] = now]
  /\ UNCHANGED <<now, log, snapshots, drawn, devices>>

Pass ==
  /\ now < Horizon /\ now' = now + 1
  /\ UNCHANGED <<log, snapshots, drawn, devices, playlist, writes>>

Init ==
  /\ now = 0
  /\ log = {}
  /\ snapshots = {}
  /\ drawn = 0
  /\ devices = [d \in Device |-> Missing]
  /\ playlist = [c \in Camera |-> Never]
  /\ writes = 0

Next ==
  \/ \E l \in Lot : \E count \in Count : \E at \in (now - Delay)..now : CameraEvents(l, count, at)
  \/ \E l \in Lot : \E count \in Count : \E at \in (now - Delay)..now : SyncSnapshot(l, count, at)
  \/ \E status \in [Device -> Status] : Heartbeat(status)
  \/ \E c \in Camera : Stream(c)
  \/ Pass

Spec == Init /\ [][Next]_vars

-----------------------------------------------------------------------------
(***************************************************************************)
(* Heatmap and dwell time: one pass over the rows of a window, in order of *)
(* spot and time.  ORDER BY leaves open how rows of a spot with the same   *)
(* stamp are ordered: `tie` ranks them.                                    *)
(***************************************************************************)
Tied == {e.id : e \in {f \in log : \E g \in EventsOf(f.spot) : g.at = f.at /\ g # f}}
Ties == Injection(Tied, Tied)

\* Of two rows of a spot, e comes first.
Earlier(tie, e, f) == e.at < f.at \/ (e.at = f.at /\ e # f /\ tie[e.id] < tie[f.id])

InWindow(l, start, end) == {e \in log : LotOf[e.spot] = l /\ e.at \in start..end}
Window(tie, l, start, end) ==
  Ordered(InWindow(l, start, end),
          LAMBDA e, f : e.spot < f.spot \/ (e.spot = f.spot /\ Earlier(tie, e, f)))

\* LIMIT n
First(n, rows) == SubSeq(rows, 1, IF Len(rows) < n THEN Len(rows) ELSE n)

\* since: last_seen_true; stays: the completed ones.
Followed == [since |-> [s \in Spot |-> Never], stays |-> {}]

\* Mutant of FollowEvent: a stay that has ended stays open.
FollowEventForever(f, e) ==
  IF e.occupied THEN [f EXCEPT !.since[e.spot] = e.at]
  ELSE IF f.since[e.spot] = Never THEN f
  ELSE [f EXCEPT !.stays = @ \cup {[spot |-> e.spot, from |-> f.since[e.spot], to |-> e.at]}]

FollowEvent(f, e) ==
  IF e.occupied THEN [f EXCEPT !.since[e.spot] = e.at]
  ELSE IF f.since[e.spot] = Never THEN f
  ELSE [since |-> [f.since EXCEPT ![e.spot] = Never],
        stays |-> f.stays \cup {st \in {[spot |-> e.spot, from |-> f.since[e.spot], to |-> e.at]} :
                                  st.from < st.to}]

Follow(rows) == FoldLeft(FollowEvent, Followed, rows)

Minutes(stays) == FoldSet(LAMBDA st, n : n + (st.to - st.from), 0, stays)

\* occupied_minutes: completed stays, and open ones until the end of the window.
\* The response has a percentage of it per spot with an event in the window.
HeatMinutes(f, s, end) ==
  Minutes({st \in f.stays : st.spot = s}) + (IF f.since[s] = Never THEN 0 ELSE end - f.since[s])

\* _calculate_avg_dwell_time averages these; the limit cuts off the last spots.
DwellStays(rows) == Follow(First(MaxRows, rows)).stays

-----------------------------------------------------------------------------
(***************************************************************************)
(* The pages on single spots.                                              *)
(***************************************************************************)
\* GET /current: a spot without events is shown free.
ShownOccupied(s) == Known(s) /\ SlotStatus(s).occupied

\* Mutant of History: the oldest rows of the slot.
HistoryOldest(tie, s) ==
  First(MaxHistory, Ordered(EventsOf(s), LAMBDA e, f : Earlier(tie, e, f)))

\* get_slot_event_history: the newest rows, by time.
History(tie, s) ==
  First(MaxHistory, Ordered(EventsOf(s), LAMBDA e, f : Earlier(tie, f, e)))

-----------------------------------------------------------------------------
(***************************************************************************)
(* Trends, KPIs and live occupancy.  Averages are kept as a sum and a      *)
(* count, so that nothing is rounded.                                      *)
(***************************************************************************)
SnapshotsIn(l, start, end) == {sn \in SnapshotsOf(l) : sn.at \in start..end}

\* What a query may return: it has a limit and no order.
Queried(l, start, end) ==
  LET rows == SnapshotsIn(l, start, end)
  IN  IF Cardinality(rows) <= MaxRows THEN {rows} ELSE kSubset(MaxRows, rows)

TotalOccupied(rows) == FoldSet(LAMBDA sn, n : n + sn.occupied, 0, rows)

\* hourly_data
HourOf(sn) == sn.at \div Hour
Hours(rows) == {HourOf(sn) : sn \in rows}
InHour(rows, h) == {sn \in rows : HourOf(sn) = h}

\* The average of hour h is higher than that of hour g.
Busier(rows, h, g) ==
  TotalOccupied(InHour(rows, h)) * Cardinality(InHour(rows, g))
    > TotalOccupied(InHour(rows, g)) * Cardinality(InHour(rows, h))

\* Mutant of PeakHour: a later hour that is as busy takes over.
PeakHourLast(rows) ==
  FoldLeft(LAMBDA peak, h : IF peak = Never \/ ~Busier(rows, peak, h) THEN h ELSE peak,
           Never, Ordered(Hours(rows), LAMBDA g, h : g < h))

\* peak_hour: one pass over the hours in order.
PeakHour(rows) ==
  FoldLeft(LAMBDA peak, h : IF peak = Never \/ Busier(rows, h, peak) THEN h ELSE peak,
           Never, Ordered(Hours(rows), LAMBDA g, h : g < h))

\* peak_occupancy
PeakOccupancy(rows) == IF rows = {} THEN 0 ELSE Max({sn.occupied : sn \in rows})

\* Mutant of Live: the newest by id.
LiveById(l) == {sn \in SnapshotsOf(l) : \A other \in SnapshotsOf(l) : other.id <= sn.id}

\* get_live_occupancy: the newest, by time; any of those with the same stamp.
Live(l) == {sn \in SnapshotsOf(l) : \A other \in SnapshotsOf(l) : other.at <= sn.at}

-----------------------------------------------------------------------------
(***************************************************************************)
(* The health page, computed in one instant.                               *)
(***************************************************************************)
Shown(status, seen) == [status |-> status, seen |-> seen]

\* get_device_status_from_db: the age of the row decides, not its status.
DeviceStatus(d) ==
  IF devices[d].seen = Never \/ now - devices[d].seen > Silence
  THEN Shown("offline", devices[d].seen)
  ELSE Shown("online", devices[d].seen)

BoardStatus == DeviceStatus(Board)

\* Mutant of CameraStatus: a camera does not depend on the board.
CameraStatusAlone(c) ==
  IF playlist[c] # Never /\ now - playlist[c] < Silence THEN Shown("online", playlist[c])
  ELSE DeviceStatus(c)

\* get_camera_status_fallback: playlist, row, board.
CameraStatus(c) ==
  IF playlist[c] # Never /\ now - playlist[c] < Silence THEN Shown("online", playlist[c])
  ELSE IF DeviceStatus(c).status = "offline" /\ BoardStatus.status = "online"
  THEN Shown("online", BoardStatus.seen)
  ELSE DeviceStatus(c)

SystemStatus ==
  IF BoardStatus.status = "offline" THEN "Critical"
  ELSE IF \E c \in Camera : CameraStatus(c).status = "offline" THEN "Degraded"
  ELSE "Healthy"

\* _device_uptime_score, times Silence: 100 down to 80 points with age.
Score(shown) ==
  IF shown.status = "offline" \/ now - shown.seen > Silence THEN 0
  ELSE 100 * Silence - 20 * (now - shown.seen)

\* uptime_percentage, times Silence and the number of devices.
Uptime == Score(BoardStatus) + FoldSet(LAMBDA c, n : n + Score(CameraStatus(c)), 0, Camera)

-----------------------------------------------------------------------------
(***************************************************************************)
(* Properties.                                                             *)
(***************************************************************************)
AnalyticsTypeOK ==
  /\ now \in Tick
  /\ log \subseteq Event /\ snapshots \subseteq Snapshot /\ drawn \in Nat
  /\ devices \in [Device -> Row]
  /\ playlist \in [Camera -> Tick \cup {Never}]
  /\ writes \in 0..MaxWrites

\* The reference: a spot is parked on from t to t + 1 if the last thing reported of
\* it up to t is a car, or one of the last things.
ParkedAt(s, t) ==
  \E e \in EventsOf(s) : e.at <= t /\ e.occupied /\ ~\E f \in EventsOf(s) : f.at \in (e.at + 1)..t
ParkedMinutes(s, start, end) == Cardinality({t \in start..(end - 1) : ParkedAt(s, t)})

\* No two events of the spot in the window have the same stamp.
Untied(s, start, end) ==
  \A e, f \in EventsOf(s) : e.at \in start..end /\ e.at = f.at => e = f

\* The spot is free when the window begins, and no car is reported twice in it.
FollowedExactly(s, start, end) ==
  /\ Untied(s, start, end) /\ ~ParkedAt(s, start - 1)
  /\ \A e \in EventsOf(s) : e.at \in start..end /\ e.occupied => ~ParkedAt(s, e.at - 1)

HeatTells(f, s, start, end) ==
  LET heat == HeatMinutes(f, s, end)
      parked == ParkedMinutes(s, start, end)
  IN  heat <= parked /\ (FollowedExactly(s, start, end) => heat = parked)

\* Spot s was reported occupied, or free, from one tick to another.
Said(s, occupied, from, to) == \E e \in EventsOf(s) : e.occupied = occupied /\ e.at \in from..to

\* The cars that came and left in the window, after CONTEXT.md: from an occupied event,
\* the first of that car, to the next free event.
Cars(l, start, end) ==
  {car \in [spot : SpotsOf(l), from : start..end, to : start..end] :
     /\ car.from < car.to
     /\ Said(car.spot, TRUE, car.from, car.from) /\ Said(car.spot, FALSE, car.to, car.to)
     /\ ~Said(car.spot, FALSE, car.from + 1, car.to - 1)
     /\ \A t \in start..(car.from - 1) :
          Said(car.spot, TRUE, t, t) => Said(car.spot, FALSE, t, car.from)}

\* A stay that is counted is that of a car.
IsOf(st, car) == st.spot = car.spot /\ st.to = car.to

DwellTells(rows, l, start, end) ==
  LET stays == DwellStays(rows)
      cars == Cars(l, start, end)
  IN  /\ \A st \in stays : \E car \in cars : IsOf(st, car) /\ car.from <= st.from
      /\ \A st, other \in stays : IsOf(st, other) => st = other
      /\ Len(rows) <= MaxRows =>
           \A car \in cars : Untied(car.spot, start, end) =>
             \E st \in stays : /\ IsOf(st, car)
                              /\ ~Said(car.spot, TRUE, car.from + 1, car.to - 1) => st = car

\* Whatever the order in which reports were committed, and in which the database puts
\* rows of the same stamp: the heatmap of a window in the past never shows a spot parked
\* on for longer than it was, and for exactly as long if the spot was free when the
\* window began and no car was reported twice.  The dwell time counts no car twice, and
\* none for longer than it was there; within the limit of the query it leaves out no
\* car of a spot without equal stamps, and has its whole stay unless it was reported again.
DurationsTellParking ==
  \A tie \in Ties : \A l \in Lot : \A end \in 0..now : \A start \in 0..end :
    LET rows == Window(tie, l, start, end)
        f == Follow(rows)
    IN  /\ DwellTells(rows, l, start, end)
        /\ \A s \in SpotsOf(l) : HeatTells(f, s, start, end)

\* The ids of the events of a spot are in the order of their stamps.
InTime(s) == \A e, f \in EventsOf(s) : e.id < f.id => e.at <= f.at
InOrder(s) == \A e, f \in EventsOf(s) : e.id < f.id => e.at < f.at

SpotsAgree(tie, l) ==
  \A s \in {t \in SpotsOf(l) : Known(t)} :
    LET since == Follow(Window(tie, l, 0, now)).since[s]
    IN  /\ InTime(s) => Head(History(tie, s)).at = SlotStatus(s).at
        /\ InOrder(s) =>
             /\ Head(History(tie, s)) = SlotStatus(s)
             /\ since = (IF s \in Occupied(l) THEN SlotStatus(s).at ELSE Never)
             /\ ShownOccupied(s) <=> since # Never
             /\ s \in Available(l) <=> since = Never

\* The peak hour is the first of the busiest.  The trends of a window and its KPIs
\* are two requests, which get the same rows if these are within the limit: then no
\* average exceeds the peak occupancy, which the live occupancy does not either.
TrendsAgree(l, start, end) ==
  \A trends, kpis \in Queried(l, start, end) :
    /\ \A h \in Hours(trends) : /\ ~Busier(trends, h, PeakHour(trends))
                               /\ h < PeakHour(trends) => Busier(trends, PeakHour(trends), h)
    /\ Cardinality(SnapshotsIn(l, start, end)) <= MaxRows =>
         /\ \A h \in Hours(trends) : TotalOccupied(InHour(trends, h))
                                       <= PeakOccupancy(kpis) * Cardinality(InHour(trends, h))
         /\ \A sn \in Live(l) : sn.at \in start..end => sn.occupied <= PeakOccupancy(kpis)

\* Readers that go by id (slot status, free slots, the current page) and readers that go
\* by time (history, heatmap) agree since when a spot is as it is, unless its reports were
\* committed in another order than they were stamped, and whether it is occupied, unless
\* stamps are equal.  No event of a lot is newer than its live occupancy.  Trends and
\* KPIs agree on a window up to now whose snapshots are within the limit of their queries.
ReadersAgree ==
  \A l \in Lot :
    /\ \A tie \in Ties : SpotsAgree(tie, l)
    /\ \A s \in SpotsOf(l) : \A e \in EventsOf(s) : Live(l) # {} /\ \A sn \in Live(l) : e.at <= sn.at
    /\ SnapshotsOf(l) # {} => \A start \in 0..now : TrendsAgree(l, start, now)

\* The health page never vouches for a device on evidence older than half an hour;
\* it is Critical exactly while the board is silent, a camera is offline only then,
\* and the score has at least 80 points of 100 otherwise.
HealthFollowsBoard ==
  /\ \A shown \in {CameraStatus(c) : c \in Camera} \cup {BoardStatus} :
       shown.status = "online" => shown.seen # Never /\ now - shown.seen <= Silence
  /\ SystemStatus = "Critical" <=> (devices[Board].seen = Never \/ now - devices[Board].seen > Silence)
  /\ (\E c \in Camera : CameraStatus(c).status = "offline") => SystemStatus = "Critical"
  /\ IF SystemStatus = "Critical" THEN Uptime <= 100 * Silence * Cardinality(Camera)
     ELSE Uptime >= 80 * Silence * Cardinality(Device)

\* What test_heartbeat_updates_four_camera_streams expects: a camera that reported
\* itself offline, and has no stream, is shown offline.
OfflineShown ==
  \A c \in Camera : devices[c].seen # Never /\ devices[c].status = "offline" /\ playlist[c] = Never
                      => CameraStatus(c).status = "offline"
=============================================================================
