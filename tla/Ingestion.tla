----------------------------- MODULE Ingestion -----------------------------
(***************************************************************************)
(* Parking ingestion: snapshots (MQTT and POST /sync), camera events and   *)
(* heartbeats, each one transaction of a session of its own, run at the    *)
(* same time by the MQTT thread and the worker threads of the server.      *)
(*                                                                         *)
(* A handler is the list of statements its session sends.  Autoflush sends *)
(* the write of one device just before the next SELECT, so the row locks   *)
(* are taken in the order of the code and held until the commit.           *)
(***************************************************************************)
EXTENDS Naturals, FiniteSets, Sequences

CONSTANTS
  Board,        \* device row ORANGE_PI_MAIN
  Cameras,      \* CAMERA_HEALTH_DEVICES, in order; a lot is its camera's row
  Lot,          \* the lots that report
  Spot,         \* parking spots
  LotOf,        \* the lot of a spot
  Listed,       \* the spots the server lists for their lot
  Handler,      \* the MQTT thread and the worker threads
  Kinds,        \* which messages arrive: "snapshot", "camera", "heartbeat"
  MaxMessages,  \* bound: messages in a behaviour
  MaxEvents,    \* bound: events that a camera sends in one message
  MaxFaults,    \* bound: statements that fail, and crashes
  Free          \* the lock of a row nobody writes

Device == {Board} \cup {Cameras[i] : i \in 1..Len(Cameras)} \cup Lot

ASSUME IngestionAssumption ==
  /\ Cameras \in Seq(Device)
  /\ Lot \subseteq {Cameras[i] : i \in 1..Len(Cameras)}
  /\ LotOf \in [Spot -> Lot] /\ IsFiniteSet(Spot)
  /\ Listed \subseteq Spot
  /\ Free \notin Handler
  /\ MaxMessages \in Nat /\ MaxEvents \in Nat /\ MaxFaults \in Nat

VARIABLES
  events,    \* parking_event_logs: the committed rows
  nextId,    \* the last id given out to an event
  rows,      \* device_health: the committed rows
  lock,      \* per device, the handler whose transaction wrote its row
  tx,        \* per handler, its transaction
  messages,  \* messages that arrived
  faults     \* failures so far

vars == <<events, nextId, rows, lock, tx, messages, faults>>

Event == [id : Nat \ {0}, spot : Spot, occupied : BOOLEAN]

(***************************************************************************)
(* Transactions.  todo: statements still to run; target: the               *)
(* occupied_spaces of a snapshot; changes: what it will log; inserted: the *)
(* rows it did insert; missing: devices it found no row of; seen: history, *)
(* the events it read.                                                     *)
(***************************************************************************)
Statement == [do : {"read", "insert", "find", "flush", "commit"}, device : Device]
Change == [spot : Spot, occupied : BOOLEAN]

Do(what) == [do |-> what, device |-> Board]
Find(d) == [do |-> "find", device |-> d]
Flush(d) == [do |-> "flush", device |-> d]

Transaction(kind, todo, lot, target, changes) ==
  [kind |-> kind, todo |-> todo, lot |-> lot, target |-> target, changes |-> changes,
   inserted |-> {}, missing |-> {}, seen |-> {}]
NoTransaction == Transaction("none", <<>>, Board, 0, {})

Running(h) == tx[h].todo # <<>>
Now(h) == Head(tx[h].todo)
Does(h, what) == Running(h) /\ Now(h).do = what

(***************************************************************************)
(* Messages arrive.                                                        *)
(***************************************************************************)
Arrive(h, transaction) ==
  /\ transaction.kind \in Kinds
  /\ messages < MaxMessages
  /\ messages' = messages + 1
  /\ ~Running(h)
  /\ tx' = [tx EXCEPT ![h] = transaction]
  /\ UNCHANGED <<events, nextId, rows, lock, faults>>

\* process_orange_pi_snapshot: events, board, camera.
Snapshot(h, l, target) ==
  Arrive(h, Transaction("snapshot",
                        <<Do("read"), Do("insert"), Find(Board), Flush(Board), Find(l), Flush(l),
                          Do("commit")>>,
                        l, target, {}))

\* receive_camera_events: camera, board, events; the flush of the commit writes
\* the board and the events, in either order.
CameraEvents(h, l, changes) ==
  \E todo \in {<<Find(l), Flush(l), Find(Board), Do("insert"), Flush(Board), Do("commit")>>,
               <<Find(l), Flush(l), Find(Board), Flush(Board), Do("insert"), Do("commit")>>} :
    Arrive(h, Transaction("camera", todo, l, 0, changes))

\* _upsert_device_health of the board, then of every camera.
HeartbeatPlan ==
  LET n == Len(Cameras) + 1
      device(k) == IF k = 1 THEN Board ELSE Cameras[k - 1]
  IN  [i \in 1..(2 * n + 1) |-> IF i = 2 * n + 1 THEN Do("commit")
                               ELSE IF i % 2 = 1 THEN Find(device((i + 1) \div 2))
                               ELSE Flush(device(i \div 2))]

\* update_hardware_heartbeat
Heartbeat(h) == Arrive(h, Transaction("heartbeat", HeartbeatPlan, Board, 0, {}))

(***************************************************************************)
(* _latest_event_per_spot: the row with the largest id of each spot.       *)
(***************************************************************************)
LatestIn(rws, s) == {e \in rws : e.spot = s /\ \A f \in rws : f.spot = s => f.id <= e.id}
OccupiedIn(rws, l) == {s \in Spot : LotOf[s] = l /\ \E e \in LatestIn(rws, s) : e.occupied}

\* Mutant of Simulated: only arrivals are simulated.
SimulatedArrivals(rws, l, target, changes) ==
  LET occupied == OccupiedIn(rws, l)
      available == {s \in Listed : LotOf[s] = l} \ occupied
      now == Cardinality(occupied)
  IN  \/ /\ now < target
         /\ \E S \in SUBSET available :
              /\ Cardinality(S) = target - now \/ (S = available /\ Cardinality(S) < target - now)
              /\ changes = {[spot |-> s, occupied |-> TRUE] : s \in S}
      \/ now >= target /\ changes = {}

\* The simulation: occupy or free as many spots as the counts differ.
Simulated(rws, l, target, changes) ==
  LET occupied == OccupiedIn(rws, l)
      available == {s \in Listed : LotOf[s] = l} \ occupied
      now == Cardinality(occupied)
  IN  \/ /\ now < target
         /\ \E S \in SUBSET available :
              /\ Cardinality(S) = target - now \/ (S = available /\ Cardinality(S) < target - now)
              /\ changes = {[spot |-> s, occupied |-> TRUE] : s \in S}
      \/ /\ now > target
         /\ \E S \in SUBSET occupied :
              /\ Cardinality(S) = now - target
              /\ changes = {[spot |-> s, occupied |-> FALSE] : s \in S}
      \/ now = target /\ changes = {}

(***************************************************************************)
(* Statements.                                                             *)
(***************************************************************************)
Advance(h, t) == tx' = [tx EXCEPT ![h] = [t EXCEPT !.todo = Tail(@)]]

ReadEvents(h) ==
  /\ Does(h, "read")
  /\ \E changes \in SUBSET Change :
       /\ Simulated(events, tx[h].lot, tx[h].target, changes)
       /\ Advance(h, [tx[h] EXCEPT !.changes = changes, !.seen = events])
  /\ UNCHANGED <<events, nextId, rows, lock, messages, faults>>

\* The rows of changes, in any order, with the next ids of the sequence.
Numbered(changes, ids) ==
  {{[id |-> ids + f[c], spot |-> c.spot, occupied |-> c.occupied] : c \in changes} :
     f \in {g \in [changes -> 1..Cardinality(changes)] : \A c, d \in changes : g[c] = g[d] => c = d}}

InsertEvents(h) ==
  /\ Does(h, "insert")
  /\ \E inserted \in Numbered(tx[h].changes, nextId) :
       Advance(h, [tx[h] EXCEPT !.inserted = inserted])
  /\ nextId' = nextId + Cardinality(tx[h].changes)
  /\ UNCHANGED <<events, rows, lock, messages, faults>>

\* Mutant of FindDevice: a row that is missing is not looked for by its device id.
FindDeviceAmiss(h) ==
  /\ Does(h, "find")
  /\ Advance(h, [tx[h] EXCEPT !.missing = @ \cup ({h} \ rows)])
  /\ UNCHANGED <<events, nextId, rows, lock, messages, faults>>

FindDevice(h) ==
  /\ Does(h, "find")
  /\ Advance(h, [tx[h] EXCEPT !.missing = @ \cup ({Now(h).device} \ rows)])
  /\ UNCHANGED <<events, nextId, rows, lock, messages, faults>>

\* The transaction ends and gives up its locks.
End(h) ==
  /\ tx' = [tx EXCEPT ![h] = NoTransaction]
  /\ lock' = [d \in Device |-> IF lock[d] = h THEN Free ELSE lock[d]]

\* Mutant of RolledBack: the failed transaction is left open.
RolledBackNever(h) ==
  /\ tx' = [tx EXCEPT ![h] = NoTransaction]
  /\ UNCHANGED <<events, nextId, rows, lock, messages>>

\* Mutant of RolledBack: what the transaction had found missing is inserted anyway.
RolledBackInPart(h) ==
  /\ End(h)
  /\ rows' = rows \cup tx[h].missing
  /\ UNCHANGED <<events, nextId, messages>>

RolledBack(h) == End(h) /\ UNCHANGED <<events, nextId, rows, messages>>

\* The UPDATE or INSERT of a device row, once no other transaction holds it.  An
\* INSERT of a row that was committed meanwhile raises IntegrityError.
Clashes(h) == Now(h).device \in tx[h].missing \cap rows

FlushDevice(h) ==
  /\ Does(h, "flush")
  /\ lock[Now(h).device] \in {Free, h}
  /\ ~Clashes(h)
  /\ lock' = [lock EXCEPT ![Now(h).device] = h]
  /\ Advance(h, tx[h])
  /\ UNCHANGED <<events, nextId, rows, messages, faults>>

InsertClashes(h) ==
  /\ Does(h, "flush")
  /\ lock[Now(h).device] \in {Free, h}
  /\ Clashes(h)
  /\ RolledBack(h)
  /\ UNCHANGED faults

\* PostgreSQL ends one transaction of a cycle of waiting ones.
Waiting(h) == Does(h, "flush") /\ lock[Now(h).device] \notin {Free, h}
Holder(h) == lock[Now(h).device]
Deadlocked(h) ==
  \E S \in SUBSET Handler : /\ h \in S
                            /\ \A g \in S : Waiting(g)
                            /\ {Holder(g) : g \in S} = S

DeadlockVictim(h) == Deadlocked(h) /\ RolledBack(h) /\ UNCHANGED faults

Commit(h) ==
  /\ Does(h, "commit")
  /\ events' = events \cup tx[h].inserted
  /\ rows' = rows \cup tx[h].missing
  /\ End(h)
  /\ UNCHANGED <<nextId, messages, faults>>

\* A statement raises, and the handler rolls back and drops the message.
Fails(h) ==
  /\ Running(h)
  /\ faults < MaxFaults
  /\ faults' = faults + 1
  /\ RolledBack(h)

\* The process dies; the database rolls back every transaction.
Crash ==
  /\ faults < MaxFaults
  /\ faults' = faults + 1
  /\ tx' = [h \in Handler |-> NoTransaction]
  /\ lock' = [d \in Device |-> Free]
  /\ UNCHANGED <<events, nextId, rows, messages>>

-----------------------------------------------------------------------------
Init ==
  /\ events = {}
  /\ nextId = 0
  /\ rows = {}
  /\ lock = [d \in Device |-> Free]
  /\ tx = [h \in Handler |-> NoTransaction]
  /\ messages = 0
  /\ faults = 0

SpotsOf(l) == {s \in Spot : LotOf[s] = l}
Reportable(l) == {S \in SUBSET SpotsOf(l) : Cardinality(S) <= MaxEvents}

Arrivals ==
  \E h \in Handler :
    \/ \E l \in Lot : \E target \in 0..(Cardinality(SpotsOf(l)) + 1) : Snapshot(h, l, target)
    \/ \E l \in Lot : \E S \in Reportable(l) : \E occ \in SUBSET S :
         CameraEvents(h, l, {[spot |-> s, occupied |-> s \in occ] : s \in S})
    \/ Heartbeat(h)

Step(h) ==
  \/ ReadEvents(h) \/ InsertEvents(h) \/ FindDevice(h) \/ FlushDevice(h)
  \/ InsertClashes(h) \/ DeadlockVictim(h) \/ Commit(h)

Next == Arrivals \/ Crash \/ \E h \in Handler : Step(h) \/ Fails(h)

\* Threads keep running and the database looks for deadlocks; nothing is assumed
\* of the senders.
Spec == Init /\ [][Next]_vars /\ \A h \in Handler : WF_vars(Step(h))

-----------------------------------------------------------------------------
IngestionTypeOK ==
  /\ events \in SUBSET Event
  /\ nextId \in Nat
  /\ rows \in SUBSET Device
  /\ lock \in [Device -> Handler \cup {Free}]
  /\ tx \in [Handler -> [kind : Kinds \cup {"none"}, todo : Seq(Statement), lot : Lot \cup {Board}, target : Nat,
                         changes : SUBSET Change, inserted : SUBSET Event,
                         missing : SUBSET Device, seen : SUBSET Event]]
  /\ messages \in Nat /\ faults \in Nat

\* A message takes effect as a whole, with the health of its devices, or not at
\* all, whatever deadlocks, clashing inserts and crashes cut it short.
Reports == INSTANCE ReportLog
ReportLogSpec == Reports!Spec

\* No message waits for ever: lock waits that go round in a circle are broken.
EveryMessageEnds == \A h \in Handler : []<>~Running(h)

\* After a snapshot that nobody overtook, the log shows as many occupied spots
\* as the camera counted, or all that are listed: earlier drift is repaired.
Counted(l) == Cardinality(OccupiedIn(events, l))
NotOvertaken(h, l) ==
  tx[h].kind = "snapshot" /\ tx[h].lot = l /\ Does(h, "commit") /\ tx[h].seen = events
Repaired(h, l) ==
  \/ Counted(l)' = tx[h].target
  \/ Counted(l)' < tx[h].target /\ {s \in Listed : LotOf[s] = l} \subseteq OccupiedIn(events, l)'
SnapshotRepairs ==
  [][\A h \in Handler, l \in Lot : NotOvertaken(h, l) /\ Commit(h) => Repaired(h, l)]_vars
=============================================================================
