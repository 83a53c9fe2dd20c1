-------------------------- MODULE IngestionProofs --------------------------
(***************************************************************************)
(* Proofs about ingestion, for any threads, cameras and spots: the state   *)
(* keeps its type, a message takes effect as a whole or not at all, and a  *)
(* snapshot that nobody overtook makes the log agree with its count.       *)
(***************************************************************************)
EXTENDS Ingestion, FunctionTheorems, FiniteSetTheorems, SequenceTheorems, TLAPS

TxType == [kind : Kinds \cup {"none"}, todo : Seq(Statement), lot : Lot \cup {Board}, target : Nat,
           changes : SUBSET Change, inserted : SUBSET Event,
           missing : SUBSET Device, seen : SUBSET Event]

\* The devices whose presence a message reports.
DevicesOf(t) == IF t.kind = "heartbeat" THEN Device ELSE {Board, t.lot}

StillToFind(t, d) == \E i \in 1..Len(t.todo) : t.todo[i].do = "find" /\ t.todo[i].device = d

\* What makes the commit of a transaction a whole report, given the committed rows.
TxOK(t, rws) ==
  t.todo # <<>> =>
    /\ \A i \in 1..Len(t.todo) : t.todo[i].do = "commit" => i = Len(t.todo)
    /\ \A i \in 1..Len(t.todo) : t.todo[i].do = "read" => t.kind # "heartbeat"
    /\ t.kind # "heartbeat" => t.lot \in Lot
    /\ \A i \in 1..Len(t.todo) : t.todo[i].do = "find" => t.todo[i].device \in DevicesOf(t)
    /\ t.missing \subseteq DevicesOf(t)
    /\ \A d \in DevicesOf(t) : d \in t.missing \/ d \in rws \/ StillToFind(t, d)
    /\ \A c \in t.changes : t.kind # "heartbeat" /\ LotOf[c.spot] = t.lot
    /\ \A e \in t.inserted : t.kind # "heartbeat" /\ LotOf[e.spot] = t.lot

IngestionInv ==
  /\ IngestionTypeOK
  /\ \A h \in Handler : TxOK(tx[h], rows)

-----------------------------------------------------------------------------
\* The finitely many changes a message can make get finitely many ids.
LEMMA ChangesFinite ==
  ASSUME NEW S \in SUBSET Change
  PROVE  IsFiniteSet(S) /\ Cardinality(S) \in Nat
<1> DEFINE pair == [c \in Change |-> <<c.spot, c.occupied>>]
<1>1. pair \in Injection(Change, Spot \X BOOLEAN)
  <2>1. pair \in [Change -> Spot \X BOOLEAN]
    BY DEF Change
  <2>2. \A c, d \in Change : pair[c] = pair[d] => c = d
    BY DEF Change
  <2> QED
    BY <2>1, <2>2 DEF Injection, IsInjective
<1>2. IsFiniteSet(BOOLEAN)
  <2>1. IsFiniteSet({TRUE, FALSE})
    <3>1. IsFiniteSet({TRUE}) /\ IsFiniteSet({FALSE})
      BY FS_Singleton
    <3>2. {TRUE, FALSE} = {TRUE} \cup {FALSE}
      OBVIOUS
    <3> QED
      BY <3>1, <3>2, FS_Union
  <2>2. BOOLEAN = {TRUE, FALSE}
    OBVIOUS
  <2> QED
    BY <2>1, <2>2
<1>3. IsFiniteSet(Spot \X BOOLEAN)
  BY <1>2, FS_Product, IngestionAssumption
<1>4. IsFiniteSet(Change)
  BY <1>1, <1>3, FS_Injection
<1> QED
  BY <1>4, FS_Subset, FS_CardinalityType

LEMMA NumberedEvents ==
  ASSUME NEW changes \in SUBSET Change, NEW ids \in Nat, NEW inserted \in Numbered(changes, ids)
  PROVE  /\ inserted \in SUBSET Event
         /\ \A e \in inserted : \E c \in changes : e.spot = c.spot
<1>1. Cardinality(changes) \in Nat
  BY ChangesFinite
<1>2. PICK f \in [changes -> 1..Cardinality(changes)] :
        inserted = {[id |-> ids + f[c], spot |-> c.spot, occupied |-> c.occupied] : c \in changes}
  BY DEF Numbered
<1>3. ASSUME NEW e \in inserted
      PROVE  e \in Event /\ \E c \in changes : e.spot = c.spot
  <2>1. PICK c \in changes : e = [id |-> ids + f[c], spot |-> c.spot, occupied |-> c.occupied]
    BY <1>2
  <2>2. ids + f[c] \in Nat \ {0}
    BY <1>1, <1>2
  <2> QED
    BY <2>1, <2>2 DEF Event, Change
<1> QED
  BY <1>3

\* The plan of a heartbeat looks for every device and commits last.
LEMMA HeartbeatPlanWhole ==
  /\ HeartbeatPlan \in Seq(Statement)
  /\ HeartbeatPlan # <<>>
  /\ \A i \in 1..Len(HeartbeatPlan) : HeartbeatPlan[i].do = "commit" => i = Len(HeartbeatPlan)
  /\ \A i \in 1..Len(HeartbeatPlan) : HeartbeatPlan[i].do # "read"
  /\ \A d \in Device : \E i \in 1..Len(HeartbeatPlan) :
       HeartbeatPlan[i].do = "find" /\ HeartbeatPlan[i].device = d
<1> DEFINE n == Len(Cameras) + 1
           device(k) == IF k = 1 THEN Board ELSE Cameras[k - 1]
           statement(i) == IF i = 2 * n + 1 THEN Do("commit")
                           ELSE IF i % 2 = 1 THEN Find(device((i + 1) \div 2))
                           ELSE Flush(device(i \div 2))
           plan == [i \in 1..(2 * n + 1) |-> statement(i)]
<1>1. n \in Nat \ {0} /\ Len(Cameras) \in Nat /\ Cameras \in Seq(Device)
  BY IngestionAssumption
<1>2. HeartbeatPlan = plan
  BY DEF HeartbeatPlan
<1>3. \A k \in 1..n : device(k) \in Device
  <2>1. Board \in Device
    BY DEF Device
  <2> QED
    BY <1>1, <2>1
<1>4. \A i \in 1..(2 * n + 1) : statement(i) \in Statement
  <2>1. \A d \in Device : Find(d) \in Statement /\ Flush(d) \in Statement
    BY DEF Find, Flush, Statement
  <2>2. Do("commit") \in Statement
    BY DEF Do, Statement, Device
  <2>3. ASSUME NEW i \in 1..(2 * n + 1), i # 2 * n + 1, i % 2 = 1
        PROVE  (i + 1) \div 2 \in 1..n
    BY <1>1, <2>3
  <2>4. ASSUME NEW i \in 1..(2 * n + 1), i # 2 * n + 1, i % 2 # 1
        PROVE  i \div 2 \in 1..n
    BY <1>1, <2>4
  <2> HIDE DEF n, device
  <2> QED
    BY <1>3, <2>1, <2>2, <2>3, <2>4
<1>5. \A i \in 1..(2 * n + 1) : statement(i).do # "read" /\ (statement(i).do = "commit" => i = 2 * n + 1)
  <2> HIDE DEF n, device
  <2> QED
    BY DEF Do, Find, Flush
<1>6. ASSUME NEW d \in Device
      PROVE  \E i \in 1..(2 * n + 1) : statement(i).do = "find" /\ statement(i).device = d
  <2>1. \E k \in 1..n : device(k) = d
    <3>1. CASE d = Board
      BY <1>1, <3>1
    <3>2. CASE d # Board
      <4>1. PICK j \in 1..Len(Cameras) : Cameras[j] = d
        BY <3>2, IngestionAssumption DEF Device
      <4>2. j + 1 \in 1..n /\ device(j + 1) = d
        BY <1>1, <4>1
      <4> QED
        BY <4>2
    <3> QED
      BY <3>1, <3>2
  <2>2. PICK k \in 1..n : device(k) = d
    BY <2>1
  <2>3. /\ 2 * k - 1 \in 1..(2 * n + 1) /\ 2 * k - 1 # 2 * n + 1
        /\ (2 * k - 1) % 2 = 1 /\ (2 * k - 1 + 1) \div 2 = k
    BY <1>1
  <2>4. statement(2 * k - 1) = Find(d)
    <3> HIDE DEF n, device
    <3> QED
      BY <2>2, <2>3
  <2> QED
    BY <2>3, <2>4 DEF Find
<1> HIDE DEF n, statement
<1>7. Len(plan) = 2 * n + 1 /\ plan \in Seq(Statement) /\ plan # <<>>
  BY <1>1, <1>4
<1> QED
  BY <1>2, <1>4, <1>5, <1>6, <1>7

-----------------------------------------------------------------------------
LEMMA NoTransactionOK == NoTransaction \in TxType /\ NoTransaction.todo = <<>>
<1>1. <<>> \in Seq(Statement)
  OBVIOUS
<1> QED
  BY <1>1 DEF NoTransaction, Transaction, TxType

\* The first statement is done: what the rest still has to do.
LEMMA TailKeeps ==
  ASSUME NEW todo \in Seq(Statement), todo # <<>>
  PROVE  /\ Tail(todo) \in Seq(Statement)
         /\ Head(todo) \in Statement /\ Head(todo) = todo[1]
         /\ Len(todo) \in Nat \ {0} /\ Len(Tail(todo)) = Len(todo) - 1
         /\ \A i \in 1..Len(Tail(todo)) : i + 1 \in 1..Len(todo) /\ Tail(todo)[i] = todo[i + 1]
         /\ \A i \in 1..Len(todo) :
              i # 1 => i - 1 \in 1..Len(Tail(todo)) /\ todo[i] = Tail(todo)[i - 1]
<1>1. /\ Tail(todo) \in Seq(Statement) /\ Head(todo) \in Statement
      /\ Len(Tail(todo)) = Len(todo) - 1
      /\ \A i \in 1..Len(Tail(todo)) : Tail(todo)[i] = todo[i + 1]
  BY HeadTailProperties
<1>2. Head(todo) = todo[1] /\ Len(todo) \in Nat \ {0}
  OBVIOUS
<1> QED
  BY <1>1, <1>2

\* A statement was run: the transaction goes on from u, which is t with a result,
\* and a device it looked for is now either missing or committed.
LEMMA AdvanceKeeps ==
  ASSUME NEW rws, NEW t \in TxType, t.todo # <<>>, TxOK(t, rws),
         NEW u \in TxType, u.todo = Tail(t.todo),
         u.kind = t.kind, u.lot = t.lot,
         t.missing \subseteq u.missing, u.missing \subseteq DevicesOf(t),
         Head(t.todo).do = "find" => Head(t.todo).device \in u.missing \cup rws,
         \A c \in u.changes : t.kind # "heartbeat" /\ LotOf[c.spot] = t.lot,
         \A e \in u.inserted : t.kind # "heartbeat" /\ LotOf[e.spot] = t.lot
  PROVE  TxOK(u, rws)
<1>1. t.todo \in Seq(Statement)
  BY DEF TxType
<1>2. /\ Head(t.todo) = t.todo[1]
      /\ Len(t.todo) \in Nat \ {0} /\ Len(u.todo) = Len(t.todo) - 1
      /\ \A i \in 1..Len(u.todo) : i + 1 \in 1..Len(t.todo) /\ u.todo[i] = t.todo[i + 1]
      /\ \A i \in 1..Len(t.todo) :
              i # 1 => i - 1 \in 1..Len(u.todo) /\ t.todo[i] = u.todo[i - 1]
  BY <1>1, TailKeeps
<1>3. \A i \in 1..Len(u.todo) : u.todo[i].do = "commit" => i = Len(u.todo)
  BY <1>2 DEF TxOK
<1>4. \A i \in 1..Len(u.todo) : u.todo[i].do = "read" => u.kind # "heartbeat"
  BY <1>2 DEF TxOK
<1>5. ASSUME NEW d \in DevicesOf(u)
      PROVE  d \in u.missing \/ d \in rws \/ StillToFind(u, d)
  <2>1. d \in t.missing \/ d \in rws \/ StillToFind(t, d)
    BY <1>5 DEF TxOK, DevicesOf
  <2>2. CASE StillToFind(t, d)
    <3>1. PICK i \in 1..Len(t.todo) : t.todo[i].do = "find" /\ t.todo[i].device = d
      BY <2>2 DEF StillToFind
    <3>2. CASE i = 1
      BY <1>2, <3>1, <3>2
    <3>3. CASE i # 1
      BY <1>2, <3>1, <3>3 DEF StillToFind
    <3> QED
      BY <3>2, <3>3
  <2> QED
    BY <2>1, <2>2
<1>6. /\ u.kind # "heartbeat" => u.lot \in Lot
      /\ u.missing \subseteq DevicesOf(u)
  BY DEF TxOK, DevicesOf
<1>7. \A i \in 1..Len(u.todo) : u.todo[i].do = "find" => u.todo[i].device \in DevicesOf(u)
  BY <1>2 DEF TxOK, DevicesOf
<1> QED
  BY <1>3, <1>4, <1>5, <1>6, <1>7 DEF TxOK

\* Rows are only added, so what other transactions rely on stays true.
LEMMA OwnTransaction ==
  ASSUME IngestionInv, NEW h \in Handler,
         events' \in SUBSET Event, nextId' \in Nat, rows' \in SUBSET Device, rows \subseteq rows',
         lock' \in [Device -> Handler \cup {Free}], messages' \in Nat, faults' \in Nat,
         NEW u \in TxType, tx' = [tx EXCEPT ![h] = u], TxOK(u, rows')
  PROVE  IngestionInv'
<1>1. tx \in [Handler -> TxType]
  BY DEF IngestionInv, IngestionTypeOK, TxType
<1>2. tx' \in [Handler -> TxType]
  BY <1>1
<1>3. ASSUME NEW g \in Handler
      PROVE  TxOK(tx'[g], rows')
  <2>1. CASE g = h
    BY <1>1, <2>1
  <2>2. CASE g # h
    <3>1. tx'[g] = tx[g] /\ TxOK(tx[g], rows)
      BY <1>1, <2>2 DEF IngestionInv
    <3> QED
      BY <3>1 DEF TxOK
  <2> QED
    BY <2>1, <2>2
<1>4. IngestionTypeOK'
  BY <1>2 DEF IngestionTypeOK, TxType
<1>5. (\A g \in Handler : TxOK(tx[g], rows))'
  BY <1>3
<1> QED
  BY <1>4, <1>5 DEF IngestionInv

-----------------------------------------------------------------------------
LEMMA InitOK == Init => IngestionInv
<1> SUFFICES ASSUME Init PROVE IngestionInv
  OBVIOUS
<1>1. tx \in [Handler -> TxType] /\ \A h \in Handler : tx[h].todo = <<>>
  BY NoTransactionOK DEF Init
<1>2. IngestionTypeOK
  BY <1>1 DEF Init, IngestionTypeOK, TxType
<1> QED
  BY <1>1, <1>2 DEF IngestionInv, TxOK

\* A message that arrives with a whole plan.
LEMMA ArriveOK ==
  ASSUME IngestionInv, NEW h \in Handler, NEW t \in TxType, TxOK(t, rows), Arrive(h, t)
  PROVE  IngestionInv'
<1>1. /\ events' \in SUBSET Event /\ nextId' \in Nat /\ rows' \in SUBSET Device
      /\ lock' \in [Device -> Handler \cup {Free}] /\ messages' \in Nat /\ faults' \in Nat
      /\ rows' = rows
  BY DEF Arrive, IngestionInv, IngestionTypeOK
<1>2. tx' = [tx EXCEPT ![h] = t]
  BY DEF Arrive
<1> QED
  BY <1>1, <1>2, OwnTransaction

LEMMA SnapshotOK ==
  ASSUME IngestionInv, NEW h \in Handler, NEW l \in Lot, NEW target \in Nat,
         Snapshot(h, l, target)
  PROVE  IngestionInv'
<1>1. PICK todo : /\ todo = <<Do("read"), Do("insert"), Find(Board), Flush(Board), Find(l),
                             Flush(l), Do("commit")>>
                  /\ Arrive(h, Transaction("snapshot", todo, l, target, {}))
  BY DEF Snapshot
<1> DEFINE t == Transaction("snapshot", todo, l, target, {})
<1>2. todo \in Seq(Statement) /\ Len(todo) = 7
  BY <1>1 DEF Do, Find, Flush, Statement, Device
<1>3. /\ \A i \in 1..7 : todo[i].do = "commit" => i = 7
      /\ \A i \in 1..7 : todo[i].do = "find" => todo[i].device \in {Board, l}
      /\ todo[3].do = "find" /\ todo[3].device = Board
      /\ todo[5].do = "find" /\ todo[5].device = l
  BY <1>1 DEF Do, Find, Flush
<1>4. Arrive(h, t) /\ "snapshot" \in Kinds
  BY <1>1 DEF Arrive, Transaction
<1>5. /\ t.kind = "snapshot" /\ t.todo = todo /\ t.lot = l /\ t.changes = {}
      /\ t.inserted = {} /\ t.missing = {}
  BY DEF Transaction
<1>6. t \in TxType
  BY <1>2, <1>4 DEF TxType, Transaction
<1> HIDE DEF t
<1>7. TxOK(t, rows)
  <2>1. t.kind # "heartbeat" /\ DevicesOf(t) = {Board, l}
    BY <1>5 DEF DevicesOf
  <2>2. StillToFind(t, Board) /\ StillToFind(t, l)
    <3>1. t.todo = todo
      BY <1>5
    <3>2. Len(todo) = 7
      BY <1>2
    <3>3. 3 \in 1..Len(t.todo) /\ 5 \in 1..Len(t.todo)
      BY <3>1, <3>2
    <3> QED
      BY <1>3, <3>1, <3>3 DEF StillToFind
  <2> QED
    BY <1>2, <1>3, <1>5, <2>1, <2>2 DEF TxOK
<1> QED
  BY <1>4, <1>6, <1>7, ArriveOK

LEMMA CameraEventsOK ==
  ASSUME IngestionInv, NEW h \in Handler, NEW l \in Lot, NEW changes \in SUBSET Change,
         \A c \in changes : LotOf[c.spot] = l,
         CameraEvents(h, l, changes)
  PROVE  IngestionInv'
<1>1. PICK todo \in {<<Find(l), Flush(l), Find(Board), Do("insert"), Flush(Board), Do("commit")>>,
                     <<Find(l), Flush(l), Find(Board), Flush(Board), Do("insert"), Do("commit")>>} :
        Arrive(h, Transaction("camera", todo, l, 0, changes))
  BY DEF CameraEvents
<1> DEFINE t == Transaction("camera", todo, l, 0, changes)
<1>2. todo \in Seq(Statement) /\ Len(todo) = 6
  <2>1. /\ Do("insert") \in Statement /\ Do("commit") \in Statement
        /\ Find(l) \in Statement /\ Flush(l) \in Statement
        /\ Find(Board) \in Statement /\ Flush(Board) \in Statement
    BY DEF Do, Find, Flush, Statement, Device
  <2>2. CASE todo = <<Find(l), Flush(l), Find(Board), Do("insert"), Flush(Board), Do("commit")>>
    BY <2>1, <2>2
  <2>3. CASE todo = <<Find(l), Flush(l), Find(Board), Flush(Board), Do("insert"), Do("commit")>>
    BY <2>1, <2>3
  <2> QED
    BY <2>2, <2>3
<1>3. /\ \A i \in 1..6 : todo[i].do = "commit" => i = 6
      /\ \A i \in 1..6 : todo[i].do # "read"
      /\ \A i \in 1..6 : todo[i].do = "find" => todo[i].device \in {Board, l}
      /\ todo[1].do = "find" /\ todo[1].device = l
      /\ todo[3].do = "find" /\ todo[3].device = Board
  BY DEF Do, Find, Flush
<1>4. Arrive(h, t) /\ "camera" \in Kinds
  BY <1>1 DEF Arrive, Transaction
<1>5. /\ t.kind = "camera" /\ t.todo = todo /\ t.lot = l /\ t.changes = changes
      /\ t.inserted = {} /\ t.missing = {}
  BY DEF Transaction
<1>6. t \in TxType
  BY <1>2, <1>4 DEF TxType, Transaction
<1> HIDE DEF t
<1>7. TxOK(t, rows)
  <2>1. t.kind # "heartbeat" /\ DevicesOf(t) = {Board, l}
    BY <1>5 DEF DevicesOf
  <2>2. StillToFind(t, Board) /\ StillToFind(t, l)
    <3>1. t.todo = todo
      BY <1>5
    <3>2. Len(todo) = 6
      BY <1>2
    <3>3. 1 \in 1..Len(t.todo) /\ 3 \in 1..Len(t.todo)
      BY <3>1, <3>2
    <3> QED
      BY <1>3, <3>1, <3>3 DEF StillToFind
  <2> QED
    BY <1>2, <1>3, <1>5, <2>1, <2>2 DEF TxOK
<1> QED
  BY <1>4, <1>6, <1>7, ArriveOK

LEMMA HeartbeatOK ==
  ASSUME IngestionInv, NEW h \in Handler, Heartbeat(h)
  PROVE  IngestionInv'
<1> DEFINE t == Transaction("heartbeat", HeartbeatPlan, Board, 0, {})
<1>1. Arrive(h, t) /\ "heartbeat" \in Kinds
  BY DEF Heartbeat, Arrive, Transaction
<1>2. /\ t.kind = "heartbeat" /\ t.todo = HeartbeatPlan /\ t.changes = {}
      /\ t.inserted = {} /\ t.missing = {}
  BY DEF Transaction
<1>3. t \in TxType
  BY <1>1, HeartbeatPlanWhole DEF TxType, Transaction
<1> HIDE DEF t
<1>4. TxOK(t, rows)
  <2>1. \A i \in 1..Len(HeartbeatPlan) : HeartbeatPlan[i].device \in Device
    <3>1. HeartbeatPlan \in Seq(Statement)
      BY HeartbeatPlanWhole
    <3>2. \A i \in 1..Len(HeartbeatPlan) : HeartbeatPlan[i] \in Statement
      BY <3>1
    <3> QED
      BY <3>2 DEF Statement
  <2> QED
    BY <1>2, <2>1, HeartbeatPlanWhole DEF TxOK, DevicesOf, StillToFind
<1> QED
  BY <1>1, <1>3, <1>4, ArriveOK

LEMMA ArrivalsOK ==
  ASSUME IngestionInv, Arrivals
  PROVE  IngestionInv'
<1>1. PICK h \in Handler :
        \/ \E l \in Lot : \E target \in 0..(Cardinality(SpotsOf(l)) + 1) : Snapshot(h, l, target)
        \/ \E l \in Lot : \E S \in SUBSET SpotsOf(l) : \E occ \in SUBSET S :
             CameraEvents(h, l, {[spot |-> s, occupied |-> s \in occ] : s \in S})
        \/ Heartbeat(h)
  BY DEF Arrivals, Reportable
<1>2. ASSUME NEW l \in Lot, NEW target \in 0..(Cardinality(SpotsOf(l)) + 1), Snapshot(h, l, target)
      PROVE  IngestionInv'
  <2>1. IsFiniteSet(Spot) /\ SpotsOf(l) \in SUBSET Spot
    BY IngestionAssumption DEF SpotsOf
  <2>2. Cardinality(SpotsOf(l)) \in Nat
    BY <2>1, FS_Subset, FS_CardinalityType
  <2>3. target \in Nat
    BY <2>2
  <2> QED
    BY <1>2, <2>3, SnapshotOK
<1>3. ASSUME NEW l \in Lot, NEW S \in SUBSET SpotsOf(l), NEW occ \in SUBSET S,
             CameraEvents(h, l, {[spot |-> s, occupied |-> s \in occ] : s \in S})
      PROVE  IngestionInv'
  <2> DEFINE changes == {[spot |-> s, occupied |-> s \in occ] : s \in S}
  <2>1. \A c \in changes : c \in Change /\ LotOf[c.spot] = l
    <3> SUFFICES ASSUME NEW s \in S
                 PROVE  LET c == [spot |-> s, occupied |-> s \in occ]
                        IN  c \in Change /\ LotOf[c.spot] = l
      OBVIOUS
    <3>1. s \in Spot /\ LotOf[s] = l
      BY DEF SpotsOf
    <3>2. (s \in occ) \in BOOLEAN
      OBVIOUS
    <3> QED
      BY <3>1, <3>2, Zenon DEF Change
  <2>2. CameraEvents(h, l, changes)
    BY <1>3
  <2> HIDE DEF changes
  <2> QED
    BY <2>1, <2>2, CameraEventsOK
<1> QED
  BY <1>1, <1>2, <1>3, HeartbeatOK

-----------------------------------------------------------------------------
\* Whatever the simulation logs concerns spots of its lot.
LEMMA SimulatedOfLot ==
  ASSUME NEW rws, NEW l \in Lot, NEW target \in Nat, NEW changes,
         Simulated(rws, l, target, changes)
  PROVE  \A c \in changes : LotOf[c.spot] = l
<1> DEFINE occupied == OccupiedIn(rws, l)
           available == {s \in Listed : LotOf[s] = l} \ occupied
<1>1. \A s \in occupied \cup available : LotOf[s] = l
  BY DEF OccupiedIn
<1>2. PICK S \in SUBSET (occupied \cup available) :
        \A c \in changes : \E s \in S : c.spot = s
  <2> HIDE DEF occupied, available
  <2>1. CASE \E S \in SUBSET available : changes = {[spot |-> s, occupied |-> TRUE] : s \in S}
    BY <2>1
  <2>2. CASE \E S \in SUBSET occupied : changes = {[spot |-> s, occupied |-> FALSE] : s \in S}
    BY <2>2
  <2>3. CASE changes = {}
    BY <2>3
  <2> QED
    BY <2>1, <2>2, <2>3 DEF Simulated, occupied, available
<1> QED
  BY <1>1, <1>2

LEMMA RunningTx ==
  ASSUME IngestionInv, NEW h \in Handler, Running(h)
  PROVE  /\ tx[h] \in TxType /\ tx[h].todo # <<>> /\ TxOK(tx[h], rows)
         /\ tx[h].todo \in Seq(Statement) /\ Now(h) \in Statement
         /\ Now(h) = tx[h].todo[1] /\ Len(tx[h].todo) \in Nat \ {0}
<1>1. tx[h] \in TxType /\ tx[h].todo # <<>> /\ TxOK(tx[h], rows)
  BY DEF IngestionInv, IngestionTypeOK, TxType, Running
<1>2. tx[h].todo \in Seq(Statement)
  BY <1>1 DEF TxType
<1> QED
  BY <1>1, <1>2, TailKeeps DEF Now

\* A statement that only moves its own transaction on, to u with its tail to do.
LEMMA AdvanceOK ==
  ASSUME IngestionInv, NEW h \in Handler, Running(h),
         NEW u, Advance(h, u), u.todo = tx[h].todo, u \in TxType,
         u.kind = tx[h].kind, u.lot = tx[h].lot,
         tx[h].missing \subseteq u.missing, u.missing \subseteq DevicesOf(tx[h]),
         Now(h).do = "find" => Now(h).device \in u.missing \cup rows,
         \A c \in u.changes : tx[h].kind # "heartbeat" /\ LotOf[c.spot] = tx[h].lot,
         \A e \in u.inserted : tx[h].kind # "heartbeat" /\ LotOf[e.spot] = tx[h].lot,
         UNCHANGED <<events, rows, messages, faults>>, nextId' \in Nat,
         lock' \in [Device -> Handler \cup {Free}]
  PROVE  IngestionInv'
<1> DEFINE v == [u EXCEPT !.todo = Tail(u.todo)]
<1>1. tx[h].todo # <<>> /\ tx[h].todo \in Seq(Statement) /\ TxOK(tx[h], rows) /\ tx[h] \in TxType
  BY RunningTx
<1>2. Tail(u.todo) \in Seq(Statement)
  BY <1>1, TailKeeps
<1>3. v \in TxType
  BY <1>2 DEF TxType
<1>4. /\ v.todo = Tail(tx[h].todo) /\ v.kind = u.kind /\ v.lot = u.lot /\ v.missing = u.missing
      /\ v.changes = u.changes /\ v.inserted = u.inserted
  BY DEF TxType
<1>5. tx' = [tx EXCEPT ![h] = v]
  BY DEF Advance
<1> HIDE DEF v
<1>6. TxOK(v, rows)
  BY <1>1, <1>3, <1>4, AdvanceKeeps DEF Now
<1>7. /\ events' \in SUBSET Event /\ rows' \in SUBSET Device /\ rows \subseteq rows'
      /\ messages' \in Nat /\ faults' \in Nat /\ rows' = rows
  BY DEF IngestionInv, IngestionTypeOK
<1>8. TxOK(v, rows')
  BY <1>6, <1>7
<1> QED
  BY <1>3, <1>5, <1>7, <1>8, OwnTransaction

LEMMA ReadEventsOK ==
  ASSUME IngestionInv, NEW h \in Handler, ReadEvents(h)
  PROVE  IngestionInv'
<1>1. Running(h) /\ Now(h).do = "read" /\ UNCHANGED <<events, nextId, rows, lock, messages, faults>>
  BY DEF ReadEvents, Does
<1>2. PICK changes \in SUBSET Change :
        /\ Simulated(events, tx[h].lot, tx[h].target, changes)
        /\ Advance(h, [tx[h] EXCEPT !.changes = changes, !.seen = events])
  BY DEF ReadEvents
<1> DEFINE u == [tx[h] EXCEPT !.changes = changes, !.seen = events]
<1>3. tx[h] \in TxType /\ TxOK(tx[h], rows) /\ Now(h) = tx[h].todo[1]
      /\ Len(tx[h].todo) \in Nat \ {0} /\ tx[h].todo # <<>>
  BY <1>1, RunningTx
<1>4. tx[h].kind # "heartbeat" /\ tx[h].lot \in Lot
  BY <1>1, <1>3 DEF TxOK
<1>5. tx[h].target \in Nat
  BY <1>3 DEF TxType
<1>6. \A c \in changes : LotOf[c.spot] = tx[h].lot
  BY <1>2, <1>4, <1>5, SimulatedOfLot
<1>7. events \in SUBSET Event /\ nextId' \in Nat /\ lock' \in [Device -> Handler \cup {Free}]
  BY <1>1 DEF IngestionInv, IngestionTypeOK
<1>8. u \in TxType
  BY <1>3, <1>7 DEF TxType
<1>9. /\ u.todo = tx[h].todo /\ u.kind = tx[h].kind /\ u.lot = tx[h].lot
      /\ u.missing = tx[h].missing /\ u.changes = changes /\ u.inserted = tx[h].inserted
  BY <1>3 DEF TxType
<1>10. Advance(h, u)
  BY <1>2
<1> HIDE DEF u
<1>11. tx[h].missing \subseteq DevicesOf(tx[h])
       /\ \A e \in tx[h].inserted : tx[h].kind # "heartbeat" /\ LotOf[e.spot] = tx[h].lot
  BY <1>3 DEF TxOK
<1> QED
  BY <1>1, <1>4, <1>6, <1>7, <1>8, <1>9, <1>10, <1>11, AdvanceOK

LEMMA InsertEventsOK ==
  ASSUME IngestionInv, NEW h \in Handler, InsertEvents(h)
  PROVE  IngestionInv'
<1>1. Running(h) /\ Now(h).do = "insert" /\ UNCHANGED <<events, rows, lock, messages, faults>>
  BY DEF InsertEvents, Does
<1>2. PICK inserted \in Numbered(tx[h].changes, nextId) :
        Advance(h, [tx[h] EXCEPT !.inserted = inserted])
  BY DEF InsertEvents
<1> DEFINE u == [tx[h] EXCEPT !.inserted = inserted]
<1>3. tx[h] \in TxType /\ TxOK(tx[h], rows) /\ tx[h].todo # <<>>
  BY <1>1, RunningTx
<1>4. tx[h].changes \in SUBSET Change /\ nextId \in Nat
  BY <1>3 DEF TxType, IngestionInv, IngestionTypeOK
<1>5. Cardinality(tx[h].changes) \in Nat
  BY <1>4, ChangesFinite
<1>6. nextId' \in Nat /\ lock' \in [Device -> Handler \cup {Free}]
  BY <1>1, <1>4, <1>5 DEF IngestionInv, IngestionTypeOK, InsertEvents
<1>7. /\ \A c \in tx[h].changes : tx[h].kind # "heartbeat" /\ LotOf[c.spot] = tx[h].lot
      /\ tx[h].missing \subseteq DevicesOf(tx[h])
  BY <1>3 DEF TxOK
<1>8. inserted \in SUBSET Event /\ \A e \in inserted : \E c \in tx[h].changes : e.spot = c.spot
  BY <1>4, NumberedEvents
<1>9. \A e \in inserted : tx[h].kind # "heartbeat" /\ LotOf[e.spot] = tx[h].lot
  BY <1>7, <1>8
<1>10. u \in TxType
  BY <1>3, <1>8 DEF TxType
<1>11. /\ u.todo = tx[h].todo /\ u.kind = tx[h].kind /\ u.lot = tx[h].lot
       /\ u.missing = tx[h].missing /\ u.changes = tx[h].changes /\ u.inserted = inserted
  BY <1>3 DEF TxType
<1>12. Advance(h, u)
  BY <1>2
<1> HIDE DEF u
<1> QED
  BY <1>1, <1>6, <1>7, <1>9, <1>10, <1>11, <1>12, AdvanceOK

LEMMA FindDeviceOK ==
  ASSUME IngestionInv, NEW h \in Handler, FindDevice(h)
  PROVE  IngestionInv'
<1>1. Running(h) /\ Now(h).do = "find" /\ UNCHANGED <<events, nextId, rows, lock, messages, faults>>
  BY DEF FindDevice, Does
<1> DEFINE missing == tx[h].missing \cup ({Now(h).device} \ rows)
           u == [tx[h] EXCEPT !.missing = missing]
<1>2. tx[h] \in TxType /\ TxOK(tx[h], rows) /\ Now(h) = tx[h].todo[1] /\ Now(h) \in Statement
      /\ Len(tx[h].todo) \in Nat \ {0} /\ tx[h].todo # <<>>
  BY <1>1, RunningTx
<1>3. Now(h).device \in Device /\ Now(h).device \in DevicesOf(tx[h])
  BY <1>1, <1>2 DEF Statement, TxOK
<1>4. missing \in SUBSET Device
  BY <1>2, <1>3 DEF TxType
<1>5. missing \subseteq DevicesOf(tx[h])
  BY <1>2, <1>3 DEF TxOK
<1>6. Now(h).device \in missing \cup rows /\ tx[h].missing \subseteq missing
  OBVIOUS
<1>7. Advance(h, u)
  BY DEF FindDevice
<1> HIDE DEF missing
<1>8. u \in TxType
  BY <1>2, <1>4 DEF TxType
<1>9. /\ u.todo = tx[h].todo /\ u.kind = tx[h].kind /\ u.lot = tx[h].lot
      /\ u.missing = missing /\ u.changes = tx[h].changes /\ u.inserted = tx[h].inserted
  BY <1>2 DEF TxType
<1> HIDE DEF u
<1>10. nextId' \in Nat /\ lock' \in [Device -> Handler \cup {Free}]
  BY <1>1 DEF IngestionInv, IngestionTypeOK
<1>11. /\ \A c \in tx[h].changes : tx[h].kind # "heartbeat" /\ LotOf[c.spot] = tx[h].lot
       /\ \A e \in tx[h].inserted : tx[h].kind # "heartbeat" /\ LotOf[e.spot] = tx[h].lot
  BY <1>2 DEF TxOK
<1> QED
  BY <1>1, <1>5, <1>6, <1>7, <1>8, <1>9, <1>10, <1>11, AdvanceOK

LEMMA FlushDeviceOK ==
  ASSUME IngestionInv, NEW h \in Handler, FlushDevice(h)
  PROVE  IngestionInv'
<1>1. /\ Running(h) /\ Now(h).do # "find" /\ UNCHANGED <<events, nextId, rows, messages, faults>>
      /\ Advance(h, tx[h]) /\ lock' = [lock EXCEPT ![Now(h).device] = h]
  BY DEF FlushDevice, Does
<1>2. tx[h] \in TxType /\ TxOK(tx[h], rows) /\ tx[h].todo # <<>>
  BY <1>1, RunningTx
<1>3. nextId' \in Nat /\ lock' \in [Device -> Handler \cup {Free}]
  BY <1>1 DEF IngestionInv, IngestionTypeOK
<1>4. /\ \A c \in tx[h].changes : tx[h].kind # "heartbeat" /\ LotOf[c.spot] = tx[h].lot
      /\ \A e \in tx[h].inserted : tx[h].kind # "heartbeat" /\ LotOf[e.spot] = tx[h].lot
      /\ tx[h].missing \subseteq DevicesOf(tx[h])
  BY <1>2 DEF TxOK
<1> QED
  BY <1>1, <1>2, <1>3, <1>4, AdvanceOK

\* A transaction that is over, whether it committed or not.
LEMMA EndOK ==
  ASSUME IngestionInv, NEW h \in Handler, End(h),
         events' \in SUBSET Event, nextId' \in Nat, rows' \in SUBSET Device, rows \subseteq rows',
         messages' \in Nat, faults' \in Nat
  PROVE  IngestionInv'
<1>1. tx' = [tx EXCEPT ![h] = NoTransaction]
  BY DEF End
<1>2. lock' \in [Device -> Handler \cup {Free}]
  BY DEF End, IngestionInv, IngestionTypeOK
<1>3. TxOK(NoTransaction, rows')
  BY NoTransactionOK DEF TxOK
<1> QED
  BY <1>1, <1>2, <1>3, NoTransactionOK, OwnTransaction

LEMMA CommitOK ==
  ASSUME IngestionInv, NEW h \in Handler, Commit(h)
  PROVE  IngestionInv'
<1>1. Running(h) /\ End(h) /\ UNCHANGED <<nextId, messages, faults>>
      /\ events' = events \cup tx[h].inserted /\ rows' = rows \cup tx[h].missing
  BY DEF Commit, Does
<1>2. tx[h].inserted \in SUBSET Event /\ tx[h].missing \in SUBSET Device
  BY <1>1, RunningTx DEF TxType
<1>3. /\ events' \in SUBSET Event /\ nextId' \in Nat /\ rows' \in SUBSET Device
      /\ rows \subseteq rows' /\ messages' \in Nat /\ faults' \in Nat
  BY <1>1, <1>2 DEF IngestionInv, IngestionTypeOK
<1> QED
  BY <1>1, <1>3, EndOK

LEMMA RolledBackOK ==
  ASSUME IngestionInv, NEW h \in Handler, RolledBack(h), faults' \in Nat
  PROVE  IngestionInv'
<1>1. /\ events' \in SUBSET Event /\ nextId' \in Nat /\ rows' \in SUBSET Device
      /\ rows \subseteq rows' /\ messages' \in Nat /\ End(h)
  BY DEF RolledBack, IngestionInv, IngestionTypeOK
<1> QED
  BY <1>1, EndOK

LEMMA CrashOK ==
  ASSUME IngestionInv, Crash
  PROVE  IngestionInv'
<1>1. tx' \in [Handler -> TxType] /\ \A h \in Handler : tx'[h].todo = <<>>
  BY NoTransactionOK DEF Crash
<1>2. IngestionTypeOK'
  BY <1>1 DEF Crash, IngestionInv, IngestionTypeOK, TxType
<1> QED
  BY <1>1, <1>2 DEF IngestionInv, TxOK

LEMMA StepOK == IngestionInv /\ [Next]_vars => IngestionInv'
<1> SUFFICES ASSUME IngestionInv, [Next]_vars PROVE IngestionInv'
  OBVIOUS
<1>1. CASE Arrivals
  BY <1>1, ArrivalsOK
<1>2. CASE Crash
  BY <1>2, CrashOK
<1>3. ASSUME NEW h \in Handler, Step(h) \/ Fails(h) PROVE IngestionInv'
  <2>1. faults \in Nat
    BY DEF IngestionInv, IngestionTypeOK
  <2>2. CASE ReadEvents(h)
    BY <2>2, ReadEventsOK
  <2>3. CASE InsertEvents(h)
    BY <2>3, InsertEventsOK
  <2>4. CASE FindDevice(h)
    BY <2>4, FindDeviceOK
  <2>5. CASE FlushDevice(h)
    BY <2>5, FlushDeviceOK
  <2>6. CASE InsertClashes(h) \/ DeadlockVictim(h)
    BY <2>1, <2>6, RolledBackOK DEF InsertClashes, DeadlockVictim
  <2>7. CASE Commit(h)
    BY <2>7, CommitOK
  <2>8. CASE Fails(h)
    <3>1. RolledBack(h) /\ faults' \in Nat
      BY <2>1, <2>8 DEF Fails
    <3> QED
      BY <3>1, RolledBackOK
  <2> QED
    BY <1>3, <2>2, <2>3, <2>4, <2>5, <2>6, <2>7, <2>8 DEF Step
<1>4. CASE UNCHANGED vars
  BY <1>4 DEF vars, IngestionInv, IngestionTypeOK, TxOK
<1> QED
  BY <1>1, <1>2, <1>3, <1>4 DEF Next

-----------------------------------------------------------------------------
\* Every state of ingestion has its type, however messages overlap and fail.
THEOREM IngestionTypeCorrect == Spec => []IngestionTypeOK
<1>1. IngestionInv => IngestionTypeOK
  BY DEF IngestionInv
<1> QED
  BY InitOK, StepOK, <1>1, PTL DEF Spec

\* A transaction that reaches its commit reports all of its devices at once.
LEMMA CommitReports ==
  ASSUME IngestionInv, NEW h \in Handler, Commit(h)
  PROVE  Reports!Next
<1> DEFINE t == tx[h]
<1>1. /\ t \in TxType /\ TxOK(t, rows) /\ t.todo # <<>> /\ t.todo[1].do = "commit"
      /\ Len(t.todo) \in Nat \ {0}
  BY RunningTx DEF Commit, Does
<1>2. Len(t.todo) = 1
  <2>1. \A i \in 1..Len(t.todo) : t.todo[i].do = "commit" => i = Len(t.todo)
    BY <1>1 DEF TxOK
  <2>2. t.todo[1].do = "commit" /\ Len(t.todo) \in Nat \ {0}
    BY <1>1
  <2> HIDE DEF t
  <2>3. 1 \in 1..Len(t.todo)
    BY <2>2
  <2> QED
    BY <2>1, <2>2, <2>3
<1>3. \A d \in DevicesOf(t) : d \in t.missing \/ d \in rows
  BY <1>1, <1>2 DEF TxOK, StillToFind
<1>4. events' = events \cup t.inserted /\ rows' = rows \cup t.missing
  BY DEF Commit
<1>5. /\ t.missing \subseteq DevicesOf(t) /\ t.inserted \subseteq Event
      /\ \A e \in t.inserted : t.kind # "heartbeat" /\ LotOf[e.spot] = t.lot
      /\ t.kind # "heartbeat" => t.lot \in Lot
  BY <1>1 DEF TxOK, TxType
<1>6. rows \subseteq Device
  BY DEF IngestionInv, IngestionTypeOK
<1> HIDE DEF t
<1>7. CASE t.kind = "heartbeat"
  <2>1. events' = events /\ rows' = Device
    BY <1>3, <1>4, <1>5, <1>6, <1>7 DEF DevicesOf
  <2> QED
    BY <2>1 DEF Reports!Next, Reports!Heartbeat
<1>8. CASE t.kind # "heartbeat"
  <2>1. rows' = rows \cup {Board, t.lot}
    BY <1>3, <1>4, <1>5, <1>8 DEF DevicesOf
  <2>2. events \subseteq events' /\ \A e \in events' \ events : e \in Event /\ LotOf[e.spot] = t.lot
    BY <1>4, <1>5
  <2> QED
    BY <1>5, <1>8, <2>1, <2>2 DEF Reports!Next, Reports!Report
<1> QED
  BY <1>7, <1>8

\* Ingestion implements the log of whole reports: what deadlocks, clashes,
\* failures and crashes cut short leaves nothing behind.
THEOREM IngestionImplementsLog == Spec => ReportLogSpec
<1>1. Init => Reports!Init
  BY DEF Init, Reports!Init
<1>2. IngestionInv /\ [Next]_vars => [Reports!Next]_<<events, rows>>
  <2> SUFFICES ASSUME IngestionInv, [Next]_vars, ~UNCHANGED <<events, rows>> PROVE Reports!Next
    OBVIOUS
  <2>1. \E h \in Handler : Commit(h)
    BY DEF Next, vars, Arrivals, Snapshot, CameraEvents, Heartbeat, Arrive, Crash, Step, ReadEvents,
           InsertEvents, FindDevice, FlushDevice, InsertClashes, DeadlockVictim, Fails, RolledBack
  <2> QED
    BY <2>1, CommitReports
<1> QED
  BY InitOK, StepOK, <1>1, <1>2, PTL DEF Spec, ReportLogSpec, Reports!Spec

-----------------------------------------------------------------------------
(***************************************************************************)
(* What a snapshot repairs.                                                *)
(***************************************************************************)
\* Transaction t has such a statement still to run.
Ahead(t, what) == \E i \in 1..Len(t.todo) : t.todo[i].do = what

\* A snapshot reads first and inserts once after that.
ReadsFirst(t) ==
  /\ \A i \in 1..Len(t.todo) : t.todo[i].do = "read" => i = 1
  /\ \A i, j \in 1..Len(t.todo) : t.todo[i].do = "insert" /\ t.todo[j].do = "insert" => i = j
  /\ Ahead(t, "read") => Ahead(t, "insert")

\* What it logs was simulated over the events it read ...
Planned(t, ids) ==
  ~Ahead(t, "read") => /\ Simulated(t.seen, t.lot, t.target, t.changes)
                       /\ \A e \in t.seen : e.id <= ids

\* ... and what it inserted has ids above theirs.
Logged(t, ids) ==
  ~Ahead(t, "read") /\ ~Ahead(t, "insert") =>
    \E first \in 0..ids : t.inserted \in Numbered(t.changes, first) /\ \A e \in t.seen : e.id <= first

Prepared(t, ids) ==
  t.todo # <<>> /\ t.kind = "snapshot" => ReadsFirst(t) /\ Planned(t, ids) /\ Logged(t, ids)

\* The sequence of ids is ahead of every row, committed or not.
RepairInv ==
  /\ \A e \in events : e.id <= nextId
  /\ \A h \in Handler : (\A e \in tx[h].inserted : e.id <= nextId) /\ Prepared(tx[h], nextId)

-----------------------------------------------------------------------------
\* One statement less to run.
LEMMA TailAhead ==
  ASSUME NEW t \in TxType, t.todo # <<>>, NEW u, u.todo = Tail(t.todo)
  PROVE  /\ \A w : Ahead(u, w) => Ahead(t, w)
         /\ \A w : Head(t.todo).do # w => (Ahead(t, w) => Ahead(u, w))
         /\ ReadsFirst(t) => ReadsFirst(u) /\ ~Ahead(u, "read")
         /\ ReadsFirst(t) /\ Head(t.todo).do = "insert" => ~Ahead(t, "read") /\ ~Ahead(u, "insert")
<1>1. t.todo \in Seq(Statement)
  BY DEF TxType
<1>2. /\ Head(t.todo) = t.todo[1]
      /\ Len(t.todo) \in Nat \ {0} /\ Len(u.todo) = Len(t.todo) - 1
      /\ \A i \in 1..Len(u.todo) : i + 1 \in 1..Len(t.todo) /\ u.todo[i] = t.todo[i + 1]
      /\ \A i \in 1..Len(t.todo) :
              i # 1 => i - 1 \in 1..Len(u.todo) /\ t.todo[i] = u.todo[i - 1]
  BY <1>1, TailKeeps
<1>3. 1 \in 1..Len(t.todo)
  BY <1>2
<1>4. \A w : Ahead(u, w) => Ahead(t, w)
  BY <1>2 DEF Ahead
<1>5. \A w : Head(t.todo).do # w => (Ahead(t, w) => Ahead(u, w))
  BY <1>2 DEF Ahead
<1>6. ASSUME ReadsFirst(t)
      PROVE  ~Ahead(u, "read")
  <2> SUFFICES ASSUME NEW i \in 1..Len(u.todo), u.todo[i].do = "read" PROVE FALSE
    BY DEF Ahead
  <2>1. i + 1 \in 1..Len(t.todo) /\ t.todo[i + 1].do = "read"
    BY <1>2
  <2>2. i + 1 = 1
    BY <1>6, <2>1 DEF ReadsFirst
  <2> QED
    BY <2>2
<1>7. ASSUME ReadsFirst(t)
      PROVE  ReadsFirst(u)
  <2>1. \A i, j \in 1..Len(u.todo) : u.todo[i].do = "insert" /\ u.todo[j].do = "insert" => i = j
    <3> TAKE i, j \in 1..Len(u.todo)
    <3> HAVE u.todo[i].do = "insert" /\ u.todo[j].do = "insert"
    <3>1. /\ i + 1 \in 1..Len(t.todo) /\ t.todo[i + 1].do = "insert"
          /\ j + 1 \in 1..Len(t.todo) /\ t.todo[j + 1].do = "insert"
      BY <1>2
    <3>2. i + 1 = j + 1
      BY <1>7, <3>1 DEF ReadsFirst
    <3> QED
      BY <3>2
  <2> QED
    BY <1>6, <1>7, <2>1 DEF ReadsFirst, Ahead
<1>8. ASSUME ReadsFirst(t), Head(t.todo).do = "insert"
      PROVE  ~Ahead(t, "read") /\ ~Ahead(u, "insert")
  <2>1. ~Ahead(t, "read")
    BY <1>2, <1>3, <1>5, <1>6, <1>8
  <2>2. SUFFICES ASSUME NEW i \in 1..Len(u.todo), u.todo[i].do = "insert" PROVE FALSE
    BY <2>1 DEF Ahead
  <2>3. i + 1 \in 1..Len(t.todo) /\ t.todo[i + 1].do = "insert" /\ t.todo[1].do = "insert"
    BY <1>2, <1>8, <2>2
  <2>4. i + 1 = 1
    BY <1>3, <1>8, <2>3 DEF ReadsFirst
  <2> QED
    BY <2>4
<1> QED
  BY <1>4, <1>5, <1>6, <1>7, <1>8

\* Later ids take nothing back.
LEMMA LaterIds ==
  ASSUME NEW t \in TxType, NEW ids \in Nat, NEW later \in Nat, ids <= later, Prepared(t, ids)
  PROVE  Prepared(t, later)
<1>1. \A e \in t.seen : e.id \in Nat
  BY DEF TxType, Event
<1>2. 0..ids \subseteq 0..later
  OBVIOUS
<1> QED
  BY <1>1, <1>2 DEF Prepared, Planned, Logged

\* A step of one transaction, to u.
LEMMA OwnRepair ==
  ASSUME IngestionInv, RepairInv, NEW h \in Handler, NEW u, tx' = [tx EXCEPT ![h] = u],
         nextId' \in Nat, nextId <= nextId', \A e \in events' : e.id <= nextId',
         \A e \in u.inserted : e.id <= nextId', Prepared(u, nextId')
  PROVE  RepairInv'
<1>1. tx \in [Handler -> TxType] /\ nextId \in Nat
  BY DEF IngestionInv, IngestionTypeOK, TxType
<1>2. ASSUME NEW g \in Handler
      PROVE  (\A e \in tx'[g].inserted : e.id <= nextId') /\ Prepared(tx'[g], nextId')
  <2>1. CASE g = h
    BY <1>1, <2>1
  <2>2. CASE g # h
    <3>1. tx'[g] = tx[g] /\ tx[g] \in TxType
      BY <1>1, <2>2
    <3>2. (\A e \in tx[g].inserted : e.id <= nextId) /\ Prepared(tx[g], nextId)
      BY DEF RepairInv
    <3>3. \A e \in tx[g].inserted : e.id \in Nat
      BY <3>1 DEF TxType, Event
    <3>4. Prepared(tx[g], nextId')
      BY <1>1, <3>1, <3>2, LaterIds
    <3> QED
      BY <1>1, <3>1, <3>2, <3>3, <3>4
  <2> QED
    BY <2>1, <2>2
<1> QED
  BY <1>2 DEF RepairInv

\* ... that gives out no id.
LEMMA SameIds ==
  ASSUME IngestionInv, RepairInv, NEW h \in Handler, NEW u, tx' = [tx EXCEPT ![h] = u],
         nextId' = nextId, \A e \in events' : e \in events \/ e.id <= nextId,
         \A e \in u.inserted : e.id <= nextId, Prepared(u, nextId)
  PROVE  RepairInv'
<1>1. nextId' \in Nat /\ nextId <= nextId'
  BY DEF IngestionInv, IngestionTypeOK
<1>2. \A e \in events' : e.id <= nextId'
  BY DEF RepairInv
<1>3. (\A e \in u.inserted : e.id <= nextId') /\ Prepared(u, nextId')
  OBVIOUS
<1> QED
  BY <1>1, <1>2, <1>3, OwnRepair

\* A message arrives: a snapshot has yet to read.
LEMMA ArriveRepair ==
  ASSUME IngestionInv, RepairInv, NEW h \in Handler, NEW t, Arrive(h, t), t.inserted = {},
         t.kind = "snapshot" => ReadsFirst(t) /\ Ahead(t, "read")
  PROVE  RepairInv'
<1>1. tx' = [tx EXCEPT ![h] = t] /\ nextId' = nextId /\ events' = events
  BY DEF Arrive
<1>2. nextId \in Nat
  BY DEF IngestionInv, IngestionTypeOK
<1>3. Prepared(t, nextId)
  BY DEF Prepared, Planned, Logged
<1>4. \A e \in events : e.id <= nextId
  BY DEF RepairInv
<1> QED
  BY <1>1, <1>2, <1>3, <1>4, SameIds

LEMMA ArrivalsRepair ==
  ASSUME IngestionInv, RepairInv, Arrivals
  PROVE  RepairInv'
<1>1. PICK h \in Handler :
        \/ \E l \in Lot : \E target : Snapshot(h, l, target)
        \/ \E l \in Lot : \E changes : CameraEvents(h, l, changes)
        \/ Heartbeat(h)
  BY DEF Arrivals
<1>2. ASSUME NEW l \in Lot, NEW target, Snapshot(h, l, target)
      PROVE  RepairInv'
  <2>1. PICK todo : /\ todo = <<Do("read"), Do("insert"), Find(Board), Flush(Board), Find(l),
                               Flush(l), Do("commit")>>
                    /\ Arrive(h, Transaction("snapshot", todo, l, target, {}))
    BY <1>2 DEF Snapshot
  <2> DEFINE t == Transaction("snapshot", todo, l, target, {})
  <2>2. t.todo = todo /\ t.inserted = {}
    BY DEF Transaction
  <2>3. /\ Len(todo) = 7 /\ todo[1].do = "read" /\ todo[2].do = "insert"
        /\ \A i \in 1..7 : i # 1 => todo[i].do # "read"
        /\ \A i \in 1..7 : i # 2 => todo[i].do # "insert"
    BY <2>1 DEF Do, Find, Flush
  <2>4. Arrive(h, t)
    BY <2>1
  <2> HIDE DEF t
  <2>5. Ahead(t, "read") /\ Ahead(t, "insert")
    <3>1. 1 \in 1..Len(todo) /\ 2 \in 1..Len(todo)
      BY <2>3
    <3> QED
      BY <2>2, <2>3, <3>1 DEF Ahead
  <2>6. ReadsFirst(t)
    <3>1. \A i \in 1..Len(todo) : todo[i].do = "read" => i = 1
      BY <2>3
    <3>2. \A i, j \in 1..Len(todo) : todo[i].do = "insert" /\ todo[j].do = "insert" => i = j
      BY <2>3
    <3> QED
      BY <2>2, <2>5, <3>1, <3>2 DEF ReadsFirst
  <2> QED
    BY <2>2, <2>4, <2>5, <2>6, ArriveRepair
<1>3. ASSUME NEW l \in Lot, NEW changes, CameraEvents(h, l, changes)
      PROVE  RepairInv'
  <2>1. PICK todo : Arrive(h, Transaction("camera", todo, l, 0, changes))
    BY <1>3 DEF CameraEvents
  <2> DEFINE t == Transaction("camera", todo, l, 0, changes)
  <2>2. t.kind # "snapshot" /\ t.inserted = {}
    BY DEF Transaction
  <2> HIDE DEF t
  <2> QED
    BY <2>1, <2>2, ArriveRepair DEF t
<1>4. ASSUME Heartbeat(h)
      PROVE  RepairInv'
  <2> DEFINE t == Transaction("heartbeat", HeartbeatPlan, Board, 0, {})
  <2>1. t.kind # "snapshot" /\ t.inserted = {}
    BY DEF Transaction
  <2>2. Arrive(h, t)
    BY <1>4 DEF Heartbeat
  <2> HIDE DEF t
  <2> QED
    BY <2>1, <2>2, ArriveRepair
<1> QED
  BY <1>1, <1>2, <1>3, <1>4

-----------------------------------------------------------------------------
\* What Advance makes of a transaction.
LEMMA AdvanceTo ==
  ASSUME IngestionInv, NEW h \in Handler, NEW u \in TxType, u.todo = tx[h].todo, u.todo # <<>>, Advance(h, u)
  PROVE  \E v \in TxType : /\ tx' = [tx EXCEPT ![h] = v]
                           /\ v.todo = Tail(tx[h].todo) /\ v.kind = u.kind /\ v.lot = u.lot
                           /\ v.target = u.target /\ v.changes = u.changes
                           /\ v.inserted = u.inserted /\ v.seen = u.seen
<1> DEFINE v == [u EXCEPT !.todo = Tail(u.todo)]
<1>1. Tail(u.todo) \in Seq(Statement)
  BY TailKeeps DEF TxType
<1>2. v \in TxType
  BY <1>1 DEF TxType
<1>3. /\ v.todo = Tail(tx[h].todo) /\ v.kind = u.kind /\ v.lot = u.lot
      /\ v.target = u.target /\ v.changes = u.changes
      /\ v.inserted = u.inserted /\ v.seen = u.seen
  BY DEF TxType
<1>4. tx' = [tx EXCEPT ![h] = v]
  BY DEF Advance
<1> QED
  BY <1>2, <1>3, <1>4

LEMMA ReadRepair ==
  ASSUME IngestionInv, RepairInv, NEW h \in Handler, ReadEvents(h)
  PROVE  RepairInv'
<1>1. Running(h) /\ Now(h).do = "read" /\ nextId' = nextId /\ events' = events
  BY DEF ReadEvents, Does
<1>2. PICK changes \in SUBSET Change :
        /\ Simulated(events, tx[h].lot, tx[h].target, changes)
        /\ Advance(h, [tx[h] EXCEPT !.changes = changes, !.seen = events])
  BY DEF ReadEvents
<1> DEFINE u == [tx[h] EXCEPT !.changes = changes, !.seen = events]
<1>3. tx[h] \in TxType /\ tx[h].todo # <<>> /\ Now(h) = tx[h].todo[1] /\ Len(tx[h].todo) \in Nat \ {0}
  BY <1>1, RunningTx
<1>4. events \in SUBSET Event /\ nextId \in Nat
  BY DEF IngestionInv, IngestionTypeOK
<1>5. u \in TxType /\ u.todo = tx[h].todo /\ u.kind = tx[h].kind /\ u.lot = tx[h].lot
      /\ u.target = tx[h].target /\ u.changes = changes /\ u.inserted = tx[h].inserted /\ u.seen = events
  BY <1>3, <1>4 DEF TxType
<1>6. Advance(h, u)
  BY <1>2
<1> HIDE DEF u
<1>7. PICK v \in TxType : /\ tx' = [tx EXCEPT ![h] = v]
                          /\ v.todo = Tail(tx[h].todo) /\ v.kind = u.kind /\ v.lot = u.lot
                          /\ v.target = u.target /\ v.changes = u.changes
                          /\ v.inserted = u.inserted /\ v.seen = u.seen
  BY <1>3, <1>5, <1>6, AdvanceTo
<1>8. /\ \A e \in events : e.id <= nextId
      /\ \A e \in tx[h].inserted : e.id <= nextId
      /\ Prepared(tx[h], nextId)
  BY DEF RepairInv
<1>9. Prepared(v, nextId)
  <2> SUFFICES ASSUME v.todo # <<>>, v.kind = "snapshot" PROVE ReadsFirst(v) /\ Planned(v, nextId) /\ Logged(v, nextId)
    BY DEF Prepared
  <2>1. ReadsFirst(tx[h])
    BY <1>3, <1>5, <1>7, <1>8 DEF Prepared
  <2>2. ReadsFirst(v)
    BY <1>3, <1>7, <2>1, TailAhead
  <2>3. Planned(v, nextId)
    BY <1>2, <1>5, <1>7, <1>8 DEF Planned
  <2>4. Ahead(v, "insert")
    <3>1. 1 \in 1..Len(tx[h].todo)
      BY <1>3
    <3>2. Ahead(tx[h], "read")
      BY <1>1, <1>3, <3>1 DEF Ahead
    <3>3. Ahead(tx[h], "insert")
      BY <2>1, <3>2 DEF ReadsFirst
    <3>4. Head(tx[h].todo).do # "insert"
      BY <1>1 DEF Now
    <3> QED
      BY <1>3, <1>7, <3>3, <3>4, TailAhead
  <2> QED
    BY <2>2, <2>3, <2>4 DEF Logged
<1> QED
  BY <1>1, <1>5, <1>7, <1>8, <1>9, SameIds

\* The ids that are given out follow the last one.
LEMMA NumberedIds ==
  ASSUME NEW changes \in SUBSET Change, NEW ids \in Nat, NEW inserted \in Numbered(changes, ids)
  PROVE  \A e \in inserted : e.id <= ids + Cardinality(changes)
<1>1. Cardinality(changes) \in Nat
  BY ChangesFinite
<1>2. PICK f \in [changes -> 1..Cardinality(changes)] :
        inserted = {[id |-> ids + f[c], spot |-> c.spot, occupied |-> c.occupied] : c \in changes}
  BY DEF Numbered
<1> SUFFICES ASSUME NEW c \in changes PROVE ids + f[c] <= ids + Cardinality(changes)
  BY <1>2
<1>3. f[c] \in 1..Cardinality(changes)
  BY <1>2
<1> QED
  BY <1>1, <1>3

LEMMA InsertRepair ==
  ASSUME IngestionInv, RepairInv, NEW h \in Handler, InsertEvents(h)
  PROVE  RepairInv'
<1>1. /\ Running(h) /\ Now(h).do = "insert" /\ events' = events
      /\ nextId' = nextId + Cardinality(tx[h].changes)
  BY DEF InsertEvents, Does
<1>2. PICK inserted \in Numbered(tx[h].changes, nextId) :
        Advance(h, [tx[h] EXCEPT !.inserted = inserted])
  BY DEF InsertEvents
<1> DEFINE u == [tx[h] EXCEPT !.inserted = inserted]
<1>3. tx[h] \in TxType /\ tx[h].todo # <<>>
  BY <1>1, RunningTx
<1>4. events \in SUBSET Event /\ nextId \in Nat /\ tx[h].changes \in SUBSET Change
  BY <1>3 DEF IngestionInv, IngestionTypeOK, TxType
<1>5. Cardinality(tx[h].changes) \in Nat
  BY <1>4, ChangesFinite
<1>6. nextId' \in Nat /\ nextId <= nextId'
  BY <1>1, <1>4, <1>5
<1>7. inserted \in SUBSET Event /\ \A e \in inserted : e.id <= nextId'
  BY <1>1, <1>4, NumberedEvents, NumberedIds
<1>8. u \in TxType /\ u.todo = tx[h].todo /\ u.kind = tx[h].kind /\ u.lot = tx[h].lot
      /\ u.target = tx[h].target /\ u.changes = tx[h].changes /\ u.inserted = inserted /\ u.seen = tx[h].seen
  BY <1>3, <1>7 DEF TxType
<1>9. Advance(h, u)
  BY <1>2
<1> HIDE DEF u
<1>10. PICK v \in TxType : /\ tx' = [tx EXCEPT ![h] = v]
                           /\ v.todo = Tail(tx[h].todo) /\ v.kind = u.kind /\ v.lot = u.lot
                           /\ v.target = u.target /\ v.changes = u.changes
                           /\ v.inserted = u.inserted /\ v.seen = u.seen
  BY <1>3, <1>8, <1>9, AdvanceTo
<1>11. /\ \A e \in events : e.id <= nextId
       /\ Prepared(tx[h], nextId)
  BY DEF RepairInv
<1>12. Prepared(v, nextId')
  <2> SUFFICES ASSUME v.todo # <<>>, v.kind = "snapshot" PROVE ReadsFirst(v) /\ Planned(v, nextId') /\ Logged(v, nextId')
    BY DEF Prepared
  <2>1. ReadsFirst(tx[h]) /\ Planned(tx[h], nextId)
    BY <1>3, <1>8, <1>10, <1>11 DEF Prepared
  <2>2. ReadsFirst(v) /\ ~Ahead(tx[h], "read")
    BY <1>1, <1>3, <1>10, <2>1, TailAhead DEF Now
  <2>3. Simulated(v.seen, v.lot, v.target, v.changes) /\ \A e \in v.seen : e.id <= nextId
    BY <1>8, <1>10, <2>1, <2>2 DEF Planned
  <2>4. \A e \in v.seen : e.id \in Nat
    BY DEF TxType, Event
  <2>5. Planned(v, nextId')
    BY <1>4, <1>6, <2>3, <2>4 DEF Planned
  <2>6. nextId \in 0..nextId'
    BY <1>4, <1>6
  <2>7. Logged(v, nextId')
    BY <1>2, <1>8, <1>10, <2>3, <2>6 DEF Logged
  <2> QED
    BY <2>2, <2>5, <2>7
<1>13. \A e \in events' : e.id <= nextId'
  <2>1. \A e \in events : e.id \in Nat
    BY <1>4 DEF Event
  <2> QED
    BY <1>1, <1>4, <1>6, <1>11, <2>1
<1> QED
  BY <1>6, <1>7, <1>8, <1>10, <1>12, <1>13, OwnRepair

\* Statements that neither read nor insert events.
LEMMA DeviceRepair ==
  ASSUME IngestionInv, RepairInv, NEW h \in Handler, FindDevice(h) \/ FlushDevice(h)
  PROVE  RepairInv'
<1>1. /\ Running(h) /\ Now(h).do \in {"find", "flush"} /\ events' = events /\ nextId' = nextId
  BY DEF FindDevice, FlushDevice, Does
<1>2. tx[h] \in TxType /\ tx[h].todo # <<>> /\ Now(h) \in Statement
  BY <1>1, RunningTx
<1>3. PICK u \in TxType : /\ Advance(h, u) /\ u.todo = tx[h].todo /\ u.kind = tx[h].kind /\ u.lot = tx[h].lot
                          /\ u.target = tx[h].target /\ u.changes = tx[h].changes
                          /\ u.inserted = tx[h].inserted /\ u.seen = tx[h].seen
  <2>1. CASE FlushDevice(h)
    <3>1. Advance(h, tx[h])
      BY <2>1 DEF FlushDevice
    <3> QED
      BY <1>2, <3>1
  <2>2. CASE FindDevice(h)
    <3> DEFINE missing == tx[h].missing \cup ({Now(h).device} \ rows)
               u == [tx[h] EXCEPT !.missing = missing]
    <3>1. Advance(h, u)
      BY <2>2 DEF FindDevice
    <3>2. missing \in SUBSET Device
      BY <1>2 DEF TxType, Statement
    <3> HIDE DEF missing
    <3>3. u \in TxType /\ u.todo = tx[h].todo /\ u.kind = tx[h].kind /\ u.lot = tx[h].lot
          /\ u.target = tx[h].target /\ u.changes = tx[h].changes
          /\ u.inserted = tx[h].inserted /\ u.seen = tx[h].seen
      BY <1>2, <3>2 DEF TxType
    <3> HIDE DEF u
    <3> QED
      BY <3>1, <3>3
  <2> QED
    BY <2>1, <2>2
<1>4. PICK v \in TxType : /\ tx' = [tx EXCEPT ![h] = v]
                          /\ v.todo = Tail(tx[h].todo) /\ v.kind = u.kind /\ v.lot = u.lot
                          /\ v.target = u.target /\ v.changes = u.changes
                          /\ v.inserted = u.inserted /\ v.seen = u.seen
  BY <1>2, <1>3, AdvanceTo
<1>5. /\ \A e \in events : e.id <= nextId
      /\ \A e \in tx[h].inserted : e.id <= nextId
      /\ Prepared(tx[h], nextId)
  BY DEF RepairInv
<1>6. Prepared(v, nextId)
  <2> SUFFICES ASSUME v.todo # <<>>, v.kind = "snapshot" PROVE ReadsFirst(v) /\ Planned(v, nextId) /\ Logged(v, nextId)
    BY DEF Prepared
  <2>1. ReadsFirst(tx[h]) /\ Planned(tx[h], nextId) /\ Logged(tx[h], nextId)
    BY <1>2, <1>3, <1>4, <1>5 DEF Prepared
  <2>2. Head(tx[h].todo).do # "read" /\ Head(tx[h].todo).do # "insert"
    BY <1>1 DEF Now
  <2>3. /\ Ahead(v, "read") <=> Ahead(tx[h], "read")
        /\ Ahead(v, "insert") <=> Ahead(tx[h], "insert")
        /\ ReadsFirst(v)
    BY <1>2, <1>4, <2>1, <2>2, TailAhead
  <2> QED
    BY <1>3, <1>4, <2>1, <2>3 DEF Planned, Logged
<1>7. nextId \in Nat
  BY DEF IngestionInv, IngestionTypeOK
<1> QED
  BY <1>1, <1>3, <1>4, <1>5, <1>6, SameIds

\* The transaction is over; what it inserted is committed or gone.
LEMMA EndRepair ==
  ASSUME IngestionInv, RepairInv, NEW h \in Handler, End(h), nextId' = nextId,
         events' \subseteq events \cup tx[h].inserted
  PROVE  RepairInv'
<1>1. tx' = [tx EXCEPT ![h] = NoTransaction]
  BY DEF End
<1>2. NoTransaction.inserted = {} /\ NoTransaction.todo = <<>>
  BY DEF NoTransaction, Transaction
<1>3. Prepared(NoTransaction, nextId)
  BY <1>2 DEF Prepared
<1>4. nextId \in Nat
  BY DEF IngestionInv, IngestionTypeOK
<1>5. \A e \in events' : e.id <= nextId
  BY DEF RepairInv
<1> QED
  BY <1>1, <1>2, <1>3, <1>5, SameIds

LEMMA RepairStep == IngestionInv /\ RepairInv /\ [Next]_vars => RepairInv'
<1> SUFFICES ASSUME IngestionInv, RepairInv, [Next]_vars PROVE RepairInv'
  OBVIOUS
<1>1. CASE Crash
  <2>1. \A h \in Handler : tx'[h] = NoTransaction
    BY <1>1 DEF Crash
  <2>2. NoTransaction.inserted = {} /\ NoTransaction.todo = <<>>
    BY DEF NoTransaction, Transaction
  <2>3. nextId' = nextId /\ events' = events
    BY <1>1 DEF Crash
  <2> QED
    BY <2>1, <2>2, <2>3 DEF RepairInv, Prepared
<1>2. ASSUME NEW h \in Handler, Step(h) \/ Fails(h) PROVE RepairInv'
  <2>1. CASE ReadEvents(h)
    BY <2>1, ReadRepair
  <2>2. CASE InsertEvents(h)
    BY <2>2, InsertRepair
  <2>3. CASE FindDevice(h) \/ FlushDevice(h)
    BY <2>3, DeviceRepair
  <2>4. CASE InsertClashes(h) \/ DeadlockVictim(h) \/ Fails(h)
    <3>1. End(h) /\ nextId' = nextId /\ events' = events
      BY <2>4 DEF InsertClashes, DeadlockVictim, Fails, RolledBack
    <3> QED
      BY <3>1, EndRepair
  <2>5. CASE Commit(h)
    <3>1. End(h) /\ nextId' = nextId /\ events' = events \cup tx[h].inserted
      BY <2>5 DEF Commit
    <3> QED
      BY <3>1, EndRepair
  <2> QED
    BY <1>2, <2>1, <2>2, <2>3, <2>4, <2>5 DEF Step
<1>3. CASE UNCHANGED vars
  BY <1>3 DEF vars, RepairInv
<1> QED
  BY <1>1, <1>2, <1>3, ArrivalsRepair DEF Next

-----------------------------------------------------------------------------
\* No spot changes twice.
OnePerSpot(changes) == \A c, d \in changes : c.spot = d.spot => c = d

\* The rows that were inserted for the changes decide what their spots show.
Decides(rws, changes, inserted, l) ==
  \A s \in Spot : s \in OccupiedIn(rws \cup inserted, l)
    <=> /\ LotOf[s] = l
        /\ \/ \E c \in changes : c.spot = s /\ c.occupied
           \/ s \in OccupiedIn(rws, l) /\ \A c \in changes : c.spot # s

\* The spots S become occupied, or free.
To(S, occ) == {[spot |-> s, occupied |-> occ] : s \in S}

LEMMA ToFacts ==
  ASSUME NEW S \in SUBSET Spot, NEW occ \in BOOLEAN, NEW changes, changes = To(S, occ)
  PROVE  /\ changes \in SUBSET Change /\ OnePerSpot(changes)
         /\ \A c \in changes : c.spot \in S /\ (c.occupied <=> occ)
         /\ \A s \in S : \E c \in changes : c.spot = s
<1>1. changes \in SUBSET Change
  BY DEF To, Change
<1>2. OnePerSpot(changes)
  BY DEF To, OnePerSpot
<1>3. \A c \in changes : c.spot \in S /\ (c.occupied <=> occ)
  BY DEF To
<1>4. ASSUME NEW s \in S PROVE \E c \in changes : c.spot = s
  <2>1. [spot |-> s, occupied |-> occ] \in changes
    BY DEF To
  <2> QED
    BY <2>1
<1> QED
  BY <1>1, <1>2, <1>3, <1>4

\* Rows inserted above all ids decide what their spots show, and no other spots.
LEMMA LatestAfter ==
  ASSUME NEW rws \in SUBSET Event, NEW changes \in SUBSET Change, OnePerSpot(changes),
         NEW first \in Nat, \A e \in rws : e.id <= first,
         NEW inserted \in Numbered(changes, first), NEW l
  PROVE  Decides(rws, changes, inserted, l)
<1> DEFINE after == rws \cup inserted
<1>1. Cardinality(changes) \in Nat
  BY ChangesFinite
<1>2. PICK f \in [changes -> 1..Cardinality(changes)] :
        inserted = {[id |-> first + f[c], spot |-> c.spot, occupied |-> c.occupied] : c \in changes}
  BY DEF Numbered
<1>3. \A e \in rws : e.id \in Nat
  BY DEF Event
<1>4. ASSUME NEW c \in changes
      PROVE  \E e \in inserted : /\ e.spot = c.spot /\ e.occupied = c.occupied
                                 /\ e.id \in Nat /\ first < e.id
                                 /\ \A g \in inserted : g.spot = c.spot => g = e
  <2> DEFINE e == [id |-> first + f[c], spot |-> c.spot, occupied |-> c.occupied]
  <2>1. f[c] \in 1..Cardinality(changes)
    BY <1>2
  <2>2. e \in inserted
    BY <1>2
  <2>3. e.spot = c.spot /\ e.occupied = c.occupied /\ e.id = first + f[c]
    OBVIOUS
  <2>4. e.id \in Nat /\ first < e.id
    BY <1>1, <2>1, <2>3
  <2>5. ASSUME NEW g \in inserted, g.spot = c.spot PROVE g = e
    <3>1. PICK d \in changes : g = [id |-> first + f[d], spot |-> d.spot, occupied |-> d.occupied]
      BY <1>2
    <3>2. d = c
      BY <2>5, <3>1 DEF OnePerSpot
    <3> QED
      BY <3>1, <3>2
  <2> HIDE DEF e
  <2> QED
    BY <2>2, <2>3, <2>4, <2>5
<1>5. ASSUME NEW g \in inserted PROVE \E c \in changes : c.spot = g.spot
  BY <1>2
<1> HIDE DEF after
<1>6. ASSUME NEW c \in changes
      PROVE  (\E e \in LatestIn(after, c.spot) : e.occupied) <=> c.occupied
  <2>1. PICK e \in inserted : /\ e.spot = c.spot /\ e.occupied = c.occupied
                              /\ e.id \in Nat /\ first < e.id
                              /\ \A g \in inserted : g.spot = c.spot => g = e
    BY <1>4
  <2>2. ASSUME NEW g \in after, g.spot = c.spot
        PROVE  g.id \in Nat /\ g.id <= e.id /\ (g # e => g.id < e.id)
    <3>1. CASE g \in inserted
      BY <2>1, <2>2, <3>1
    <3>2. CASE g \in rws
      BY <1>3, <2>1, <3>2
    <3> QED
      BY <3>1, <3>2 DEF after
  <2>3. e \in LatestIn(after, c.spot)
    BY <2>1, <2>2 DEF LatestIn, after
  <2>4. ASSUME NEW g \in LatestIn(after, c.spot) PROVE g = e
    <3>1. g \in after /\ g.spot = c.spot /\ e.id <= g.id
      BY <2>1 DEF LatestIn, after
    <3> QED
      BY <2>1, <2>2, <3>1
  <2> QED
    BY <2>1, <2>3, <2>4
<1>7. ASSUME NEW s \in Spot, \A c \in changes : c.spot # s
      PROVE  LatestIn(after, s) = LatestIn(rws, s)
  <2>1. \A g \in inserted : g.spot # s
    BY <1>5, <1>7
  <2> QED
    BY <2>1 DEF LatestIn, after
<1>8. ASSUME NEW s \in Spot
      PROVE  (\E e \in LatestIn(after, s) : e.occupied)
               <=> \/ \E c \in changes : c.spot = s /\ c.occupied
                   \/ /\ \E e \in LatestIn(rws, s) : e.occupied
                      /\ \A c \in changes : c.spot # s
  <2>1. CASE \A c \in changes : c.spot # s
    BY <1>7, <2>1
  <2>2. CASE \E c \in changes : c.spot = s
    <3>1. PICK c \in changes : c.spot = s
      BY <2>2
    <3>2. (\E e \in LatestIn(after, s) : e.occupied) <=> c.occupied
      BY <1>6, <3>1
    <3> QED
      BY <3>1, <3>2 DEF OnePerSpot
  <2> QED
    BY <2>1, <2>2
<1> QED
  BY <1>8 DEF Decides, OccupiedIn, after

\* With one row per change above the ids it was simulated over, the lot shows what
\* the snapshot counted, or all spots that are listed.
LEMMA RepairFollows ==
  ASSUME NEW rws \in SUBSET Event, NEW l \in Lot, NEW target \in Nat, NEW changes,
         Simulated(rws, l, target, changes),
         NEW first \in Nat, \A e \in rws : e.id <= first, NEW inserted \in Numbered(changes, first)
  PROVE  LET after == OccupiedIn(rws \cup inserted, l)
         IN  \/ Cardinality(after) = target
             \/ Cardinality(after) < target /\ {s \in Listed : LotOf[s] = l} \subseteq after
<1> DEFINE occupied == OccupiedIn(rws, l)
           listed == {s \in Listed : LotOf[s] = l}
           available == listed \ occupied
           now == Cardinality(occupied)
           after == OccupiedIn(rws \cup inserted, l)
<1>1. /\ occupied \in SUBSET Spot /\ \A s \in occupied : LotOf[s] = l
      /\ listed \in SUBSET Spot /\ \A s \in listed : LotOf[s] = l
  BY IngestionAssumption DEF OccupiedIn
<1>2. /\ IsFiniteSet(occupied) /\ now \in Nat
      /\ \A S \in SUBSET Spot : IsFiniteSet(S) /\ Cardinality(S) \in Nat
  <2> HIDE DEF occupied
  <2> QED
    BY <1>1, IngestionAssumption, FS_Subset, FS_CardinalityType
<1>3. \/ \E S \in SUBSET available :
           /\ changes = To(S, TRUE)
           /\ Cardinality(S) = target - now \/ (S = available /\ Cardinality(S) < target - now)
      \/ \E S \in SUBSET occupied : changes = To(S, FALSE) /\ Cardinality(S) = now - target
      \/ now = target /\ changes = {}
  BY Zenon DEF Simulated, To
<1>4. ASSUME changes \in SUBSET Change, OnePerSpot(changes)
      PROVE  Decides(rws, changes, inserted, l)
  BY <1>4, LatestAfter
<1>5. after \subseteq Spot
  BY DEF OccupiedIn
<1>6. ASSUME NEW S \in SUBSET Spot, NEW occ \in BOOLEAN, changes = To(S, occ), \A s \in S : LotOf[s] = l
      PROVE  after = IF occ THEN occupied \cup S ELSE occupied \ S
  <2>1. /\ changes \in SUBSET Change /\ OnePerSpot(changes)
        /\ \A c \in changes : c.spot \in S /\ (c.occupied <=> occ)
        /\ \A s \in S : \E c \in changes : c.spot = s
    BY <1>6, ToFacts
  <2>2. \A s \in Spot : s \in after <=> /\ LotOf[s] = l
                                        /\ \/ \E c \in changes : c.spot = s /\ c.occupied
                                           \/ s \in occupied /\ \A c \in changes : c.spot # s
    BY <1>4, <2>1 DEF Decides
  <2> HIDE DEF after, occupied
  <2>3. \A s \in Spot : s \in after <=> (s \in S /\ occ) \/ (s \in occupied /\ s \notin S)
    BY <1>1, <1>6, <2>1, <2>2
  <2> QED
    BY <1>1, <1>5, <2>3
<1> HIDE DEF occupied, listed, now, after
<1>7. ASSUME NEW S \in SUBSET available, changes = To(S, TRUE),
             Cardinality(S) = target - now \/ (S = available /\ Cardinality(S) < target - now)
      PROVE  Cardinality(after) = target \/ (Cardinality(after) < target /\ listed \subseteq after)
  <2>1. S \in SUBSET Spot /\ \A s \in S : LotOf[s] = l
    BY <1>1
  <2>2. after = occupied \cup S /\ occupied \cap S = {}
    <3>1. PICK occ \in BOOLEAN : occ = TRUE
      OBVIOUS
    <3>2. changes = To(S, occ)
      BY <1>7, <3>1
    <3> QED
      BY <1>6, <2>1, <3>1, <3>2
  <2>3. Cardinality(occupied \cup S) = now + Cardinality(S) - Cardinality(occupied \cap S)
    BY <1>2, <2>1, FS_Union DEF now
  <2>4. Cardinality(occupied \cap S) = 0
    BY <2>2, FS_EmptySet
  <2> DEFINE n == Cardinality(S)
             m == Cardinality(after)
             z == Cardinality(occupied \cap S)
  <2>5. m = now + n - z /\ z = 0 /\ n \in Nat
    BY <1>2, <2>1, <2>2, <2>3, <2>4
  <2>6. n = target - now \/ (S = available /\ n < target - now)
    BY <1>7
  <2> HIDE DEF n, m, z
  <2>7. m = target \/ (S = available /\ m < target)
    BY <1>2, <2>5, <2>6
  <2>8. S = available => listed \subseteq after
    BY <2>2
  <2> QED
    BY <2>7, <2>8 DEF m
<1>8. ASSUME NEW S \in SUBSET occupied, changes = To(S, FALSE), Cardinality(S) = now - target
      PROVE  Cardinality(after) = target
  <2>1. S \in SUBSET Spot
    BY <1>1
  <2>2. after = occupied \ S /\ occupied \cap S = S
    <3>1. PICK occ \in BOOLEAN : occ = FALSE
      OBVIOUS
    <3>2. changes = To(S, occ) /\ \A s \in S : LotOf[s] = l
      BY <1>1, <1>8, <3>1
    <3> QED
      BY <1>6, <2>1, <3>1, <3>2
  <2>3. Cardinality(occupied \ S) = now - Cardinality(occupied \cap S)
    BY <1>2, FS_Difference DEF now
  <2>4. Cardinality(after) = now - Cardinality(S)
    BY <2>2, <2>3
  <2> QED
    BY <1>2, <1>8, <2>4
<1>9. ASSUME now = target, changes = {}
      PROVE  Cardinality(after) = target
  <2>1. changes \in SUBSET Change /\ OnePerSpot(changes)
    BY <1>9 DEF OnePerSpot
  <2>2. after = occupied
    <3>1. \A s \in Spot : s \in after <=> LotOf[s] = l /\ s \in occupied
      BY <1>4, <1>9, <2>1 DEF Decides, after, occupied
    <3> QED
      BY <1>1, <1>5, <3>1
  <2> QED
    BY <1>9, <2>2 DEF now
<1>10. Cardinality(after) = target \/ (Cardinality(after) < target /\ listed \subseteq after)
  <2> HIDE DEF available
  <2> QED
    BY <1>3, <1>7, <1>8, <1>9
<1> QED
  BY <1>10 DEF listed, after

\* The commit of a snapshot that nobody overtook is such a repair.
LEMMA CommitRepairs ==
  ASSUME IngestionInv, RepairInv, NEW h \in Handler, NEW l \in Lot, NotOvertaken(h, l), Commit(h)
  PROVE  Repaired(h, l)
<1> DEFINE t == tx[h]
<1>1. /\ t \in TxType /\ TxOK(t, rows) /\ t.todo # <<>> /\ t.todo[1].do = "commit"
      /\ Len(t.todo) \in Nat \ {0}
  BY RunningTx DEF Commit, Does
<1>2. t.kind = "snapshot" /\ t.lot = l /\ t.seen = events /\ events' = events \cup t.inserted
  BY DEF NotOvertaken, Commit
<1>3. Prepared(t, nextId)
  BY DEF RepairInv
<1> HIDE DEF t
<1>4. Len(t.todo) = 1
  <2>1. 1 \in 1..Len(t.todo)
    BY <1>1
  <2> QED
    BY <1>1, <2>1 DEF TxOK
<1>5. ~Ahead(t, "read") /\ ~Ahead(t, "insert")
  BY <1>1, <1>4 DEF Ahead
<1>6. Simulated(events, l, t.target, t.changes)
  BY <1>1, <1>2, <1>3, <1>5 DEF Prepared, Planned
<1>7. PICK first \in Nat : t.inserted \in Numbered(t.changes, first) /\ \A e \in events : e.id <= first
  BY <1>1, <1>2, <1>3, <1>5 DEF Prepared, Logged
<1>8. events \in SUBSET Event /\ t.target \in Nat
  BY <1>1 DEF IngestionInv, IngestionTypeOK, TxType
<1>9. LET after == OccupiedIn(events \cup t.inserted, l)
      IN  \/ Cardinality(after) = t.target
          \/ Cardinality(after) < t.target /\ {s \in Listed : LotOf[s] = l} \subseteq after
  BY <1>6, <1>7, <1>8, RepairFollows
<1>10. OccupiedIn(events, l)' = OccupiedIn(events \cup t.inserted, l)
  BY <1>2 DEF OccupiedIn, LatestIn
<1> QED
  BY <1>9, <1>10 DEF Repaired, Counted, t

\* After a snapshot that nobody overtook, the log shows as many occupied spots of
\* its lot as the camera counted, or all that the server lists.
THEOREM SnapshotsRepair == Spec => SnapshotRepairs
<1>1. Init => RepairInv
  <2>1. NoTransaction.inserted = {} /\ NoTransaction.todo = <<>>
    BY DEF NoTransaction, Transaction
  <2> QED
    BY <2>1 DEF Init, RepairInv, Prepared
<1>2. IngestionInv /\ RepairInv /\ [Next]_vars
        => [\A h \in Handler, l \in Lot : NotOvertaken(h, l) /\ Commit(h) => Repaired(h, l)]_vars
  BY CommitRepairs
<1> QED
  BY InitOK, StepOK, RepairStep, <1>1, <1>2, PTL DEF Spec, SnapshotRepairs
=============================================================================
