----------------------- MODULE ParkingAnalyticsProofs -----------------------
(***************************************************************************)
(* Proofs about the read side of parking, for any spots, lots and cameras, *)
(* any limits and any windows: the type; that the health page hangs on the *)
(* board; that heatmap and dwell time tell how long spots were parked on;  *)
(* and that readers by id, by time and by snapshot agree.                  *)
(***************************************************************************)
EXTENDS ParkingAnalytics, FunctionTheorems, FiniteSetTheorems, WellFoundedInduction,
        SequenceTheorems, TLAPS

\* Nothing is stamped in the future.
Past ==
  /\ \A d \in Device : devices[d].seen <= now
  /\ \A c \in Camera : playlist[c] <= now
  /\ \A e \in log : e.at <= now
  /\ \A sn \in snapshots : sn.at <= now

\* Every id is drawn once.
Drawn ==
  /\ IsFiniteSet(log) /\ IsFiniteSet(snapshots)
  /\ \A e \in log : e.id <= drawn
  /\ \A e, f \in log : e.id = f.id => e = f

\* An event came with a snapshot of its lot.
Accompanied == \A e \in log : \E sn \in snapshots : sn.lot = LotOf[e.spot] /\ sn.at = e.at

AnalyticsInv == AnalyticsTypeOK /\ Past /\ Drawn /\ Accompanied

-----------------------------------------------------------------------------
(***************************************************************************)
(* Induction over a number or a finite set, without an operator as         *)
(* parameter: a set of naturals has a least element, a finite set is       *)
(* reached from the empty one.                                             *)
(***************************************************************************)
\* The naturals are well-founded (WFMin), so a set of them has a least element.
LEMMA LeastElement ==
  ASSUME NEW S \in SUBSET Nat, S # {}
  PROVE  \E m \in S : \A n \in S : m <= n
<1> DEFINE less == {ss \in Nat \X Nat : ss[1] < ss[2]}
<1>1. IsWellFoundedOn(less, Nat)
  BY NatLessThanWellFounded DEF OpToRel
<1>2. \E m \in S : \A n \in S : ~(<<n, m>> \in less)
  <2> HIDE DEF less
  <2> QED
    BY <1>1, WFMin
<1>3. PICK m \in S : \A n \in S : ~(n < m)
  BY <1>2
<1>4. \A n \in S : m <= n
  BY <1>3
<1> QED
  BY <1>4

\* A set of subsets of S that has the empty set, and with s \ {x} for some x of s
\* has s, has S: how a fold over S is reasoned about.
LEMMA SubsetInduction ==
  ASSUME NEW S, IsFiniteSet(S), NEW G, {} \in G,
         \A s \in SUBSET S : s # {} => \E x \in s : s \ {x} \in G => s \in G
  PROVE  S \in G
<1> DEFINE bad == {s \in SUBSET S : s \notin G}
           sizes == {Cardinality(s) : s \in bad}
<1>1. SUFFICES ASSUME bad # {} PROVE FALSE
  OBVIOUS
<1>2. \A s \in SUBSET S : IsFiniteSet(s) /\ Cardinality(s) \in Nat
  BY FS_Subset, FS_CardinalityType
<1>3. sizes \in SUBSET Nat /\ sizes # {}
  BY <1>1, <1>2
<1>4. PICK n \in sizes : \A k \in sizes : n <= k
  <2> HIDE DEF sizes
  <2> QED
    BY <1>3, LeastElement
<1>5. PICK s \in bad : n = Cardinality(s)
  BY <1>4
<1>6. PICK x \in s : s \ {x} \in G => s \in G
  BY <1>5
<1>7. s \ {x} \in bad
  BY <1>5, <1>6
<1>8. Cardinality(s \ {x}) = n - 1
  BY <1>2, <1>5, <1>6, FS_RemoveElement
<1>9. Cardinality(s \ {x}) \in sizes
  BY <1>7
<1> HIDE DEF sizes
<1>10. n \in Nat /\ n <= n - 1
  BY <1>3, <1>4, <1>8, <1>9
<1> QED
  BY <1>10

\* A set of integers that is bounded from above has a greatest element.
LEMMA GreatestElement ==
  ASSUME NEW S \in SUBSET Int, S # {}, NEW bound \in Int, \A x \in S : x <= bound
  PROVE  \E m \in S : \A x \in S : x <= m
<1> DEFINE gaps == {bound - x : x \in S}
<1>1. gaps \in SUBSET Nat /\ gaps # {}
  <2>1. \A x \in S : bound - x \in Nat
    OBVIOUS
  <2> QED
    BY <2>1
<1>2. PICK g \in gaps : \A h \in gaps : g <= h
  <2> HIDE DEF gaps
  <2> QED
    BY <1>1, LeastElement
<1>3. PICK m \in S : g = bound - m
  BY <1>2
<1>4. \A x \in S : bound - x \in gaps
  OBVIOUS
<1> HIDE DEF gaps
<1>5. \A x \in S : bound - m <= bound - x
  BY <1>2, <1>3, <1>4
<1> QED
  BY <1>5

-----------------------------------------------------------------------------
(***************************************************************************)
(* The invariant.                                                          *)
(***************************************************************************)
\* SetToSeq lists the members of a finite set.
LEMMA SequenceOfSet ==
  ASSUME NEW S, IsFiniteSet(S)
  PROVE  SetToSeq(S) \in Seq(S)
<1> DEFINE n == Cardinality(S)
           Lists(f) == f \in [1..n -> S] /\ IsInjective(f)
           q == CHOOSE f : Lists(f)
<1>1. n \in Nat /\ ExistsBijection(1..n, S)
  BY FS_CardinalityType
<1>2. PICK f : f \in Bijection(1..n, S)
  BY <1>1 DEF ExistsBijection
<1>3. Lists(f)
  BY <1>2 DEF Bijection, Injection
<1>4. SetToSeq(S) = q
  BY DEF SetToSeq
<1>5. Lists(q)
  <2> HIDE DEF Lists
  <2> QED
    BY <1>3
<1> HIDE DEF q, n
<1>6. q \in Seq(S)
  BY <1>1, <1>5
<1> QED
  BY <1>4, <1>6

LEMMA RowTypes ==
  ASSUME AnalyticsTypeOK
  PROVE  /\ now \in Int /\ 0 <= now /\ now <= Horizon /\ Tick \subseteq Nat
         /\ \A e \in log : /\ e.id \in Nat /\ e.spot \in Spot /\ e.spot \in Nat
                           /\ e.occupied \in BOOLEAN /\ e.at \in Tick /\ e.at \in Int /\ 0 <= e.at
         /\ \A sn \in snapshots : /\ sn.lot \in Lot /\ sn.occupied \in Count /\ sn.occupied \in Nat
                                  /\ sn.at \in Tick /\ sn.at \in Int /\ 0 <= sn.at
<1>1. /\ now \in Int /\ 0 <= now /\ now <= Horizon /\ Tick \subseteq Nat
  BY AnalyticsAssumption DEF AnalyticsTypeOK, Tick
<1>2. \A e \in log : e \in Event
  BY DEF AnalyticsTypeOK
<1>3. \A sn \in snapshots : sn \in Snapshot
  BY DEF AnalyticsTypeOK
<1>4. Spot \subseteq Nat /\ Count \subseteq Nat
  BY AnalyticsAssumption
<1>5. \A e \in log : /\ e.id \in Nat /\ e.spot \in Spot /\ e.occupied \in BOOLEAN /\ e.at \in Tick
  BY <1>2 DEF Event
<1>6. \A sn \in snapshots : sn.lot \in Lot /\ sn.occupied \in Count /\ sn.at \in Tick
  BY <1>3 DEF Snapshot
<1>7. \A t \in Tick : t \in Int /\ 0 <= t
  BY AnalyticsAssumption DEF Tick
<1>8. \A e \in log : e.spot \in Nat /\ e.at \in Int /\ 0 <= e.at
  BY <1>4, <1>5, <1>7
<1>9. \A sn \in snapshots : sn.occupied \in Nat /\ sn.at \in Int /\ 0 <= sn.at
  BY <1>4, <1>6, <1>7
<1> QED
  BY <1>1, <1>5, <1>6, <1>8, <1>9

LEMMA InitOK == Init => AnalyticsInv
<1> SUFFICES ASSUME Init PROVE AnalyticsInv
  OBVIOUS
<1>1. log = {} /\ snapshots = {} /\ IsFiniteSet({})
  BY FS_EmptySet DEF Init
<1>2. Missing \in Row /\ Missing.seen <= 0 /\ Never \in Tick \cup {Never} /\ Never <= 0
  BY DEF Missing, Row, Status, Never
<1>3. 0 \in Tick /\ 0 \in 0..MaxWrites /\ drawn = 0
  BY AnalyticsAssumption DEF Tick, Init
<1>4. AnalyticsTypeOK
  BY <1>1, <1>2, <1>3 DEF Init, AnalyticsTypeOK
<1>5. Past
  BY <1>1, <1>2 DEF Init, Past
<1>6. Drawn /\ Accompanied
  BY <1>1 DEF Drawn, Accompanied
<1> QED
  BY <1>4, <1>5, <1>6 DEF AnalyticsInv

\* Steps that write no row of the two tables.
LEMMA TablesKept ==
  ASSUME AnalyticsInv, log' = log, snapshots' = snapshots, drawn' = drawn
  PROVE  Drawn' /\ Accompanied'
<1>1. Drawn /\ Accompanied
  BY DEF AnalyticsInv
<1>2. Drawn'
  BY <1>1 DEF Drawn
<1>3. Accompanied'
  BY <1>1 DEF Accompanied
<1> QED
  BY <1>2, <1>3

LEMMA HeartbeatOK ==
  ASSUME AnalyticsInv, NEW status \in [Device -> Status], Heartbeat(status)
  PROVE  AnalyticsInv'
<1> USE DEF AnalyticsInv
<1>1. devices' \in [Device -> Row]
  BY DEF Heartbeat, Row, AnalyticsTypeOK
<1>2. AnalyticsTypeOK'
  BY <1>1, AnalyticsAssumption DEF Heartbeat, Write, AnalyticsTypeOK
<1>3. Past'
  BY DEF Heartbeat, Past, AnalyticsTypeOK, Tick
<1> QED
  BY <1>2, <1>3, TablesKept DEF Heartbeat

LEMMA StreamOK == ASSUME AnalyticsInv, NEW c \in Camera, Stream(c) PROVE AnalyticsInv'
<1> USE DEF AnalyticsInv
<1>1. AnalyticsTypeOK'
  BY AnalyticsAssumption DEF Stream, Write, AnalyticsTypeOK
<1>2. Past'
  BY DEF Stream, Past, AnalyticsTypeOK, Tick
<1> QED
  BY <1>1, <1>2, TablesKept DEF Stream

LEMMA PassOK == ASSUME AnalyticsInv, Pass PROVE AnalyticsInv'
<1> USE DEF AnalyticsInv
<1>1. now \in Int /\ now' = now + 1 /\ now' \in Tick
  BY AnalyticsAssumption DEF Pass, AnalyticsTypeOK, Tick
<1>2. AnalyticsTypeOK'
  BY <1>1 DEF Pass, AnalyticsTypeOK
<1>3. \A x \in Tick \cup {Never} : x <= now => x <= now'
  BY <1>1 DEF Tick, Never
<1>4. Past'
  <2>1. \A d \in Device : devices[d].seen \in Tick \cup {Never}
    BY DEF AnalyticsTypeOK, Row
  <2> QED
    BY <1>3, <2>1, RowTypes DEF Pass, Past, AnalyticsTypeOK
<1> QED
  BY <1>2, <1>4, TablesKept DEF Pass

LEMMA ReportOK ==
  ASSUME AnalyticsInv, NEW l \in Lot, NEW count \in Count, NEW at \in (now - Delay)..now,
         NEW events \in Seq([spot : SpotsOf(l), occupied : BOOLEAN]), Report(l, count, events, at)
  PROVE  AnalyticsInv'
<1> DEFINE n == Len(events)
           new(k) == [id |-> drawn + k, spot |-> events[k].spot, occupied |-> events[k].occupied, at |-> at]
           News == {new(k) : k \in 1..n}
           shot == [id |-> drawn', lot |-> l, occupied |-> count, at |-> at]
<1> USE DEF AnalyticsInv
<1>1. n \in Nat /\ drawn \in Nat /\ drawn' = drawn + n + 1 /\ drawn' \in Nat
  BY LenProperties DEF Report, AnalyticsTypeOK
<1>2. log' = log \cup News /\ snapshots' = snapshots \cup {shot}
  BY DEF Report
<1>3. at \in Tick /\ at <= now /\ now' = now /\ playlist' = playlist
  BY RowTypes, AnalyticsAssumption DEF Report, Tick
<1>4. \A k \in 1..n : /\ events[k].spot \in Spot /\ LotOf[events[k].spot] = l
                      /\ events[k].occupied \in BOOLEAN
  <2>1. \A k \in 1..n : events[k] \in [spot : SpotsOf(l), occupied : BOOLEAN]
    BY ElementOfSeq
  <2> QED
    BY <2>1 DEF SpotsOf
<1>5. \A k \in 1..n : new(k) \in Event
  BY <1>1, <1>3, <1>4 DEF Event
<1>6. shot \in Snapshot
  BY <1>1, <1>3 DEF Snapshot
<1>7. writes' \in 0..MaxWrites
  <2> DEFINE m == Max({1, n})
  <2>1. \E x \in {1, n} : \A y \in {1, n} : x >= y
    BY <1>1
  <2>2. m \in {1, n}
    BY <2>1 DEF Max
  <2>3. m \in Nat
    BY <1>1, <2>2
  <2>4. writes + m <= MaxWrites /\ writes' = writes + m
    BY DEF Report, Write
  <2> HIDE DEF m
  <2> QED
    BY <2>3, <2>4, AnalyticsAssumption DEF AnalyticsTypeOK
<1>8. /\ devices' \in [Device -> Row]
      /\ \A d \in Device : devices'[d].seen <= now
  <2>1. devices' = [d \in Device |-> IF d \in {Board, l} THEN [status |-> "online", seen |-> at]
                                     ELSE devices[d]]
    BY DEF Report, Presence
  <2>2. [status |-> "online", seen |-> at] \in Row
    BY <1>3 DEF Row, Status
  <2> QED
    BY <1>3, <2>1, <2>2 DEF AnalyticsTypeOK, Past
<1>9. AnalyticsTypeOK'
  BY <1>1, <1>2, <1>3, <1>5, <1>6, <1>7, <1>8 DEF AnalyticsTypeOK
<1>10. Past'
  BY <1>2, <1>3, <1>8 DEF Past
<1>11. Drawn'
  <2>1. IsFiniteSet(News)
    <3> DEFINE f == [k \in 1..n |-> new(k)]
    <3>1. f \in Surjection(1..n, News)
      BY DEF Surjection
    <3>2. IsFiniteSet(1..n)
      BY <1>1, FS_Interval
    <3> HIDE DEF f, News
    <3> QED
      BY <3>1, <3>2, FS_Surjection
  <2>2. IsFiniteSet(log') /\ IsFiniteSet(snapshots')
    <3> HIDE DEF News, shot
    <3> QED
      BY <1>2, <2>1, FS_Union, FS_AddElement DEF Drawn
  <2>3. \A e \in log : e.id \in Nat /\ e.id <= drawn
    BY RowTypes DEF Drawn
  <2>4. \A e \in News : \E k \in 1..n : e = new(k) /\ e.id = drawn + k
    OBVIOUS
  <2>5. \A e \in log' : e.id <= drawn'
    BY <1>1, <1>2, <2>3
  <2>6. ASSUME NEW e \in log', NEW f \in log', e.id = f.id
        PROVE  e = f
    <3>1. CASE e \in log /\ f \in log
      BY <2>6, <3>1 DEF Drawn
    <3>2. CASE e \in News /\ f \in News
      <4>1. PICK j \in 1..n : e = new(j) /\ e.id = drawn + j
        BY <2>4, <3>2
      <4>2. PICK k \in 1..n : f = new(k) /\ f.id = drawn + k
        BY <2>4, <3>2
      <4>3. j = k
        BY <1>1, <2>6, <4>1, <4>2
      <4> QED
        BY <4>1, <4>2, <4>3
    <3>3. CASE e \in log /\ f \in News
      BY <1>1, <2>3, <2>6, <3>3
    <3>4. CASE e \in News /\ f \in log
      BY <1>1, <2>3, <2>6, <3>4
    <3> QED
      BY <1>2, <3>1, <3>2, <3>3, <3>4
  <2> QED
    BY <2>2, <2>5, <2>6 DEF Drawn
<1>12. Accompanied'
  <2>1. shot \in snapshots' /\ shot.lot = l /\ shot.at = at
    BY <1>2
  <2>2. \A e \in News : LotOf[e.spot] = l /\ e.at = at
    BY <1>4
  <2> HIDE DEF News, shot
  <2> QED
    BY <1>2, <2>1, <2>2 DEF Accompanied
<1> QED
  BY <1>9, <1>10, <1>11, <1>12

LEMMA CameraEventsOK ==
  ASSUME AnalyticsInv, NEW l \in Lot, NEW count \in Count, NEW at \in (now - Delay)..now,
         CameraEvents(l, count, at)
  PROVE  AnalyticsInv'
<1> DEFINE S == [spot : SpotsOf(l), occupied : BOOLEAN]
<1>1. PICK events \in BoundedSeq(S, MaxWrites - writes) : Report(l, count, events, at)
  BY DEF CameraEvents
<1>2. \E m \in 0..(MaxWrites - writes) : events \in [1..m -> S]
  BY <1>1 DEF BoundedSeq, SeqOf
<1>3. events \in Seq(S)
  <2> HIDE DEF S
  <2>1. PICK m \in 0..(MaxWrites - writes) : events \in [1..m -> S]
    BY <1>2
  <2>2. m \in Nat
    BY <2>1, AnalyticsAssumption DEF AnalyticsInv, AnalyticsTypeOK
  <2> QED
    BY <2>1, <2>2
<1> QED
  BY <1>1, <1>3, ReportOK

LEMMA SyncSnapshotOK ==
  ASSUME AnalyticsInv, NEW l \in Lot, NEW count \in Count, NEW at \in (now - Delay)..now,
         SyncSnapshot(l, count, at)
  PROVE  AnalyticsInv'
<1> DEFINE S == [spot : SpotsOf(l), occupied : BOOLEAN]
<1>1. PICK spots \in SUBSET SpotsOf(l), occupied \in BOOLEAN :
        Report(l, count, Simulated(spots, occupied), at)
  <2>1. Occupied(l) \subseteq SpotsOf(l)
    <3>1. ASSUME NEW s \in Occupied(l) PROVE s \in SpotsOf(l)
      <4>1. PICK t \in SpotsOf(l) : Known(t) /\ s = SlotStatus(t).spot
        BY <3>1 DEF Occupied, LatestEvents
      <4>2. PICK e \in EventsOf(t) : \A f \in EventsOf(t) : f.id <= e.id
        <5> DEFINE I == {e.id : e \in EventsOf(t)}
        <5>1. I \in SUBSET Int /\ I # {}
          BY <4>1, RowTypes DEF AnalyticsInv, Known, EventsOf
        <5>2. \A i \in I : i <= drawn
          BY DEF AnalyticsInv, Drawn, EventsOf
        <5>3. drawn \in Int
          BY DEF AnalyticsInv, AnalyticsTypeOK
        <5>4. \E i \in I : \A j \in I : j <= i
          <6> HIDE DEF I
          <6> QED
            BY <5>1, <5>2, <5>3, GreatestElement
        <5> QED
          BY <5>4
      <4>3. SlotStatus(t) \in EventsOf(t)
        BY <4>2 DEF SlotStatus
      <4> QED
        BY <4>1, <4>3 DEF EventsOf
    <3> QED
      BY <3>1
  <2> DEFINE free == (SpotsOf(l) \cap Listed) \ Occupied(l)
  <2>2. CASE \E spots \in SUBSET free : Report(l, count, Simulated(spots, TRUE), at)
    BY <2>2
  <2>3. CASE \E spots \in SUBSET Occupied(l) : Report(l, count, Simulated(spots, FALSE), at)
    BY <2>1, <2>3
  <2> QED
    BY <2>2, <2>3 DEF SyncSnapshot
<1> DEFINE E == {[spot |-> s, occupied |-> occupied] : s \in spots}
<1>2. IsFiniteSet(E) /\ E \subseteq S
  <2>1. IsFiniteSet(spots)
    <3>1. spots \subseteq Spot
      BY DEF SpotsOf
    <3> QED
      BY <3>1, FS_Subset, AnalyticsAssumption
  <2> DEFINE f == [s \in spots |-> [spot |-> s, occupied |-> occupied]]
  <2>2. f \in Surjection(spots, E)
    BY DEF Surjection
  <2>3. E \subseteq S
    OBVIOUS
  <2> HIDE DEF f, E
  <2> QED
    BY <2>1, <2>2, <2>3, FS_Surjection
<1>3. Simulated(spots, occupied) \in Seq(S)
  <2>1. SetToSeq(E) \in Seq(E)
    <3> HIDE DEF E
    <3> QED
      BY <1>2, SequenceOfSet
  <2>2. Seq(E) \subseteq Seq(S)
    <3> HIDE DEF E, S
    <3> QED
      BY <1>2
  <2> QED
    BY <2>1, <2>2 DEF Simulated
<1> DEFINE events == Simulated(spots, occupied)
<1>4. events \in Seq(S) /\ Report(l, count, events, at)
  BY <1>1, <1>3
<1> HIDE DEF events
<1> QED
  BY <1>4, ReportOK

LEMMA StepOK == AnalyticsInv /\ [Next]_vars => AnalyticsInv'
<1> SUFFICES ASSUME AnalyticsInv, [Next]_vars PROVE AnalyticsInv'
  OBVIOUS
<1>1. ASSUME NEW l \in Lot, NEW count \in Count, NEW at \in (now - Delay)..now, CameraEvents(l, count, at)
      PROVE  AnalyticsInv'
  BY <1>1, CameraEventsOK
<1>2. ASSUME NEW l \in Lot, NEW count \in Count, NEW at \in (now - Delay)..now, SyncSnapshot(l, count, at)
      PROVE  AnalyticsInv'
  BY <1>2, SyncSnapshotOK
<1>3. ASSUME NEW status \in [Device -> Status], Heartbeat(status)
      PROVE  AnalyticsInv'
  BY <1>3, HeartbeatOK
<1>4. ASSUME NEW c \in Camera, Stream(c)
      PROVE  AnalyticsInv'
  BY <1>4, StreamOK
<1>5. CASE Pass
  BY <1>5, PassOK
<1>6. CASE UNCHANGED vars
  <2>1. AnalyticsTypeOK' /\ Past'
    BY <1>6 DEF vars, AnalyticsInv, AnalyticsTypeOK, Past
  <2> QED
    BY <1>6, <2>1, TablesKept DEF vars, AnalyticsInv
<1> QED
  BY <1>1, <1>2, <1>3, <1>4, <1>5, <1>6 DEF Next

LEMMA Always == Spec => []AnalyticsInv
<1>1. Init => AnalyticsInv
  BY InitOK
<1>2. AnalyticsInv /\ [Next]_vars => AnalyticsInv'
  BY StepOK
<1> QED
  BY <1>1, <1>2, PTL DEF Spec

-----------------------------------------------------------------------------
(***************************************************************************)
(* Sums over a finite set, as FoldSet computes them.                       *)
(***************************************************************************)
\* g has what v adds up to over every subset of S.
Sums(g, v, S) ==
  g = [s \in SUBSET S |-> IF s = {} THEN 0
         ELSE g[s \ {CHOOSE x \in s : TRUE}] + v[CHOOSE x \in s : TRUE]]

LEMMA SumsExist ==
  ASSUME NEW S, IsFiniteSet(S), NEW v
  PROVE  \E g : Sums(g, v, S)
<1> DEFINE one(s) == CHOOSE x \in s : TRUE
           NextSum(g, s) == IF s = {} THEN 0 ELSE g[s \ {one(s)}] + v[one(s)]
           Upto(g, k) == g = [s \in SUBSET S |-> g[s]]
                         /\ \A s \in SUBSET S : Cardinality(s) <= k => g[s] = NextSum(g, s)
           bad == {k \in Nat : ~\E g : Upto(g, k)}
<1>1. \A s \in SUBSET S : IsFiniteSet(s) /\ Cardinality(s) \in Nat /\ (s # {} => one(s) \in s)
  BY FS_Subset, FS_CardinalityType
<1>2. \A s \in SUBSET S : s # {} => /\ s \ {one(s)} \in SUBSET S
                                    /\ Cardinality(s \ {one(s)}) = Cardinality(s) - 1
  <2> HIDE DEF one
  <2> QED
    BY <1>1, FS_RemoveElement
<1>3. \A s \in SUBSET S : Cardinality(s) = 0 => s = {}
  BY <1>1, FS_EmptySet
<1> HIDE DEF one
<1>4. \E g : Upto(g, 0)
  <2> DEFINE g == [s \in SUBSET S |-> 0]
  <2>1. \A s \in SUBSET S : Cardinality(s) <= 0 => g[s] = NextSum(g, s)
    BY <1>1, <1>3
  <2>2. g = [s \in SUBSET S |-> g[s]]
    OBVIOUS
  <2> HIDE DEF g
  <2> QED
    BY <2>1, <2>2
<1>5. ASSUME NEW k \in Nat, NEW g, Upto(g, k)
      PROVE  \E h : Upto(h, k + 1)
  <2> DEFINE h == [s \in SUBSET S |-> NextSum(g, s)]
  <2>1. h = [s \in SUBSET S |-> h[s]]
    OBVIOUS
  <2>2. \A s \in SUBSET S : h[s] = NextSum(g, s)
    OBVIOUS
  <2>3. \A s \in SUBSET S : Cardinality(s) <= k => h[s] = g[s]
    BY <1>5, <2>2
  <2> HIDE DEF h
  <2>4. ASSUME NEW s \in SUBSET S, Cardinality(s) <= k + 1
        PROVE  h[s] = NextSum(h, s)
    <3>1. CASE s = {}
      BY <2>2, <3>1
    <3>2. CASE s # {}
      <4>1. Cardinality(s \ {one(s)}) <= k /\ s \ {one(s)} \in SUBSET S
        BY <1>1, <1>2, <2>4, <3>2
      <4>2. h[s \ {one(s)}] = g[s \ {one(s)}]
        BY <2>3, <4>1
      <4> QED
        BY <2>2, <3>2, <4>2
    <3> QED
      BY <3>1, <3>2
  <2>5. Upto(h, k + 1)
    BY <2>1, <2>4
  <2> HIDE DEF Upto
  <2> QED
    BY <2>5
<1>6. bad = {}
  <2> HIDE DEF Upto
  <2> SUFFICES ASSUME bad # {} PROVE FALSE
    OBVIOUS
  <2>1. bad \in SUBSET Nat
    OBVIOUS
  <2>2. PICK k \in bad : \A n \in bad : k <= n
    <3> HIDE DEF bad
    <3> QED
      BY <2>1, LeastElement
  <2>3. k \in Nat /\ k # 0
    BY <1>4
  <2>4. k - 1 \in Nat /\ k - 1 \notin bad
    <3> HIDE DEF bad
    <3> QED
      BY <2>1, <2>2, <2>3
  <2>5. PICK g : Upto(g, k - 1)
    BY <2>4
  <2>6. \E h : Upto(h, (k - 1) + 1)
    BY <1>5, <2>4, <2>5
  <2>7. (k - 1) + 1 = k
    BY <2>3
  <2> QED
    BY <2>6, <2>7
<1>7. PICK g : Upto(g, Cardinality(S))
  <2> HIDE DEF Upto
  <2> QED
    BY <1>1, <1>6
<1>8. \A s \in SUBSET S : g[s] = NextSum(g, s)
  BY <1>7, FS_Subset
<1>9. Sums(g, v, S)
  BY <1>7, <1>8 DEF Sums, one
<1> QED
  BY <1>9

LEMMA SumStep ==
  ASSUME NEW S, NEW v, NEW g, Sums(g, v, S)
  PROVE  /\ g[{}] = 0
         /\ \A s \in SUBSET S : s # {} =>
              \E x \in s : g[s] = g[s \ {x}] + v[x]
<1>1. \A s \in SUBSET S : g[s] = IF s = {} THEN 0
                                 ELSE g[s \ {CHOOSE x \in s : TRUE}] + v[CHOOSE x \in s : TRUE]
  BY DEF Sums
<1>2. g[{}] = 0
  BY <1>1
<1>3. ASSUME NEW s \in SUBSET S, s # {}
      PROVE  \E x \in s : g[s] = g[s \ {x}] + v[x]
  BY <1>1, <1>3
<1> QED
  BY <1>2, <1>3

\* A sum lies between the number of its terms times the least and the greatest of them.
LEMMA SumBounds ==
  ASSUME NEW S, IsFiniteSet(S), NEW v, NEW g, Sums(g, v, S), NEW low \in Int, NEW high \in Int,
         \A x \in S : v[x] \in Int /\ low <= v[x] /\ v[x] <= high
  PROVE  /\ g[S] \in Int /\ Cardinality(S) \in Nat
         /\ low * Cardinality(S) <= g[S] /\ g[S] <= high * Cardinality(S)
<1> DEFINE Between(s) == /\ g[s] \in Int
                         /\ low * Cardinality(s) <= g[s] /\ g[s] <= high * Cardinality(s)
           G == {s \in SUBSET S : Between(s)}
<1>1. {} \in G
  BY SumStep, FS_EmptySet
<1>2. ASSUME NEW s \in SUBSET S, s # {}
      PROVE  \E x \in s : s \ {x} \in G => s \in G
  <2>1. PICK x \in s : g[s] = g[s \ {x}] + v[x]
    BY <1>2, SumStep
  <2>2. IsFiniteSet(s) /\ Cardinality(s) \in Nat /\ Cardinality(s \ {x}) = Cardinality(s) - 1
    BY FS_Subset, FS_CardinalityType, FS_RemoveElement
  <2>3. ASSUME s \ {x} \in G PROVE s \in G
    <3> DEFINE n == Cardinality(s)
               a == g[s \ {x}]
               b == v[x]
    <3>1. /\ n \in Nat /\ a \in Int /\ b \in Int /\ g[s] = a + b
          /\ low * (n - 1) <= a /\ a <= high * (n - 1) /\ low <= b /\ b <= high
      BY <2>1, <2>2, <2>3
    <3> HIDE DEF n, a, b
    <3>2. low * (n - 1) = low * n - low /\ high * (n - 1) = high * n - high
      BY <3>1
    <3>3. low * n \in Int /\ high * n \in Int
      BY <3>1
    <3> DEFINE ln == low * n
               hn == high * n
    <3> HIDE DEF ln, hn
    <3>4. ln <= a + b /\ a + b <= hn
      BY <3>1, <3>2, <3>3 DEF ln, hn
    <3> QED
      BY <3>1, <3>4 DEF ln, hn, n
  <2> QED
    BY <2>3
<1>3. S \in G
  <2> HIDE DEF G
  <2> QED
    BY <1>1, <1>2, SubsetInduction
<1> QED
  BY <1>3, FS_CardinalityType

-----------------------------------------------------------------------------
(***************************************************************************)
(* The health page.                                                        *)
(***************************************************************************)
BoardSilent == devices[Board].seen = Never \/ now - devices[Board].seen > Silence

\* Evidence that is not older than half an hour.
Vouched(shown) ==
  /\ shown.status \in Status
  /\ shown.status = "online" => shown.seen \in Int /\ shown.seen # Never
                                /\ shown.seen <= now /\ now - shown.seen <= Silence

LEMMA StatusVouched ==
  ASSUME AnalyticsInv
  PROVE  /\ now \in Int /\ Silence \in Nat
         /\ BoardStatus.status = "offline" <=> BoardSilent
         /\ Vouched(BoardStatus)
         /\ \A c \in Camera : /\ Vouched(CameraStatus(c))
                              /\ CameraStatus(c).status = "offline" => BoardSilent
<1>1. now \in Int /\ Silence \in Nat
  BY AnalyticsAssumption DEF AnalyticsInv, AnalyticsTypeOK, Tick
<1>2. \A d \in Device : devices[d].seen \in Int /\ devices[d].seen <= now
  BY DEF AnalyticsInv, AnalyticsTypeOK, Past, Row, Tick, Never
<1>3. \A c \in Camera : playlist[c] \in Int /\ playlist[c] <= now
  BY DEF AnalyticsInv, AnalyticsTypeOK, Past, Tick, Never
<1>4. Camera \subseteq Device /\ Board \in Device
  BY DEF Device
<1>5. \A d \in Device : /\ Vouched(DeviceStatus(d))
                        /\ DeviceStatus(d).status = "offline"
                             <=> devices[d].seen = Never \/ now - devices[d].seen > Silence
  BY <1>1, <1>2 DEF DeviceStatus, Vouched, Shown, Status
<1>6. Vouched(BoardStatus) /\ (BoardStatus.status = "offline" <=> BoardSilent)
  BY <1>4, <1>5 DEF BoardStatus, BoardSilent
<1>7. ASSUME NEW c \in Camera
      PROVE  Vouched(CameraStatus(c)) /\ (CameraStatus(c).status = "offline" => BoardSilent)
  <2>1. CASE playlist[c] # Never /\ now - playlist[c] < Silence
    BY <1>1, <1>3, <2>1 DEF CameraStatus, Vouched, Shown, Status
  <2>2. CASE /\ ~(playlist[c] # Never /\ now - playlist[c] < Silence)
             /\ DeviceStatus(c).status = "offline" /\ BoardStatus.status = "online"
    <3>1. CameraStatus(c) = Shown("online", BoardStatus.seen)
      BY <2>2 DEF CameraStatus
    <3> QED
      BY <1>6, <2>2, <3>1 DEF Vouched, Shown, Status
  <2>3. CASE /\ ~(playlist[c] # Never /\ now - playlist[c] < Silence)
             /\ ~(DeviceStatus(c).status = "offline" /\ BoardStatus.status = "online")
    <3>1. CameraStatus(c) = DeviceStatus(c)
      BY <2>3 DEF CameraStatus
    <3> QED
      BY <1>4, <1>5, <1>6, <2>3, <3>1 DEF Vouched, Status
  <2> QED
    BY <2>1, <2>2, <2>3
<1> QED
  BY <1>1, <1>6, <1>7

LEMMA ScoreBounds ==
  ASSUME NEW shown, Vouched(shown), now \in Int, Silence \in Nat
  PROVE  /\ Score(shown) \in Int /\ 0 <= Score(shown) /\ Score(shown) <= 100 * Silence
         /\ shown.status = "online" => 80 * Silence <= Score(shown)
         /\ shown.status = "offline" => Score(shown) = 0
  BY DEF Vouched, Score, Status

\* What the cameras add to the score.
CameraScores == FoldSet(LAMBDA c, n : n + Score(CameraStatus(c)), 0, Camera)

LEMMA CamerasAddUp ==
  \E g : Sums(g, [c \in Camera |-> Score(CameraStatus(c))], Camera) /\ CameraScores = g[Camera]
<1> DEFINE v == [c \in Camera |-> Score(CameraStatus(c))]
           Folds(g) == g = [s \in SUBSET Camera |-> IF s = {} THEN 0
                              ELSE g[s \ {CHOOSE x \in s : TRUE}]
                                   + Score(CameraStatus(CHOOSE x \in s : TRUE))]
           g == CHOOSE g : Folds(g)
<1>1. \A s \in SUBSET Camera : s # {} => v[CHOOSE x \in s : TRUE] = Score(CameraStatus(CHOOSE x \in s : TRUE))
  OBVIOUS
<1> HIDE DEF v
<1>2. \A h : Folds(h) <=> Sums(h, v, Camera)
  BY <1>1 DEF Sums
<1>3. \E h : Sums(h, v, Camera)
  BY SumsExist, AnalyticsAssumption
<1>4. Folds(g)
  <2> HIDE DEF Folds
  <2> QED
    BY <1>2, <1>3
<1>5. CameraScores = g[Camera]
  BY DEF CameraScores, FoldSet, MapThenFoldSet
<1> HIDE DEF g, Folds
<1> QED
  BY <1>2, <1>4, <1>5 DEF v

LEMMA HealthFollows == AnalyticsInv => HealthFollowsBoard
<1> SUFFICES ASSUME AnalyticsInv PROVE HealthFollowsBoard
  OBVIOUS
<1>1. /\ now \in Int /\ Silence \in Nat
      /\ BoardStatus.status = "offline" <=> BoardSilent
      /\ Vouched(BoardStatus)
      /\ \A c \in Camera : /\ Vouched(CameraStatus(c))
                           /\ CameraStatus(c).status = "offline" => BoardSilent
  BY StatusVouched
<1>2. SystemStatus = "Critical" <=> BoardSilent
  BY <1>1 DEF SystemStatus
<1>3. \A shown \in {CameraStatus(c) : c \in Camera} \cup {BoardStatus} :
        shown.status = "online" => shown.seen # Never /\ now - shown.seen <= Silence
  BY <1>1 DEF Vouched
<1>4. /\ IsFiniteSet(Camera) /\ Board \notin Camera /\ Cardinality(Camera) \in Nat
      /\ Cardinality(Device) = Cardinality(Camera) + 1
  BY AnalyticsAssumption, FS_AddElement, FS_CardinalityType DEF Device
<1>5. /\ Score(BoardStatus) \in Int
      /\ BoardSilent => Score(BoardStatus) = 0
      /\ ~BoardSilent => 80 * Silence <= Score(BoardStatus)
  BY <1>1, ScoreBounds DEF Vouched, Status
<1>6. \A c \in Camera : /\ Score(CameraStatus(c)) \in Int /\ 0 <= Score(CameraStatus(c))
                        /\ Score(CameraStatus(c)) <= 100 * Silence
                        /\ ~BoardSilent => 80 * Silence <= Score(CameraStatus(c))
  BY <1>1, ScoreBounds DEF Vouched, Status
<1> DEFINE v == [c \in Camera |-> Score(CameraStatus(c))]
           n == Cardinality(Camera)
           low == IF BoardSilent THEN 0 ELSE 80 * Silence
           high == 100 * Silence
<1>7. PICK g : Sums(g, v, Camera) /\ CameraScores = g[Camera]
  BY CamerasAddUp
<1>8. /\ \A c \in Camera : v[c] \in Int /\ low <= v[c] /\ v[c] <= high
      /\ low \in Int /\ high \in Int
  BY <1>1, <1>6
<1>9. /\ CameraScores \in Int /\ low * n <= CameraScores /\ CameraScores <= high * n
  <2> HIDE DEF v, low, high
  <2> QED
    BY <1>4, <1>7, <1>8, SumBounds
<1>10. Uptime = Score(BoardStatus) + CameraScores
  BY DEF Uptime, CameraScores
<1>11. IF BoardSilent THEN Uptime <= 100 * Silence * n ELSE Uptime >= 80 * Silence * Cardinality(Device)
  <2> HIDE DEF n
  <2>1. n \in Nat /\ Cardinality(Device) = n + 1
    BY <1>4 DEF n
  <2> DEFINE board == Score(BoardStatus)
             cameras == CameraScores
  <2>2. board \in Int /\ cameras \in Int /\ Uptime = board + cameras
    BY <1>5, <1>9, <1>10
  <2>3. CASE BoardSilent
    <3>1. board = 0 /\ cameras <= 100 * Silence * n
      BY <1>5, <1>9, <2>3
    <3> HIDE DEF board, cameras
    <3> QED
      BY <1>1, <2>1, <2>2, <2>3, <3>1
  <2>4. CASE ~BoardSilent
    <3>1. 80 * Silence <= board /\ (80 * Silence) * n <= cameras
      BY <1>5, <1>9, <2>4
    <3> HIDE DEF board, cameras
    <3>2. (80 * Silence) * (n + 1) = (80 * Silence) * n + 80 * Silence
      BY <1>1, <2>1
    <3> DEFINE e == 80 * Silence
               en == e * n
    <3>3. e \in Int /\ en \in Int /\ e <= board /\ en <= cameras /\ e * (n + 1) = en + e
      BY <1>1, <2>1, <3>1, <3>2
    <3>4. 80 * Silence * Cardinality(Device) = e * (n + 1)
      BY <2>1
    <3> HIDE DEF e, en
    <3> QED
      BY <2>2, <2>4, <3>3, <3>4
  <2> QED
    BY <2>3, <2>4
<1> QED
  BY <1>1, <1>2, <1>3, <1>11 DEF HealthFollowsBoard, BoardSilent

-----------------------------------------------------------------------------
(***************************************************************************)
(* ORDER BY: the sequence that Ordered chooses.                            *)
(***************************************************************************)
\* A strict total order of S, as a set of pairs.
StrictTotal(less, S) ==
  /\ \A x \in S : <<x, x>> \notin less
  /\ \A x, y \in S : x = y \/ <<x, y>> \in less \/ <<y, x>> \in less
  /\ \A x, y, z \in S : <<x, y>> \in less /\ <<y, z>> \in less => <<x, z>> \in less
Below(less, S, x) == {y \in S : <<y, x>> \in less}

\* Every rank is taken by one member.
LEMMA RanksTaken ==
  ASSUME NEW S, IsFiniteSet(S), NEW less, StrictTotal(less, S)
  PROVE  /\ Cardinality(S) \in Nat
         /\ \A x \in S : Cardinality(Below(less, S, x)) \in 0..(Cardinality(S) - 1)
         /\ \A x, y \in S : <<x, y>> \in less =>
              Cardinality(Below(less, S, x)) < Cardinality(Below(less, S, y))
         /\ \A k \in 1..Cardinality(S) : \E x \in S : Cardinality(Below(less, S, x)) = k - 1
<1> DEFINE n == Cardinality(S)
           rank == [x \in S |-> Cardinality(Below(less, S, x))]
<1>1. n \in Nat
  BY FS_CardinalityType
<1>2. \A x \in S : /\ Below(less, S, x) \in SUBSET S /\ x \notin Below(less, S, x)
                   /\ Below(less, S, x) # S
  BY DEF StrictTotal, Below
<1>3. \A x \in S : /\ IsFiniteSet(Below(less, S, x)) /\ Cardinality(Below(less, S, x)) \in Nat
                   /\ Cardinality(Below(less, S, x)) < n
  <2> TAKE x \in S
  <2> DEFINE b == Below(less, S, x)
  <2>1. b \in SUBSET S /\ b # S
    BY <1>2
  <2> HIDE DEF b
  <2>2. /\ IsFiniteSet(b) /\ Cardinality(b) <= n /\ Cardinality(b) # n
        /\ Cardinality(b) \in Nat
    BY <2>1, FS_Subset, FS_CardinalityType
  <2> QED
    BY <1>1, <2>2 DEF b
<1>4. \A x, y \in S : <<x, y>> \in less =>
        Cardinality(Below(less, S, x)) < Cardinality(Below(less, S, y))
  <2> TAKE x, y \in S
  <2> HAVE <<x, y>> \in less
  <2> DEFINE a == Below(less, S, x)
             b == Below(less, S, y)
  <2>1. a \in SUBSET b /\ x \in b /\ x \notin a
    BY DEF StrictTotal, Below
  <2>2. IsFiniteSet(b) /\ Cardinality(a) \in Nat /\ Cardinality(b) \in Nat
    BY <1>3
  <2> HIDE DEF a, b
  <2>3. Cardinality(a) <= Cardinality(b) /\ Cardinality(a) # Cardinality(b)
    BY <2>1, <2>2, FS_Subset
  <2> QED
    BY <2>2, <2>3 DEF a, b
<1>5. rank \in [S -> 0..(n - 1)]
  BY <1>1, <1>3
<1>6. \A x, y \in S : rank[x] = rank[y] => x = y
  <2> SUFFICES ASSUME NEW x \in S, NEW y \in S, rank[x] = rank[y], x # y PROVE FALSE
    OBVIOUS
  <2>1. <<x, y>> \in less \/ <<y, x>> \in less
    BY DEF StrictTotal
  <2>2. rank[x] < rank[y] \/ rank[y] < rank[x]
    BY <1>4, <2>1
  <2>3. rank[x] \in Int
    BY <1>5
  <2> QED
    BY <2>2, <2>3
<1>7. rank \in Injection(S, 0..(n - 1))
  BY <1>5, <1>6 DEF Injection, IsInjective
<1>8. IsFiniteSet(0..(n - 1)) /\ Cardinality(0..(n - 1)) = n
  <2> HIDE DEF n
  <2>1. 0 \in Int /\ n - 1 \in Int
    BY <1>1
  <2>2. CASE n = 0
    <3>1. 0..(n - 1) = {}
      BY <2>2
    <3> QED
      BY <2>2, <3>1, FS_EmptySet
  <2>3. CASE n # 0
    <3>1. /\ IsFiniteSet(0..(n - 1))
          /\ Cardinality(0..(n - 1)) = IF 0 > n - 1 THEN 0 ELSE n - 1 - 0 + 1
      BY <2>1, FS_Interval
    <3> QED
      BY <1>1, <2>3, <3>1
  <2> QED
    BY <2>2, <2>3
<1>9. rank \in Surjection(S, 0..(n - 1))
  <2> HIDE DEF rank
  <2> QED
    BY <1>7, <1>8, FS_Injection
<1>10. \A k \in 1..n : k - 1 \in 0..(n - 1)
  BY <1>1
<1>11. \A k \in 1..n : \E x \in S : rank[x] = k - 1
  <2> HIDE DEF rank, n
  <2> QED
    BY <1>9, <1>10 DEF Surjection
<1>12. \A x \in S : rank[x] \in 0..(n - 1)
  <2> HIDE DEF rank
  <2> QED
    BY <1>5
<1> QED
  BY <1>1, <1>4, <1>11, <1>12

\* q lists S in the order of less.
Lists(q, S, less) ==
  /\ q \in Seq(S) /\ Len(q) \in Nat /\ DOMAIN q = 1..Len(q)
  /\ \A k \in 1..Len(q) : q[k] \in S
  /\ \A x \in S : \E k \in 1..Len(q) : q[k] = x
  /\ \A j, k \in 1..Len(q) : j < k => <<q[j], q[k]>> \in less
  /\ \A j, k \in 1..Len(q) : <<q[j], q[k]>> \in less => j < k

LEMMA FunctionIsSeq ==
  ASSUME NEW S, NEW n \in Nat, NEW q \in [1..n -> S]
  PROVE  q \in Seq(S) /\ Len(q) = n /\ DOMAIN q = 1..n
OBVIOUS

LEMMA OrderedLists ==
  ASSUME NEW S, IsFiniteSet(S), NEW less, StrictTotal(less, S),
         NEW q, q = [k \in 1..Cardinality(S) |-> q[k]],
         \A k \in 1..Cardinality(S) :
           (\E x \in S : Cardinality(Below(less, S, x)) = k - 1)
             => q[k] \in S /\ Cardinality(Below(less, S, q[k])) = k - 1
  PROVE  Lists(q, S, less)
<1> DEFINE n == Cardinality(S)
           rank(x) == Cardinality(Below(less, S, x))
<1>1. /\ n \in Nat
      /\ \A x \in S : rank(x) \in 0..(n - 1)
      /\ \A x, y \in S : <<x, y>> \in less => rank(x) < rank(y)
      /\ \A k \in 1..n : \E x \in S : rank(x) = k - 1
  BY RanksTaken
<1>2. \A k \in 1..n : q[k] \in S /\ rank(q[k]) = k - 1
  BY <1>1
<1> HIDE DEF rank, n
<1>3. q = [k \in 1..n |-> q[k]]
  BY DEF n
<1>4. q \in Seq(S) /\ Len(q) = n /\ DOMAIN q = 1..n
  <2>1. q \in [1..n -> S] /\ n \in Nat
    BY <1>1, <1>2, <1>3
  <2> QED
    BY <2>1, FunctionIsSeq
<1>5. \A x, y \in S : rank(x) = rank(y) => x = y
  <2> SUFFICES ASSUME NEW x \in S, NEW y \in S, rank(x) = rank(y), x # y PROVE FALSE
    OBVIOUS
  <2>1. <<x, y>> \in less \/ <<y, x>> \in less
    BY DEF StrictTotal
  <2>2. rank(x) < rank(y) \/ rank(y) < rank(x)
    BY <1>1, <2>1
  <2>3. rank(x) \in Int
    BY <1>1
  <2> QED
    BY <2>2, <2>3
<1>6. \A x \in S : rank(x) + 1 \in 1..n /\ (rank(x) + 1) - 1 = rank(x)
  BY <1>1
<1>7. \A x \in S : \E k \in 1..n : q[k] = x
  <2> TAKE x \in S
  <2>1. rank(x) + 1 \in 1..n /\ q[rank(x) + 1] \in S /\ rank(q[rank(x) + 1]) = rank(x)
    BY <1>2, <1>6
  <2> QED
    BY <1>5, <2>1
<1>8. \A j, k \in 1..n : <<q[j], q[k]>> \in less => j < k
  <2> TAKE j, k \in 1..n
  <2> HAVE <<q[j], q[k]>> \in less
  <2>1. q[j] \in S /\ q[k] \in S /\ rank(q[j]) = j - 1 /\ rank(q[k]) = k - 1
    BY <1>2
  <2>2. rank(q[j]) < rank(q[k])
    BY <1>1, <2>1
  <2> QED
    BY <1>1, <2>1, <2>2
<1>9. \A j, k \in 1..n : j < k => <<q[j], q[k]>> \in less
  <2> TAKE j, k \in 1..n
  <2> HAVE j < k
  <2>1. q[j] \in S /\ q[k] \in S /\ rank(q[j]) = j - 1 /\ rank(q[k]) = k - 1
    BY <1>2
  <2>2. q[j] # q[k]
    BY <1>1, <2>1
  <2>3. ~(k < j)
    BY <1>1
  <2>4. ~(<<q[k], q[j]>> \in less)
    BY <1>8, <2>3
  <2> QED
    BY <2>1, <2>2, <2>4 DEF StrictTotal
<1> QED
  BY <1>1, <1>2, <1>4, <1>7, <1>8, <1>9 DEF Lists

-----------------------------------------------------------------------------
(***************************************************************************)
(* One pass over rows: what FollowEvent has after those at the indices I.  *)
(***************************************************************************)
\* Row i is the last of spot p; rows i and j are a car that came, or was reported again,
\* and left, and it is counted if it stayed for a while.
LastOf(rows, I, p, i) == i \in I /\ rows[i].spot = p /\ \A j \in I : rows[j].spot = p => j <= i
Left(rows, I, i, j) ==
  /\ i \in I /\ j \in I /\ i < j /\ rows[i].spot = rows[j].spot
  /\ rows[i].occupied /\ ~rows[j].occupied
  /\ ~\E k \in I : i < k /\ k < j /\ rows[k].spot = rows[j].spot

\* t is since when spot p is parked on, or Never.
SinceIs(rows, I, p, t) ==
  \/ \E i \in I : LastOf(rows, I, p, i) /\ rows[i].occupied /\ t = rows[i].at
  \/ t = Never /\ ~\E i \in I : LastOf(rows, I, p, i) /\ rows[i].occupied

Stay(rows, i, j) == [spot |-> rows[j].spot, from |-> rows[i].at, to |-> rows[j].at]
Counted(rows, I, i, j) == Left(rows, I, i, j) /\ rows[i].at < rows[j].at
StaysIn(rows, I) ==
  {st \in {Stay(rows, i, j) : i \in I, j \in I} :
     \E i, j : Counted(rows, I, i, j) /\ st = Stay(rows, i, j)}

\* f is what the pass has.
After(rows, I, f) ==
  /\ f.stays = StaysIn(rows, I)
  /\ f.since \in [Spot -> Int] /\ \A p \in Spot : SinceIs(rows, I, p, f.since[p])
  /\ f = [since |-> f.since, stays |-> f.stays]

LEMMA MaxIs ==
  ASSUME NEW n \in Nat, NEW s \in SUBSET (1..n), s # {}
  PROVE  Max(s) \in s /\ \A y \in s : y <= Max(s)
<1>1. \E m \in s : \A x \in s : x <= m
  <2>1. s \in SUBSET Int /\ n \in Int /\ \A x \in s : x <= n
    OBVIOUS
  <2> QED
    BY <2>1, GreatestElement
<1>2. \A m \in s : (\A x \in s : x <= m) <=> (\A x \in s : m >= x)
  OBVIOUS
<1>3. \E m \in s : \A x \in s : m >= x
  BY <1>1, <1>2
<1>4. Max(s) \in s /\ \A x \in s : Max(s) >= x
  BY <1>3 DEF Max
<1> QED
  BY <1>2, <1>4

\* Types of the rows, so that they are opaque below.
RowsOK(rows) ==
  /\ Len(rows) \in Nat /\ DOMAIN rows = 1..Len(rows)
  /\ \A i \in 1..Len(rows) : /\ rows[i].spot \in Spot /\ rows[i].at \in Int
                             /\ rows[i].at # Never /\ rows[i].occupied \in BOOLEAN

LEMMA FollowStep ==
  ASSUME NEW rows, RowsOK(rows), NEW I \in SUBSET (1..Len(rows)), NEW x \in I,
         \A y \in I : y <= x,
         NEW f, After(rows, I \ {x}, f)
  PROVE  After(rows, I, FollowEvent(f, rows[x]))
<1> DEFINE e == rows[x]
           J == I \ {x}
           g == FollowEvent(f, e)
<1>1. /\ e.spot \in Spot /\ e.at \in Int /\ e.at # Never /\ e.occupied \in BOOLEAN
      /\ \A i \in I : i \in Int
      /\ \A i \in I : rows[i].at \in Int /\ rows[i].at # Never
  BY DEF RowsOK
<1>2. \A i \in J : i \in I /\ i # x /\ i < x
  BY <1>1
<1>3. \A p : p # e.spot => \A i : LastOf(rows, I, p, i) <=> LastOf(rows, J, p, i)
  BY DEF LastOf
<1>4. \A i : LastOf(rows, I, e.spot, i) <=> i = x
  BY <1>1, <1>2 DEF LastOf
<1>5. \A i, j : j # x => (Left(rows, I, i, j) <=> Left(rows, J, i, j))
  <2> TAKE i, j
  <2> HAVE j # x
  <2>1. \A k \in I : k < j /\ j \in I => k \in J
    BY <1>1, <1>2
  <2> QED
    BY <1>2, <2>1 DEF Left
<1>6. \A i : Left(rows, I, i, x) <=> ~e.occupied /\ LastOf(rows, J, e.spot, i) /\ rows[i].occupied
  <2>1. ASSUME NEW i, Left(rows, I, i, x)
        PROVE  ~e.occupied /\ LastOf(rows, J, e.spot, i) /\ rows[i].occupied
    <3>1. i \in J /\ rows[i].spot = e.spot /\ ~e.occupied /\ rows[i].occupied
      BY <1>1, <2>1 DEF Left
    <3>2. \A j \in J : rows[j].spot = e.spot => j <= i
      BY <1>1, <1>2, <2>1, <3>1 DEF Left
    <3> QED
      BY <3>1, <3>2 DEF LastOf
  <2>2. ASSUME NEW i, ~e.occupied, LastOf(rows, J, e.spot, i), rows[i].occupied
        PROVE  Left(rows, I, i, x)
    <3>1. i \in I /\ i < x /\ rows[i].spot = e.spot
      BY <1>2, <2>2 DEF LastOf
    <3>2. ~\E k \in I : i < k /\ k < x /\ rows[k].spot = e.spot
      BY <1>1, <1>2, <2>2, <3>1 DEF LastOf
    <3> QED
      BY <2>2, <3>1, <3>2 DEF Left
  <2> QED
    BY <2>1, <2>2
<1>7. \A i, j : LastOf(rows, J, e.spot, i) /\ LastOf(rows, J, e.spot, j) => i = j
  BY <1>1, <1>2 DEF LastOf
<1>8. /\ f.stays = StaysIn(rows, J)
      /\ f.since \in [Spot -> Int] /\ \A p \in Spot : SinceIs(rows, J, p, f.since[p])
      /\ f = [since |-> f.since, stays |-> f.stays]
  BY DEF After
<1>9. \A st : st \in StaysIn(rows, I) <=> \E i, j : Counted(rows, I, i, j) /\ st = Stay(rows, i, j)
  BY DEF StaysIn, Counted, Left
<1>10. \A st : st \in StaysIn(rows, J) <=> \E i, j : Counted(rows, J, i, j) /\ st = Stay(rows, i, j)
  BY DEF StaysIn, Counted, Left
<1>11. \A i, j : /\ Counted(rows, J, i, j) => j # x
                 /\ j # x => (Counted(rows, I, i, j) <=> Counted(rows, J, i, j))
  BY <1>5 DEF Counted, Left
<1>12. \A st : st \in StaysIn(rows, I) <=>
          st \in StaysIn(rows, J) \/ \E i : Counted(rows, I, i, x) /\ st = Stay(rows, i, x)
  BY <1>9, <1>10, <1>11
<1>13. \A p \in Spot : \A t : p # e.spot => (SinceIs(rows, I, p, t) <=> SinceIs(rows, J, p, t))
  <2>1. \A p : \A i : LastOf(rows, J, p, i) => i \in I
    BY DEF LastOf
  <2>2. \A p : \A i : LastOf(rows, I, p, i) => i \in I
    BY DEF LastOf
  <2>3. \A p : \A i : LastOf(rows, J, p, i) => i \in J
    BY DEF LastOf
  <2> QED
    BY <1>3, <2>1, <2>2, <2>3 DEF SinceIs
<1>14. CASE e.occupied
  <2>1. g = [f EXCEPT !.since[e.spot] = e.at]
    BY <1>14 DEF FollowEvent
  <2>2. g.stays = f.stays /\ g.since = [f.since EXCEPT ![e.spot] = e.at]
        /\ g = [since |-> g.since, stays |-> g.stays]
    BY <1>8, <2>1
  <2> HIDE DEF g
  <2>3. g.since \in [Spot -> Int]
    BY <1>1, <1>8, <2>2
  <2>4. ASSUME NEW p \in Spot
        PROVE  SinceIs(rows, I, p, g.since[p])
    <3>1. CASE p = e.spot
      <4>1. g.since[p] = e.at
        BY <1>8, <2>2, <3>1
      <4> QED
        BY <1>4, <1>14, <3>1, <4>1 DEF SinceIs
    <3>2. CASE p # e.spot
      <4>1. g.since[p] = f.since[p]
        BY <1>8, <2>2, <3>2
      <4> QED
        BY <1>8, <1>13, <3>2, <4>1
    <3> QED
      BY <3>1, <3>2
  <2>5. g.stays = StaysIn(rows, I)
    <3>1. \A i : ~Counted(rows, I, i, x)
      BY <1>6, <1>14 DEF Counted
    <3>2. \A st : st \in StaysIn(rows, I) <=> st \in StaysIn(rows, J)
      BY <1>12, <3>1
    <3>3. StaysIn(rows, I) = StaysIn(rows, J)
      <4> DEFINE a == StaysIn(rows, I)
                 b == StaysIn(rows, J)
      <4>1. \A st : st \in a <=> st \in b
        BY <3>2
      <4> HIDE DEF a, b
      <4>2. a = b
        BY <4>1
      <4> QED
        BY <4>2 DEF a, b
    <3> QED
      BY <1>8, <2>2, <3>3
  <2> QED
    BY <2>2, <2>3, <2>4, <2>5 DEF After, g
<1>15. CASE ~e.occupied /\ f.since[e.spot] = Never
  <2>1. g = f
    BY <1>15 DEF FollowEvent
  <2>2. ~\E i \in J : LastOf(rows, J, e.spot, i) /\ rows[i].occupied
    <3>1. SinceIs(rows, J, e.spot, Never)
      BY <1>1, <1>8, <1>15
    <3> QED
      BY <1>1, <1>2, <3>1 DEF SinceIs
  <2>3. ASSUME NEW p \in Spot
        PROVE  SinceIs(rows, I, p, f.since[p])
    <3>1. CASE p = e.spot
      BY <1>4, <1>15, <3>1 DEF SinceIs
    <3>2. CASE p # e.spot
      BY <1>8, <1>13, <3>2
    <3> QED
      BY <3>1, <3>2
  <2>4. f.stays = StaysIn(rows, I)
    <3>1. \A i : ~Counted(rows, I, i, x)
      BY <1>6, <2>2 DEF LastOf, Counted
    <3> DEFINE a == StaysIn(rows, I)
               b == StaysIn(rows, J)
    <3>2. \A st : st \in a <=> st \in b
      BY <1>12, <3>1
    <3> HIDE DEF a, b
    <3>3. a = b
      BY <3>2
    <3> QED
      BY <1>8, <3>3 DEF a, b
  <2> QED
    BY <1>8, <2>1, <2>3, <2>4 DEF After
<1>16. CASE ~e.occupied /\ f.since[e.spot] # Never
  <2> DEFINE new == [spot |-> e.spot, from |-> f.since[e.spot], to |-> e.at]
             added == {st \in {new} : st.from < st.to}
  <2>1. g = [since |-> [f.since EXCEPT ![e.spot] = Never], stays |-> f.stays \cup added]
    BY <1>16 DEF FollowEvent
  <2>2. g.since = [f.since EXCEPT ![e.spot] = Never] /\ g.stays = f.stays \cup added
        /\ g = [since |-> g.since, stays |-> g.stays]
    BY <2>1
  <2>3. PICK i \in J : LastOf(rows, J, e.spot, i) /\ rows[i].occupied /\ f.since[e.spot] = rows[i].at
    <3>1. SinceIs(rows, J, e.spot, f.since[e.spot])
      BY <1>1, <1>8
    <3> QED
      BY <1>16, <3>1 DEF SinceIs
  <2>4. new = Stay(rows, i, x) /\ \A st : st \in added <=> st = new /\ rows[i].at < e.at
    BY <2>3 DEF Stay
  <2>5. \A j : Counted(rows, I, j, x) <=> j = i /\ rows[i].at < e.at
    <3>1. \A j : Left(rows, I, j, x) <=> j = i
      BY <1>6, <1>7, <1>16, <2>3
    <3> QED
      BY <3>1 DEF Counted
  <2> HIDE DEF g, new, added
  <2>6. g.since \in [Spot -> Int]
    BY <1>1, <1>8, <2>2 DEF Never
  <2>7. ASSUME NEW p \in Spot
        PROVE  SinceIs(rows, I, p, g.since[p])
    <3>1. CASE p = e.spot
      <4>1. g.since[p] = Never
        BY <1>8, <2>2, <3>1
      <4> QED
        BY <1>4, <1>16, <3>1, <4>1 DEF SinceIs
    <3>2. CASE p # e.spot
      <4>1. g.since[p] = f.since[p]
        BY <1>8, <2>2, <3>2
      <4> QED
        BY <1>8, <1>13, <3>2, <4>1
    <3> QED
      BY <3>1, <3>2
  <2>8. g.stays = StaysIn(rows, I)
    <3> DEFINE a == StaysIn(rows, I)
               b == StaysIn(rows, J)
    <3>1. \A st : st \in a <=> st \in b \/ st \in added
      <4>1. \A st : (\E j : Counted(rows, I, j, x) /\ st = Stay(rows, j, x))
                      <=> st = Stay(rows, i, x) /\ rows[i].at < e.at
        BY <2>5
      <4> QED
        BY <1>12, <2>4, <4>1
    <3> HIDE DEF a, b
    <3>2. a = b \cup added
      BY <3>1
    <3> QED
      BY <1>8, <2>2, <3>2 DEF a, b
  <2> QED
    BY <2>2, <2>6, <2>7, <2>8 DEF After, g
<1> QED
  BY <1>1, <1>14, <1>15, <1>16

LEMMA AfterUnique ==
  ASSUME NEW rows, RowsOK(rows), NEW I \in SUBSET (1..Len(rows)),
         NEW f, After(rows, I, f), NEW g, After(rows, I, g)
  PROVE  f = g
<1>1. \A i \in I : i \in Int /\ rows[i].at # Never
  BY DEF RowsOK
<1>2. ASSUME NEW p \in Spot
      PROVE  f.since[p] = g.since[p]
  <2>1. SinceIs(rows, I, p, f.since[p]) /\ SinceIs(rows, I, p, g.since[p])
    BY DEF After
  <2>2. \A i, j \in I : LastOf(rows, I, p, i) /\ LastOf(rows, I, p, j) => i = j
    BY <1>1 DEF LastOf
  <2> QED
    BY <2>1, <2>2 DEF SinceIs
<1>3. f.since = g.since
  BY <1>2 DEF After
<1>4. f.stays = g.stays
  BY DEF After
<1> QED
  BY <1>3, <1>4 DEF After

LEMMA AfterNone == ASSUME NEW rows PROVE After(rows, {}, Followed)
<1>1. Followed.since = [s \in Spot |-> Never] /\ Followed.stays = {}
      /\ Followed = [since |-> Followed.since, stays |-> Followed.stays]
  BY DEF Followed
<1>2. StaysIn(rows, {}) = {}
  BY DEF StaysIn
<1>3. Followed.since \in [Spot -> Int]
  BY <1>1 DEF Never
<1>4. \A p \in Spot : SinceIs(rows, {}, p, Followed.since[p])
  BY <1>1 DEF SinceIs
<1> QED
  BY <1>1, <1>2, <1>3, <1>4 DEF After

LEMMA SubsetsFinite ==
  ASSUME NEW n \in Nat, NEW s \in SUBSET (1..n)
  PROVE  IsFiniteSet(s)
<1>1. IsFiniteSet(1..n)
  BY FS_Interval
<1> QED
  BY <1>1, FS_Subset

LEMMA AfterExists ==
  ASSUME NEW rows, RowsOK(rows), NEW I \in SUBSET (1..Len(rows))
  PROVE  \E f : After(rows, I, f)
<1> DEFINE G == {s \in SUBSET I : \E f : After(rows, s, f)}
<1>1. {} \in G
  BY AfterNone
<1>2. ASSUME NEW s \in SUBSET I, s # {}
      PROVE  \E x \in s : s \ {x} \in G => s \in G
  <2>1. Len(rows) \in Nat /\ s \in SUBSET (1..Len(rows))
    BY DEF RowsOK
  <2>2. Max(s) \in s /\ \A y \in s : y <= Max(s)
    BY <1>2, <2>1, MaxIs
  <2>3. ASSUME s \ {Max(s)} \in G PROVE s \in G
    <3>1. PICK f : After(rows, s \ {Max(s)}, f)
      BY <2>3
    <3>2. After(rows, s, FollowEvent(f, rows[Max(s)]))
      BY <2>1, <2>2, <3>1, FollowStep
    <3> QED
      BY <3>2
  <2> QED
    BY <2>2, <2>3
<1>3. IsFiniteSet(I)
  BY SubsetsFinite DEF RowsOK
<1>4. I \in G
  <2> HIDE DEF G
  <2> QED
    BY <1>1, <1>2, <1>3, SubsetInduction
<1> QED
  BY <1>4

\* The pass over all rows.
LEMMA FollowIs ==
  ASSUME NEW rows, RowsOK(rows)
  PROVE  After(rows, 1..Len(rows), Follow(rows))
<1> DEFINE n == Len(rows)
           S == 1..n
           Step(g, s) == FollowEvent(g[s \ {Max(s)}], rows[Max(s)])
           Passes(g) == g = [s \in SUBSET S |-> IF s = {} THEN Followed ELSE Step(g, s)]
           g == CHOOSE g : Passes(g)
           Is(f, s) == After(rows, s, f)
           h == [s \in SUBSET S |-> CHOOSE f : Is(f, s)]
<1>1. n \in Nat /\ DOMAIN rows = S
  BY DEF RowsOK
<1>2. \A s \in SUBSET S : s # {} => Max(s) \in s /\ (\A y \in s : y <= Max(s)) /\ s \ {Max(s)} \in SUBSET S
  BY <1>1, MaxIs
<1>3. \A s \in SUBSET S : After(rows, s, h[s])
  <2> TAKE s \in SUBSET S
  <2>1. \E f : Is(f, s)
    BY AfterExists
  <2>2. h[s] = CHOOSE f : Is(f, s)
    OBVIOUS
  <2> HIDE DEF Is, h
  <2>3. Is(h[s], s)
    BY <2>1, <2>2
  <2> QED
    BY <2>3 DEF Is
<1>4. \A f : \A s \in SUBSET S :
        s # {} /\ After(rows, s \ {Max(s)}, f) => After(rows, s, FollowEvent(f, rows[Max(s)]))
  BY <1>2, FollowStep
<1> HIDE DEF h
<1>5. Passes(h)
  <2>1. h = [s \in SUBSET S |-> h[s]]
    BY DEF h
  <2>2. h[{}] = Followed
    BY <1>3, AfterNone, AfterUnique
  <2>3. \A s \in SUBSET S : s # {} => h[s] = Step(h, s)
    BY <1>2, <1>3, <1>4, AfterUnique
  <2> QED
    BY <2>1, <2>2, <2>3
<1>6. Passes(g)
  <2> HIDE DEF Passes
  <2> QED
    BY <1>5
<1>7. Follow(rows) = g[S]
  BY <1>1 DEF Follow, FoldLeft, MapThenFoldSet
<1> HIDE DEF g
<1>8. g[{}] = Followed /\ \A s \in SUBSET S : s # {} => g[s] = Step(g, s)
  BY <1>6
<1> DEFINE G == {s \in SUBSET S : After(rows, s, g[s])}
<1>9. {} \in G
  BY <1>8, AfterNone
<1>10. ASSUME NEW s \in SUBSET S, s # {}
       PROVE  \E x \in s : s \ {x} \in G => s \in G
  <2>1. ASSUME s \ {Max(s)} \in G PROVE s \in G
    <3>1. After(rows, s \ {Max(s)}, g[s \ {Max(s)}])
      BY <2>1
    <3>2. After(rows, s, Step(g, s))
      BY <1>4, <1>10, <3>1
    <3> QED
      BY <1>8, <1>10, <3>2
  <2> QED
    BY <1>2, <1>10, <2>1
<1>11. IsFiniteSet(S)
  BY <1>1, FS_Interval
<1>12. S \in G
  <2> HIDE DEF G, S
  <2> QED
    BY <1>9, <1>10, <1>11, SubsetInduction
<1> QED
  BY <1>7, <1>12

-----------------------------------------------------------------------------
(***************************************************************************)
(* The rows of a window in order.                                          *)
(***************************************************************************)
\* A tie ranks rows of a spot with the same stamp, each differently.
LEMMA TieRanks ==
  ASSUME AnalyticsInv, NEW tie \in Ties, NEW e \in log, NEW f \in log,
         e.spot = f.spot, e.at = f.at, e # f
  PROVE  tie[e.id] \in Int /\ tie[f.id] \in Int /\ tie[e.id] # tie[f.id]
<1>1. e.id # f.id
  BY DEF AnalyticsInv, Drawn
<1>2. e.id \in Tied /\ f.id \in Tied
  BY DEF Tied, EventsOf
<1>3. Tied \subseteq Int
  BY RowTypes DEF AnalyticsInv, Tied
<1>4. tie \in [Tied -> Tied] /\ \A a, b \in Tied : tie[a] = tie[b] => a = b
  BY DEF Ties, Injection, IsInjective
<1> QED
  BY <1>1, <1>2, <1>3, <1>4

LEMMA EarlierTotal ==
  ASSUME AnalyticsInv, NEW tie \in Ties, NEW s
  PROVE  /\ \A e \in EventsOf(s) : ~Earlier(tie, e, e)
         /\ \A e, f \in EventsOf(s) : e = f \/ Earlier(tie, e, f) \/ Earlier(tie, f, e)
         /\ \A e, f, g \in EventsOf(s) :
              Earlier(tie, e, f) /\ Earlier(tie, f, g) => Earlier(tie, e, g)
<1>1. \A e \in EventsOf(s) : e \in log /\ e.spot = s /\ e.at \in Int
  BY RowTypes DEF AnalyticsInv, EventsOf
<1>2. \A e, f \in EventsOf(s) : e.at = f.at /\ e # f =>
        tie[e.id] \in Int /\ tie[f.id] \in Int /\ tie[e.id] # tie[f.id]
  BY <1>1, TieRanks
<1>3. \A e \in EventsOf(s) : ~Earlier(tie, e, e)
  BY <1>1 DEF Earlier
<1>4. ASSUME NEW e \in EventsOf(s), NEW f \in EventsOf(s), e # f
      PROVE  Earlier(tie, e, f) \/ Earlier(tie, f, e)
  <2>1. e.at < f.at \/ f.at < e.at \/ e.at = f.at
    BY <1>1
  <2>2. CASE e.at = f.at
    <3> DEFINE a == tie[e.id]
               b == tie[f.id]
    <3>1. a \in Int /\ b \in Int /\ a # b
      BY <1>2, <1>4, <2>2
    <3> HIDE DEF a, b
    <3>2. a < b \/ b < a
      BY <3>1
    <3> QED
      BY <1>4, <2>2, <3>2 DEF Earlier, a, b
  <2> QED
    BY <2>1, <2>2 DEF Earlier
<1>5. ASSUME NEW e \in EventsOf(s), NEW f \in EventsOf(s), NEW g \in EventsOf(s),
             Earlier(tie, e, f), Earlier(tie, f, g)
      PROVE  Earlier(tie, e, g)
  <2>1. e.at \in Int /\ f.at \in Int /\ g.at \in Int
    BY <1>1
  <2>2. e.at <= f.at /\ f.at <= g.at
    BY <1>5, <2>1 DEF Earlier
  <2>3. CASE e.at < g.at
    BY <2>3 DEF Earlier
  <2>4. CASE e.at = g.at
    <3>1. e.at = f.at /\ f.at = g.at
      BY <2>1, <2>2, <2>4
    <3>2. e # f /\ tie[e.id] < tie[f.id] /\ f # g /\ tie[f.id] < tie[g.id]
      BY <1>5, <2>1, <3>1 DEF Earlier
    <3>3. tie[e.id] \in Int /\ tie[f.id] \in Int /\ tie[g.id] \in Int
      BY <1>2, <3>1, <3>2
    <3> DEFINE a == tie[e.id]
               b == tie[f.id]
               c == tie[g.id]
    <3>4. a \in Int /\ b \in Int /\ c \in Int /\ a < b /\ b < c
      BY <3>2, <3>3
    <3>5. a < c /\ a # c
      <4> HIDE DEF a, b, c
      <4> QED
        BY <3>4
    <3>6. e # g
      BY <3>5
    <3> QED
      BY <2>4, <3>5, <3>6 DEF Earlier
  <2> QED
    BY <2>1, <2>2, <2>3, <2>4
<1> QED
  BY <1>3, <1>4, <1>5

\* ORDER BY slot, time.
BySpot(tie, R) ==
  {p \in R \X R : p[1].spot < p[2].spot \/ (p[1].spot = p[2].spot /\ Earlier(tie, p[1], p[2]))}

LEMMA BySpotIs ==
  ASSUME NEW tie, NEW R, NEW e, NEW f
  PROVE  <<e, f>> \in BySpot(tie, R) <=>
           e \in R /\ f \in R /\ (e.spot < f.spot \/ (e.spot = f.spot /\ Earlier(tie, e, f)))
BY DEF BySpot

LEMMA BySpotTotal ==
  ASSUME AnalyticsInv, NEW tie \in Ties, NEW R \in SUBSET log
  PROVE  StrictTotal(BySpot(tie, R), R)
<1>1. \A e \in R : e.spot \in Nat /\ e \in EventsOf(e.spot)
  BY RowTypes DEF AnalyticsInv, EventsOf
<1>2. \A e \in R : <<e, e>> \notin BySpot(tie, R)
  BY <1>1, BySpotIs, EarlierTotal
<1>3. \A e, f \in R : e = f \/ <<e, f>> \in BySpot(tie, R) \/ <<f, e>> \in BySpot(tie, R)
  <2> TAKE e, f \in R
  <2>1. e.spot < f.spot \/ f.spot < e.spot \/ e.spot = f.spot
    BY <1>1
  <2>2. CASE e.spot = f.spot
    <3>1. e \in EventsOf(e.spot) /\ f \in EventsOf(e.spot)
      BY <1>1, <2>2
    <3>2. e = f \/ Earlier(tie, e, f) \/ Earlier(tie, f, e)
      BY <3>1, EarlierTotal
    <3> QED
      BY <2>2, <3>2, BySpotIs
  <2> QED
    BY <2>1, <2>2, BySpotIs
<1>4. ASSUME NEW e \in R, NEW f \in R, NEW g \in R,
             <<e, f>> \in BySpot(tie, R), <<f, g>> \in BySpot(tie, R)
      PROVE  <<e, g>> \in BySpot(tie, R)
  <2>1. /\ e.spot < f.spot \/ (e.spot = f.spot /\ Earlier(tie, e, f))
        /\ f.spot < g.spot \/ (f.spot = g.spot /\ Earlier(tie, f, g))
    BY <1>4, BySpotIs
  <2>2. e.spot \in Nat /\ f.spot \in Nat /\ g.spot \in Nat
    BY <1>1
  <2>3. e.spot < g.spot \/ (e.spot = f.spot /\ f.spot = g.spot /\ Earlier(tie, e, f) /\ Earlier(tie, f, g))
    BY <2>1, <2>2
  <2>4. CASE e.spot = f.spot /\ f.spot = g.spot /\ Earlier(tie, e, f) /\ Earlier(tie, f, g)
    <3>1. e \in EventsOf(e.spot) /\ f \in EventsOf(e.spot) /\ g \in EventsOf(e.spot)
      BY <1>1, <2>4
    <3>2. Earlier(tie, e, g)
      BY <2>4, <3>1, EarlierTotal
    <3> QED
      BY <2>4, <3>2, BySpotIs
  <2> QED
    BY <2>3, <2>4, BySpotIs
<1> QED
  BY <1>2, <1>3, <1>4 DEF StrictTotal

LEMMA WindowLists ==
  ASSUME AnalyticsInv, NEW tie \in Ties, NEW l, NEW start, NEW end
  PROVE  Lists(Window(tie, l, start, end), InWindow(l, start, end), BySpot(tie, InWindow(l, start, end)))
<1> DEFINE R == InWindow(l, start, end)
           q == Window(tie, l, start, end)
           n == Cardinality(R)
           less == BySpot(tie, R)
           Before(e, f) == e.spot < f.spot \/ (e.spot = f.spot /\ Earlier(tie, e, f))
           Ranks(x, k) == Cardinality({y \in R : Before(y, x)}) = k - 1
<1>1. R \in SUBSET log /\ IsFiniteSet(R)
  BY FS_Subset DEF InWindow, AnalyticsInv, Drawn
<1>2. q = [k \in 1..n |-> CHOOSE x \in R : Ranks(x, k)]
  BY DEF Window, Ordered
<1>3. StrictTotal(less, R)
  BY <1>1, BySpotTotal
<1>4. \A x \in R : {y \in R : Before(y, x)} = Below(less, R, x)
  <2> HIDE DEF R
  <2> QED
    BY BySpotIs DEF Below
<1> HIDE DEF R, q, less
<1>5. ASSUME NEW k \in 1..n, \E x \in R : Cardinality(Below(less, R, x)) = k - 1
      PROVE  q[k] \in R /\ Cardinality(Below(less, R, q[k])) = k - 1
  <2>1. \E x \in R : Ranks(x, k)
    BY <1>4, <1>5
  <2>2. q[k] = CHOOSE x \in R : Ranks(x, k)
    BY <1>2
  <2> HIDE DEF Ranks
  <2>3. q[k] \in R /\ Ranks(q[k], k)
    BY <2>1, <2>2
  <2> QED
    BY <1>4, <2>3 DEF Ranks
<1>6. q = [k \in 1..n |-> q[k]]
  <2> HIDE DEF Ranks, n
  <2> QED
    BY <1>2
<1>7. Lists(q, R, less)
  BY <1>1, <1>3, <1>5, <1>6, OrderedLists
<1> QED
  BY <1>7 DEF q, R, less

\* What the proofs use of a window.
InOrderOf(w, R) ==
  /\ RowsOK(w)
  /\ \A k \in 1..Len(w) : w[k] \in R
  /\ \A e \in R : \E k \in 1..Len(w) : w[k] = e
  /\ \A j, k \in 1..Len(w) : w[j] = w[k] => j = k
  /\ \A j, k \in 1..Len(w) : w[j].spot = w[k].spot =>
       (j < k => w[j].at <= w[k].at) /\ (w[j].at < w[k].at => j < k)

LEMMA WindowInOrder ==
  ASSUME AnalyticsInv, NEW tie \in Ties, NEW l, NEW start, NEW end
  PROVE  /\ InWindow(l, start, end) \in SUBSET log
         /\ InOrderOf(Window(tie, l, start, end), InWindow(l, start, end))
<1> DEFINE R == InWindow(l, start, end)
           w == Window(tie, l, start, end)
           less == BySpot(tie, R)
<1>1. R \in SUBSET log
  BY DEF InWindow
<1>2. Lists(w, R, less) /\ StrictTotal(less, R)
  BY <1>1, WindowLists, BySpotTotal
<1>3. \A e, f : <<e, f>> \in less => e.spot < f.spot \/ (e.spot = f.spot /\ Earlier(tie, e, f))
  BY BySpotIs
<1> HIDE DEF R, w, less
<1>4. /\ Len(w) \in Nat /\ DOMAIN w = 1..Len(w)
      /\ \A k \in 1..Len(w) : w[k] \in R
      /\ \A e \in R : \E k \in 1..Len(w) : w[k] = e
      /\ \A j, k \in 1..Len(w) : j < k => <<w[j], w[k]>> \in less
  BY <1>2 DEF Lists
<1>5. \A k \in 1..Len(w) : /\ w[k].spot \in Spot /\ w[k].spot \in Nat
                           /\ w[k].at \in Int /\ 0 <= w[k].at /\ w[k].occupied \in BOOLEAN
  BY <1>1, <1>4, RowTypes DEF AnalyticsInv
<1>6. RowsOK(w)
  BY <1>4, <1>5 DEF RowsOK, Never
<1> DEFINE I == 1..Len(w)
<1>7. \A k \in I : k \in Int /\ w[k].spot \in Nat /\ w[k].at \in Int /\ w[k] \in R
  BY <1>4, <1>5
<1>8. \A j, k \in I : j < k => <<w[j], w[k]>> \in less
  BY <1>4
<1> HIDE DEF I
<1>9. \A j, k \in I : w[j] = w[k] => j = k
  <2> TAKE j, k \in I
  <2> HAVE w[j] = w[k]
  <2>1. j = k \/ j < k \/ k < j
    BY <1>7
  <2>2. <<w[j], w[j]>> \notin less
    BY <1>2, <1>7 DEF StrictTotal
  <2> QED
    BY <1>8, <2>1, <2>2
<1>10. \A j, k \in I : w[j].spot = w[k].spot /\ j < k => w[j].at <= w[k].at
  <2> TAKE j, k \in I
  <2> HAVE w[j].spot = w[k].spot /\ j < k
  <2>1. w[j].spot < w[k].spot \/ Earlier(tie, w[j], w[k])
    BY <1>3, <1>8
  <2> QED
    BY <1>7, <2>1 DEF Earlier
<1>11. \A j, k \in I : w[j].spot = w[k].spot /\ w[j].at < w[k].at => j < k
  <2> TAKE j, k \in I
  <2> HAVE w[j].spot = w[k].spot /\ w[j].at < w[k].at
  <2>1. j = k \/ j < k \/ k < j
    BY <1>7
  <2>2. k < j => w[k].at <= w[j].at
    BY <1>10
  <2> QED
    BY <1>7, <2>1, <2>2
<1>12. InOrderOf(w, R)
  BY <1>4, <1>6, <1>9, <1>10, <1>11 DEF InOrderOf, I
<1> QED
  BY <1>1, <1>12 DEF R, w

\* What is known of the rows of a window w, whose indices are I.
WindowOK(w, I, l, start, end) ==
  /\ RowsOK(w) /\ I \subseteq Nat
  /\ \A k \in I : /\ w[k] \in log /\ w[k].spot \in SpotsOf(l) /\ w[k].occupied \in BOOLEAN
                  /\ w[k].at \in start..end /\ w[k].at \in Nat /\ w[k].at <= now
  /\ \A e \in log : e.spot \in SpotsOf(l) /\ e.at \in start..end => \E k \in I : w[k] = e
  /\ \A j, k \in I : w[j] = w[k] => j = k
  /\ \A j, k \in I : w[j].spot = w[k].spot =>
       (j < k => w[j].at <= w[k].at) /\ (w[j].at < w[k].at => j < k)

LEMMA WindowRows ==
  ASSUME AnalyticsInv, NEW tie \in Ties, NEW l \in Lot, NEW start, NEW end, NEW w, w = Window(tie, l, start, end),
         NEW I, I = 1..Len(w)
  PROVE  WindowOK(w, I, l, start, end)
<1> DEFINE R == InWindow(l, start, end)
<1>1. R \in SUBSET log /\ InOrderOf(w, R)
  BY WindowInOrder
<1>2. \A e : e \in R <=> e \in log /\ LotOf[e.spot] = l /\ e.at \in start..end
  BY DEF InWindow
<1> HIDE DEF R
<1>3. /\ RowsOK(w) /\ Len(w) \in Nat
      /\ \A k \in I : w[k] \in R
      /\ \A e \in R : \E k \in I : w[k] = e
      /\ \A j, k \in I : w[j] = w[k] => j = k
      /\ \A j, k \in I : w[j].spot = w[k].spot =>
           (j < k => w[j].at <= w[k].at) /\ (w[j].at < w[k].at => j < k)
  BY <1>1 DEF InOrderOf, RowsOK
<1>4. \A e \in log : e.spot \in Spot /\ e.at \in Nat /\ e.at <= now /\ e.occupied \in BOOLEAN
  BY RowTypes DEF AnalyticsInv, Past
<1>5. \A k \in I : /\ w[k] \in log /\ w[k].spot \in SpotsOf(l) /\ w[k].occupied \in BOOLEAN
                   /\ w[k].at \in start..end /\ w[k].at \in Nat /\ w[k].at <= now
  BY <1>2, <1>3, <1>4 DEF SpotsOf
<1>6. \A e \in log : e.spot \in SpotsOf(l) /\ e.at \in start..end => \E k \in I : w[k] = e
  BY <1>2, <1>3 DEF SpotsOf
<1>7. I \subseteq Nat
  BY <1>3
<1> QED
  BY <1>3, <1>5, <1>6, <1>7 DEF WindowOK

-----------------------------------------------------------------------------
(***************************************************************************)
(* Dwell time.                                                             *)
(***************************************************************************)
LEMMA StayIff ==
  ASSUME NEW rows, NEW I, NEW st
  PROVE  st \in StaysIn(rows, I) <=> \E i, j \in I : Counted(rows, I, i, j) /\ st = Stay(rows, i, j)
BY DEF StaysIn, Counted, Left

LEMMA SaidIff ==
  ASSUME AnalyticsInv, NEW s, NEW from, NEW to
  PROVE  /\ Said(s, TRUE, from, to) <=> \E e \in log : e.spot = s /\ e.occupied /\ e.at \in from..to
         /\ Said(s, FALSE, from, to) <=> \E e \in log : e.spot = s /\ ~e.occupied /\ e.at \in from..to
<1>1. \A e \in log : e.occupied \in BOOLEAN
  <2> HIDE DEF AnalyticsInv
  <2>1. AnalyticsTypeOK
    BY DEF AnalyticsInv
  <2> QED
    BY <2>1, RowTypes
<1>2. \A e \in log : (e.occupied = TRUE <=> e.occupied) /\ (e.occupied = FALSE <=> ~e.occupied)
  BY <1>1
<1>3. \A e : e \in EventsOf(s) <=> e \in log /\ e.spot = s
  BY DEF EventsOf
<1>4. \A b : Said(s, b, from, to) <=> \E e \in EventsOf(s) : e.occupied = b /\ e.at \in from..to
  BY Zenon DEF Said
<1>5. \A b : Said(s, b, from, to) <=> \E e \in log : e.spot = s /\ e.occupied = b /\ e.at \in from..to
  BY <1>3, <1>4
<1>6. Said(s, TRUE, from, to) <=> \E e \in log : e.spot = s /\ e.occupied = TRUE /\ e.at \in from..to
  BY <1>5
<1>7. Said(s, FALSE, from, to) <=> \E e \in log : e.spot = s /\ e.occupied = FALSE /\ e.at \in from..to
  BY <1>5
<1> QED
  BY <1>2, <1>6, <1>7

\* A car, by its fields.
IsCar(l, start, end, s, from, to) ==
  /\ s \in SpotsOf(l) /\ from \in start..end /\ to \in start..end
  /\ from < to
  /\ Said(s, TRUE, from, from) /\ Said(s, FALSE, to, to)
  /\ ~Said(s, FALSE, from + 1, to - 1)
  /\ \A t \in start..(from - 1) : Said(s, TRUE, t, t) => Said(s, FALSE, t, from)

LEMMA CarIff ==
  ASSUME NEW l, NEW start, NEW end
  PROVE  /\ \A car \in Cars(l, start, end) :
              /\ car = [spot |-> car.spot, from |-> car.from, to |-> car.to]
              /\ IsCar(l, start, end, car.spot, car.from, car.to)
         /\ \A s, from, to : IsCar(l, start, end, s, from, to) =>
              [spot |-> s, from |-> from, to |-> to] \in Cars(l, start, end)
<1> DEFINE Fields == [spot : SpotsOf(l), from : start..end, to : start..end]
<1>1. \A car : car \in Cars(l, start, end) <=>
        car \in Fields /\ IsCar(l, start, end, car.spot, car.from, car.to)
  <2> TAKE car
  <2>1. car \in Cars(l, start, end) <=>
          /\ car \in Fields /\ car.from < car.to
          /\ Said(car.spot, TRUE, car.from, car.from) /\ Said(car.spot, FALSE, car.to, car.to)
          /\ ~Said(car.spot, FALSE, car.from + 1, car.to - 1)
          /\ \A t \in start..(car.from - 1) :
               Said(car.spot, TRUE, t, t) => Said(car.spot, FALSE, t, car.from)
    BY Zenon DEF Cars
  <2>2. car \in Fields => car.spot \in SpotsOf(l) /\ car.from \in start..end /\ car.to \in start..end
    OBVIOUS
  <2> HIDE DEF Fields
  <2> QED
    BY <2>1, <2>2, Zenon DEF IsCar
<1>2. \A car \in Fields : car = [spot |-> car.spot, from |-> car.from, to |-> car.to]
  OBVIOUS
<1>3. ASSUME NEW s, NEW from, NEW to, IsCar(l, start, end, s, from, to)
      PROVE  [spot |-> s, from |-> from, to |-> to] \in Cars(l, start, end)
  <2> DEFINE car == [spot |-> s, from |-> from, to |-> to]
  <2>1. s \in SpotsOf(l) /\ from \in start..end /\ to \in start..end
    BY <1>3 DEF IsCar
  <2>2. car.spot = s /\ car.from = from /\ car.to = to /\ car \in Fields
    BY <2>1
  <2> HIDE DEF car, Fields
  <2>3. car \in Cars(l, start, end)
    BY <1>1, <1>3, <2>2
  <2> QED
    BY <2>3 DEF car
<1> HIDE DEF Fields
<1> QED
  BY <1>1, <1>2, <1>3

\* A stay between the rows of a window is that of a car: the first report of the
\* car is the earliest one after which nothing says that the spot is free.
LEMMA StayOfCar ==
  ASSUME AnalyticsInv, NEW tie \in Ties, NEW l \in Lot, NEW end \in Nat, NEW start \in Nat,
         NEW w, w = Window(tie, l, start, end), NEW st \in StaysIn(w, 1..Len(w))
  PROVE  \E car \in Cars(l, start, end) : IsOf(st, car) /\ car.from <= st.from
<1> DEFINE I == 1..Len(w)
<1>0. I = 1..Len(w)
  OBVIOUS
<1>1. PICK i \in I, j \in I : Counted(w, I, i, j) /\ st = Stay(w, i, j)
  BY StayIff
<1> HIDE DEF I
<1>2. /\ I \subseteq Nat
      /\ \A k \in I : /\ w[k] \in log /\ w[k].spot \in SpotsOf(l) /\ w[k].occupied \in BOOLEAN
                      /\ w[k].at \in start..end /\ w[k].at \in Nat
      /\ \A e \in log : e.spot \in SpotsOf(l) /\ e.at \in start..end => \E k \in I : w[k] = e
      /\ \A h, k \in I : w[h].spot = w[k].spot =>
           (h < k => w[h].at <= w[k].at) /\ (w[h].at < w[k].at => h < k)
  <2>1. WindowOK(w, I, l, start, end)
    BY <1>0, WindowRows
  <2> QED
    BY <2>1 DEF WindowOK
<1> DEFINE s == w[j].spot
           last == w[i].at
           to == w[j].at
<1>3. /\ w[i].spot = s /\ w[i].occupied /\ ~w[j].occupied /\ last < to
      /\ \A k \in I : i < k /\ k < j => w[k].spot # s
  BY <1>1 DEF Counted, Left
<1>4. /\ s \in SpotsOf(l) /\ last \in start..end /\ to \in start..end /\ last \in Nat /\ to \in Nat
      /\ w[i] \in log /\ w[j] \in log
  BY <1>2
<1>5. st.spot = s /\ st.from = last /\ st.to = to
  BY <1>1 DEF Stay
<1>6. Said(s, TRUE, last, last) /\ Said(s, FALSE, to, to)
  <2>1. last \in last..last /\ to \in to..to
    BY <1>4
  <2> QED
    BY <1>3, <1>4, <2>1, SaidIff
<1>7. ~Said(s, FALSE, last + 1, to - 1)
  <2> SUFFICES ASSUME Said(s, FALSE, last + 1, to - 1) PROVE FALSE
    OBVIOUS
  <2>1. PICK e \in log : e.spot = s /\ e.at \in (last + 1)..(to - 1)
    BY SaidIff
  <2>2. e.at \in start..end /\ last < e.at /\ e.at < to
    BY <1>4, <2>1
  <2>3. PICK k \in I : w[k] = e
    BY <1>2, <1>4, <2>1, <2>2
  <2>4. i < k /\ k < j
    BY <1>2, <1>3, <2>1, <2>2, <2>3
  <2> QED
    BY <1>3, <2>1, <2>3, <2>4
<1> HIDE DEF s, last, to
<1> DEFINE T == {t \in start..last : Said(s, TRUE, t, t) /\ ~Said(s, FALSE, t + 1, to - 1)}
<1>8. PICK from \in T : \A t \in T : from <= t
  <2>1. start..last \subseteq Nat /\ last \in start..last
    BY <1>4
  <2>2. T \in SUBSET Nat /\ last \in T
    BY <1>6, <1>7, <2>1
  <2> HIDE DEF T
  <2> QED
    BY <2>2, LeastElement
<1>9. /\ from \in start..last /\ Said(s, TRUE, from, from) /\ ~Said(s, FALSE, from + 1, to - 1)
      /\ from \in start..end /\ from <= last /\ from < to
  <2>1. from \in start..last /\ Said(s, TRUE, from, from) /\ ~Said(s, FALSE, from + 1, to - 1)
    BY <1>8
  <2>2. last < to
    BY <1>3 DEF s, last, to
  <2>3. from \in start..end /\ from <= last /\ from < to
    BY <1>4, <2>1, <2>2
  <2> QED
    BY <2>1, <2>3
<1>10. ASSUME NEW t \in start..(from - 1), Said(s, TRUE, t, t)
       PROVE  Said(s, FALSE, t, from)
  <2>1. t \in start..last /\ t < from
    BY <1>4, <1>9
  <2>2. Said(s, FALSE, t + 1, to - 1)
    <3>1. t \notin T
      <4> HIDE DEF T
      <4> QED
        BY <1>4, <1>8, <1>9, <2>1
    <3> QED
      BY <1>10, <2>1, <3>1
  <2>3. PICK e \in log : e.spot = s /\ ~e.occupied /\ e.at \in (t + 1)..(to - 1)
    BY <2>2, SaidIff
  <2>4. e.at \notin (from + 1)..(to - 1)
    BY <1>9, <2>3, SaidIff
  <2>5. e.at \in t..from
    BY <1>4, <1>9, <2>1, <2>3, <2>4
  <2> QED
    BY <2>3, <2>5, SaidIff
<1> DEFINE car == [spot |-> s, from |-> from, to |-> to]
<1>11. car \in Cars(l, start, end)
  <2>1. IsCar(l, start, end, s, from, to)
    BY <1>4, <1>6, <1>9, <1>10 DEF IsCar
  <2> QED
    BY <2>1, CarIff
<1>12. IsOf(st, car) /\ car.from <= st.from
  BY <1>5, <1>9 DEF IsOf
<1> QED
  BY <1>11, <1>12

\* No two stays end with the same car.
LEMMA StaysApart ==
  ASSUME AnalyticsInv, NEW tie \in Ties, NEW l \in Lot, NEW end \in Nat, NEW start \in Nat,
         NEW w, w = Window(tie, l, start, end),
         NEW st \in StaysIn(w, 1..Len(w)), NEW other \in StaysIn(w, 1..Len(w)), IsOf(st, other)
  PROVE  st = other
<1> DEFINE I == 1..Len(w)
<1>0. I = 1..Len(w)
  OBVIOUS
<1>1. PICK i \in I, j \in I : Counted(w, I, i, j) /\ st = Stay(w, i, j)
  BY StayIff
<1>2. PICK g \in I, h \in I : Counted(w, I, g, h) /\ other = Stay(w, g, h)
  BY StayIff
<1> HIDE DEF I
<1>3. /\ I \subseteq Nat
      /\ \A k \in I : w[k].at \in Nat
      /\ \A a, b \in I : w[a].spot = w[b].spot /\ a < b => w[a].at <= w[b].at
  <2>1. WindowOK(w, I, l, start, end)
    BY <1>0, WindowRows
  <2> QED
    BY <2>1 DEF WindowOK
<1>4. /\ i < j /\ w[i].spot = w[j].spot /\ w[i].at < w[j].at /\ w[i].occupied /\ ~w[j].occupied
      /\ \A k \in I : i < k /\ k < j => w[k].spot # w[j].spot
  BY <1>1 DEF Counted, Left
<1>5. /\ g < h /\ w[g].spot = w[h].spot /\ w[g].at < w[h].at /\ w[g].occupied /\ ~w[h].occupied
      /\ \A k \in I : g < k /\ k < h => w[k].spot # w[h].spot
  BY <1>2 DEF Counted, Left
<1>6. w[j].spot = w[h].spot /\ w[j].at = w[h].at
  BY <1>1, <1>2 DEF IsOf, Stay
<1>7. i \in Nat /\ j \in Nat /\ g \in Nat /\ h \in Nat
  BY <1>3
<1>8. ~(j < h)
  <2> SUFFICES ASSUME j < h PROVE FALSE
    OBVIOUS
  <2>1. ~(g < j) /\ g # j
    BY <1>4, <1>5, <1>6
  <2>2. j < g
    BY <1>7, <2>1
  <2>3. w[j].at <= w[g].at
    BY <1>3, <1>5, <1>6, <2>2
  <2> QED
    BY <1>3, <1>5, <1>6, <2>3
<1>9. ~(h < j)
  <2> SUFFICES ASSUME h < j PROVE FALSE
    OBVIOUS
  <2>1. ~(i < h) /\ i # h
    BY <1>4, <1>5, <1>6
  <2>2. h < i
    BY <1>7, <2>1
  <2>3. w[h].at <= w[i].at
    BY <1>3, <1>4, <1>6, <2>2
  <2> QED
    BY <1>3, <1>4, <1>6, <2>3
<1>10. j = h
  BY <1>7, <1>8, <1>9
<1>11. ~(i < g) /\ ~(g < i)
  BY <1>4, <1>5, <1>10
<1>12. i = g
  BY <1>7, <1>11
<1> QED
  BY <1>1, <1>2, <1>10, <1>12

\* st is the whole stay of the car, or what is left of it.
HasStay(st, car) == IsOf(st, car) /\ (~Said(car.spot, TRUE, car.from + 1, car.to - 1) => st = car)

\* Without equal stamps every car has its stay: since its last report.
LEMMA CarHasStay ==
  ASSUME AnalyticsInv, NEW tie \in Ties, NEW l \in Lot, NEW end \in Nat, NEW start \in Nat,
         NEW w, w = Window(tie, l, start, end), NEW all, all = StaysIn(w, 1..Len(w)),
         NEW car \in Cars(l, start, end), Untied(car.spot, start, end)
  PROVE  \E st \in all : HasStay(st, car)
<1> DEFINE I == 1..Len(w)
<1>0. I = 1..Len(w) /\ all = StaysIn(w, I)
  OBVIOUS
<1> HIDE DEF I
<1>1. /\ I \subseteq Nat
      /\ \A k \in I : /\ w[k] \in log /\ w[k].spot \in SpotsOf(l) /\ w[k].occupied \in BOOLEAN
                      /\ w[k].at \in start..end /\ w[k].at \in Nat
      /\ \A e \in log : e.spot \in SpotsOf(l) /\ e.at \in start..end => \E k \in I : w[k] = e
      /\ \A h, k \in I : w[h] = w[k] => h = k
      /\ \A h, k \in I : w[h].spot = w[k].spot =>
           (h < k => w[h].at <= w[k].at) /\ (w[h].at < w[k].at => h < k)
  <2>1. WindowOK(w, I, l, start, end)
    BY <1>0, WindowRows
  <2> QED
    BY <2>1 DEF WindowOK
<1> DEFINE s == car.spot
           from == car.from
           to == car.to
<1>2. car = [spot |-> s, from |-> from, to |-> to] /\ IsCar(l, start, end, s, from, to)
  BY CarIff
<1>3. \A h, k \in I : w[h].spot = s /\ w[k].spot = s /\ w[h].at = w[k].at => h = k
  <2> TAKE h, k \in I
  <2> HAVE w[h].spot = s /\ w[k].spot = s /\ w[h].at = w[k].at
  <2>1. w[h] \in EventsOf(s) /\ w[k] \in EventsOf(s) /\ w[h].at \in start..end
    BY <1>1 DEF EventsOf
  <2>2. w[h] = w[k]
    BY <2>1 DEF Untied
  <2> QED
    BY <1>1, <2>2
<1> HIDE DEF s, from, to
<1>4. /\ s \in SpotsOf(l) /\ from \in start..end /\ to \in start..end /\ from < to
      /\ from \in Nat /\ to \in Nat
      /\ Said(s, TRUE, from, from) /\ Said(s, FALSE, to, to) /\ ~Said(s, FALSE, from + 1, to - 1)
  <2>1. /\ s \in SpotsOf(l) /\ from \in start..end /\ to \in start..end /\ from < to
        /\ Said(s, TRUE, from, from) /\ Said(s, FALSE, to, to) /\ ~Said(s, FALSE, from + 1, to - 1)
    BY <1>2 DEF IsCar
  <2>2. from \in Nat /\ to \in Nat
    BY <2>1
  <2> QED
    BY <2>1, <2>2
<1>5. PICK a \in I : w[a].spot = s /\ w[a].at = from /\ w[a].occupied
  <2>1. PICK e \in log : e.spot = s /\ e.occupied /\ e.at \in from..from
    BY <1>4, SaidIff
  <2>2. e.at = from
    BY <1>4, <2>1
  <2> QED
    BY <1>1, <1>4, <2>1, <2>2
<1>6. PICK j \in I : w[j].spot = s /\ w[j].at = to /\ ~w[j].occupied
  <2>1. PICK e \in log : e.spot = s /\ ~e.occupied /\ e.at \in to..to
    BY <1>4, SaidIff
  <2>2. e.at = to
    BY <1>4, <2>1
  <2> QED
    BY <1>1, <1>4, <2>1, <2>2
<1> DEFINE P == {k \in I : w[k].spot = s /\ k < j}
<1>7. a \in P /\ P \in SUBSET Int /\ j \in Int /\ \A k \in P : k <= j
  <2>0. w[a].spot = w[j].spot /\ w[a].at < w[j].at
    BY <1>4, <1>5, <1>6
  <2>1. a < j
    BY <1>1, <2>0
  <2>2. I \subseteq Int /\ \A k \in I : k < j => k <= j
    BY <1>1
  <2> QED
    BY <1>5, <1>6, <2>1, <2>2
<1>8. PICK i \in P : \A k \in P : k <= i
  <2> HIDE DEF P
  <2> QED
    BY <1>7, GreatestElement
<1>9. /\ i \in I /\ i \in Nat /\ w[i].spot = s /\ i < j /\ a <= i /\ a \in Nat
      /\ \A k \in I : i < k /\ k < j => w[k].spot # s
  <2>1. i \in I /\ w[i].spot = s /\ i < j /\ a <= i
    BY <1>7, <1>8
  <2>2. ASSUME NEW k \in I, i < k, k < j, w[k].spot = s
        PROVE  FALSE
    <3>1. k \in P /\ k \in Nat /\ i \in Nat
      BY <1>1, <2>1, <2>2
    <3>2. k <= i
      <4> HIDE DEF P
      <4> QED
        BY <1>8, <3>1
    <3> QED
      BY <2>2, <3>1, <3>2
  <2> QED
    BY <1>1, <2>1, <2>2
<1> HIDE DEF P
<1>10. i = a \/ (from < w[i].at /\ w[i].at < to)
  <2> SUFFICES ASSUME i # a PROVE from < w[i].at /\ w[i].at < to
    OBVIOUS
  <2>1. a < i
    BY <1>9
  <2>2. from <= w[i].at /\ w[i].at <= to /\ w[i].at \in Nat
    BY <1>1, <1>5, <1>6, <1>9, <2>1
  <2>3. w[i].at # from /\ w[i].at # to
    BY <1>3, <1>5, <1>6, <1>9
  <2> QED
    BY <1>4, <2>2, <2>3
<1>11. w[i].at \in Nat /\ w[i] \in log /\ w[i].occupied \in BOOLEAN /\ from <= w[i].at /\ w[i].at < to
  BY <1>1, <1>4, <1>5, <1>9, <1>10
<1>12. w[i].occupied
  <2> SUFFICES ASSUME ~w[i].occupied PROVE FALSE
    OBVIOUS
  <2>1. w[i].at \in (from + 1)..(to - 1)
    BY <1>4, <1>5, <1>10, <1>11
  <2> QED
    BY <1>4, <1>9, <1>11, <2>1, SaidIff
<1>13. Counted(w, I, i, j)
  BY <1>6, <1>9, <1>11, <1>12 DEF Counted, Left
<1> DEFINE st == Stay(w, i, j)
<1>14. st \in all
  BY <1>0, <1>6, <1>9, <1>13, StayIff
<1>15. st = [spot |-> s, from |-> w[i].at, to |-> to]
  BY <1>6 DEF Stay
<1>16. IsOf(st, car)
  BY <1>15 DEF IsOf, s, to
<1>17. ~Said(s, TRUE, from + 1, to - 1) => st = car
  <2> HAVE ~Said(s, TRUE, from + 1, to - 1)
  <2>1. ~(from < w[i].at)
    <3> SUFFICES ASSUME from < w[i].at PROVE FALSE
      OBVIOUS
    <3>1. w[i].at \in (from + 1)..(to - 1)
      BY <1>4, <1>11
    <3> QED
      BY <1>9, <1>11, <1>12, <3>1, SaidIff
  <2>2. w[i].at = from
    BY <1>4, <1>11, <2>1
  <2> QED
    BY <1>2, <1>15, <2>2
<1> QED
  BY <1>14, <1>16, <1>17 DEF HasStay, s, from, to

\* A limit cuts stays off, and adds none.
LEMMA FirstStays ==
  ASSUME NEW w, RowsOK(w), NEW n \in Nat, NEW S, w \in Seq(S), NEW p, p = First(n, w)
  PROVE  /\ RowsOK(p)
         /\ StaysIn(p, 1..Len(p)) \subseteq StaysIn(w, 1..Len(w))
         /\ Len(w) <= n => p = w
<1> DEFINE m == IF Len(w) < n THEN Len(w) ELSE n
<1>1. m \in Nat /\ m <= Len(w) /\ Len(w) \in Nat
  BY DEF RowsOK
<1>2. p = SubSeq(w, 1, m)
  BY DEF First
<1> HIDE DEF m
<1>3. Len(p) = m /\ p \in Seq(S) /\ \A k \in 1..m : p[k] = w[k] /\ k \in 1..Len(w)
  <2>1. \A k \in 1..m : k \in 1..Len(w) /\ w[k] \in S
    BY <1>1, ElementOfSeq
  <2> QED
    BY <1>1, <1>2, <2>1, SubSeqProperties
<1>4. RowsOK(p)
  BY <1>1, <1>3, LenProperties DEF RowsOK
<1>5. \A i, j : Counted(p, 1..m, i, j) => Counted(w, 1..Len(w), i, j) /\ Stay(p, i, j) = Stay(w, i, j)
  <2> TAKE i, j
  <2> HAVE Counted(p, 1..m, i, j)
  <2>1. i \in 1..m /\ j \in 1..m /\ p[i] = w[i] /\ p[j] = w[j] /\ i \in 1..Len(w) /\ j \in 1..Len(w)
    BY <1>3 DEF Counted, Left
  <2>2. \A k \in 1..Len(w) : i < k /\ k < j => k \in 1..m /\ p[k] = w[k]
    BY <1>1, <1>3, <2>1
  <2> QED
    BY <2>1, <2>2 DEF Counted, Left, Stay
<1>6. ASSUME NEW st \in StaysIn(p, 1..m)
      PROVE  st \in StaysIn(w, 1..Len(w))
  <2> DEFINE I == 1..m
  <2>1. \E i, j \in I : Counted(p, I, i, j) /\ st = Stay(p, i, j)
    <3>1. st \in StaysIn(p, I)
      OBVIOUS
    <3> HIDE DEF I
    <3> QED
      BY <3>1, StayIff
  <2>2. PICK i \in 1..m, j \in 1..m : Counted(p, 1..m, i, j) /\ st = Stay(p, i, j)
    BY <2>1
  <2>3. Counted(w, 1..Len(w), i, j) /\ st = Stay(w, i, j) /\ i \in 1..Len(w) /\ j \in 1..Len(w)
    BY <1>3, <1>5, <2>2
  <2> QED
    BY <2>3, StayIff
<1>7. Len(w) <= n => p = w
  <2> HAVE Len(w) <= n
  <2>1. m = Len(w)
    BY <1>1 DEF m
  <2> QED
    BY <1>2, <2>1, SubSeqFull
<1> QED
  BY <1>3, <1>4, <1>6, <1>7

LEMMA Dwells ==
  ASSUME AnalyticsInv, NEW tie \in Ties, NEW l \in Lot, NEW end \in Nat, NEW start \in Nat
  PROVE  DwellTells(Window(tie, l, start, end), l, start, end)
<1> DEFINE w == Window(tie, l, start, end)
           p == First(MaxRows, w)
           stays == DwellStays(w)
           all == StaysIn(w, 1..Len(w))
<1>1. MaxRows \in Nat
  BY AnalyticsAssumption
<1>2. RowsOK(w) /\ w \in Seq(InWindow(l, start, end))
  BY WindowInOrder, WindowLists DEF InOrderOf, Lists
<1>3. /\ \A st \in all : \E car \in Cars(l, start, end) : IsOf(st, car) /\ car.from <= st.from
      /\ \A st, other \in all : IsOf(st, other) => st = other
      /\ \A car \in Cars(l, start, end) : Untied(car.spot, start, end) =>
           \E st \in all : HasStay(st, car)
  <2>1. w = Window(tie, l, start, end)
    OBVIOUS
  <2> HIDE DEF w
  <2>2. \A st \in all : \E car \in Cars(l, start, end) : IsOf(st, car) /\ car.from <= st.from
    BY <2>1, StayOfCar
  <2>3. \A st, other \in all : IsOf(st, other) => st = other
    BY <2>1, StaysApart
  <2>4. ASSUME NEW car \in Cars(l, start, end), Untied(car.spot, start, end)
        PROVE  \E st \in all : HasStay(st, car)
    <3>1. all = StaysIn(w, 1..Len(w))
      OBVIOUS
    <3> HIDE DEF all
    <3> QED
      BY <2>1, <2>4, <3>1, CarHasStay
  <2> QED
    BY <2>2, <2>3, <2>4
<1>4. stays = Follow(p).stays
  BY DEF DwellStays
<1> HIDE DEF w
<1>5. RowsOK(p) /\ StaysIn(p, 1..Len(p)) \subseteq all /\ (Len(w) <= MaxRows => p = w)
  BY <1>1, <1>2, FirstStays
<1>6. Follow(p).stays = StaysIn(p, 1..Len(p))
  BY <1>5, FollowIs DEF After
<1> HIDE DEF p
<1>7. stays \subseteq all /\ (Len(w) <= MaxRows => stays = all)
  BY <1>4, <1>5, <1>6
<1> HIDE DEF stays, all
<1>8. /\ \A st \in stays : \E car \in Cars(l, start, end) : IsOf(st, car) /\ car.from <= st.from
      /\ \A st, other \in stays : IsOf(st, other) => st = other
      /\ Len(w) <= MaxRows =>
           \A car \in Cars(l, start, end) : Untied(car.spot, start, end) =>
             \E st \in stays : HasStay(st, car)
  BY <1>3, <1>7
<1> QED
  BY <1>8 DEF DwellTells, HasStay, stays, w

-----------------------------------------------------------------------------
(***************************************************************************)
(* The heatmap.                                                            *)
(***************************************************************************)
\* The members of R fall into parts, one per key in S; v is how many each has.
Parts(S, R, key, part, v) ==
  /\ IsFiniteSet(S) /\ IsFiniteSet(R) /\ key \in [R -> S]
  /\ \A d \in S : part[d] \in SUBSET R /\ v[d] = Cardinality(part[d])
  /\ \A d \in S : \A r \in R : r \in part[d] <=> key[r] = d

LEMMA PartsAddUp ==
  ASSUME NEW S, NEW R, NEW key, NEW part, NEW v, Parts(S, R, key, part, v), NEW g, Sums(g, v, S)
  PROVE  g[S] = Cardinality(R)
<1> USE DEF Parts
<1> DEFINE parts(s) == {r \in R : key[r] \in s}
           G == {s \in SUBSET S : g[s] = Cardinality(parts(s))}
<1>1. {} \in G
  <2>1. parts({}) = {}
    OBVIOUS
  <2> QED
    BY <2>1, SumStep, FS_EmptySet
<1>2. ASSUME NEW s \in SUBSET S, s # {}
      PROVE  \E x \in s : s \ {x} \in G => s \in G
  <2>1. PICK x \in s : g[s] = g[s \ {x}] + v[x]
    BY <1>2, SumStep
  <2> DEFINE one == part[x]
             rest == parts(s \ {x})
  <2>2. parts(s) = rest \cup one /\ rest \cap one = {}
    OBVIOUS
  <2>3. rest \in SUBSET R /\ one \in SUBSET R /\ v[x] = Cardinality(one)
    OBVIOUS
  <2> HIDE DEF parts, one, rest
  <2>4. /\ IsFiniteSet(rest) /\ Cardinality(rest) \in Nat
        /\ IsFiniteSet(one) /\ Cardinality(one) \in Nat
    BY <2>3, FS_Subset, FS_CardinalityType
  <2>5. Cardinality(rest \cup one) = Cardinality(rest) + Cardinality(one) - Cardinality(rest \cap one)
    BY <2>4, FS_Union
  <2>6. Cardinality(rest \cap one) = 0
    BY <2>2, FS_EmptySet
  <2>7. Cardinality(parts(s)) = Cardinality(rest) + Cardinality(one)
    BY <2>2, <2>4, <2>5, <2>6
  <2>8. s \ {x} \in G => g[s] = Cardinality(parts(s))
    BY <2>1, <2>3, <2>7 DEF rest
  <2> QED
    BY <2>8
<1>3. IsFiniteSet(S)
  OBVIOUS
<1>4. S \in G
  <2> HIDE DEF G
  <2> QED
    BY <1>1, <1>2, <1>3, SubsetInduction
<1>5. parts(S) = R
  OBVIOUS
<1> QED
  BY <1>4, <1>5

LEMMA MinutesAre ==
  ASSUME NEW T, IsFiniteSet(T)
  PROVE  \E g : Sums(g, [st \in T |-> st.to - st.from], T) /\ Minutes(T) = g[T]
<1> DEFINE v == [st \in T |-> st.to - st.from]
           Folds(g) == g = [s \in SUBSET T |-> IF s = {} THEN 0
                              ELSE g[s \ {CHOOSE x \in s : TRUE}]
                                   + ((CHOOSE x \in s : TRUE).to - (CHOOSE x \in s : TRUE).from)]
           g == CHOOSE g : Folds(g)
<1>1. \A s \in SUBSET T : s # {} =>
        v[CHOOSE x \in s : TRUE] = (CHOOSE x \in s : TRUE).to - (CHOOSE x \in s : TRUE).from
  OBVIOUS
<1> HIDE DEF v
<1>2. \A h : Folds(h) <=> Sums(h, v, T)
  BY <1>1 DEF Sums
<1>3. \E h : Sums(h, v, T)
  BY SumsExist
<1>4. Folds(g)
  <2> HIDE DEF Folds
  <2> QED
    BY <1>2, <1>3
<1>5. Minutes(T) = g[T]
  BY DEF Minutes, FoldSet, MapThenFoldSet
<1> HIDE DEF g, Folds
<1> QED
  BY <1>2, <1>4, <1>5 DEF v

\* The length of an interval of time.
LEMMA Length ==
  ASSUME NEW a \in Nat, NEW b \in Nat, a <= b
  PROVE  IsFiniteSet(a..(b - 1)) /\ Cardinality(a..(b - 1)) = b - a
<1>1. b - 1 \in Int
  OBVIOUS
<1>2. /\ IsFiniteSet(a..(b - 1))
      /\ Cardinality(a..(b - 1)) = IF a > b - 1 THEN 0 ELSE b - 1 - a + 1
  BY <1>1, FS_Interval
<1> QED
  BY <1>2

\* The ticks within one of the stays T.
During(T) == UNION {st.from..(st.to - 1) : st \in T}

\* Stays that do not overlap add up to the ticks within them.
LEMMA StaysAddUp ==
  ASSUME NEW T, IsFiniteSet(T), NEW start \in Nat, NEW end \in Nat,
         \A st \in T : st.from \in start..end /\ st.to \in start..end /\ st.from < st.to,
         \A a, b \in T : a # b => a.to <= b.from \/ b.to <= a.from
  PROVE  Minutes(T) = Cardinality(During(T))
<1> DEFINE R == During(T)
           span(st) == st.from..(st.to - 1)
           In(st, r) == r \in span(st)
           key == [r \in R |-> CHOOSE st \in T : In(st, r)]
           part == [st \in T |-> span(st)]
           v == [st \in T |-> st.to - st.from]
<1>1. \A st \in T : st.from \in Nat /\ st.to \in Nat /\ st.to - 1 \in Int
  OBVIOUS
<1>2. \A st \in T : IsFiniteSet(span(st)) /\ Cardinality(span(st)) = st.to - st.from
  BY <1>1, Length
<1>3. \A a, b \in T : \A r \in Int : r \in span(a) /\ r \in span(b) => a = b
  BY <1>1
<1>4. \A r \in R : \E st \in T : r \in span(st)
  BY DEF During
<1>5. \A st \in T : span(st) \in SUBSET R
  BY DEF During
<1>6. R \subseteq start..end
  <2>1. \A st \in T : \A r \in span(st) : r \in start..end
    BY <1>1
  <2> QED
    BY <1>4, <2>1
<1>7. IsFiniteSet(R)
  <2>1. IsFiniteSet(start..end)
    BY FS_Interval
  <2> HIDE DEF R
  <2> QED
    BY <1>6, <2>1, FS_Subset
<1>8. \A r \in R : key[r] \in T /\ r \in span(key[r])
  <2> TAKE r \in R
  <2>1. key[r] = CHOOSE st \in T : In(st, r)
    OBVIOUS
  <2>2. \E st \in T : In(st, r)
    BY <1>4
  <2> HIDE DEF In, key
  <2>3. key[r] \in T /\ In(key[r], r)
    BY <2>1, <2>2
  <2> QED
    BY <2>3 DEF In
<1>9. key \in [R -> T]
  BY <1>8
<1> HIDE DEF R, key
<1>10. \A st \in T : part[st] = span(st) /\ v[st] = st.to - st.from
  OBVIOUS
<1> HIDE DEF span, part, v
<1>11. \A d \in T : part[d] \in SUBSET R /\ v[d] = Cardinality(part[d])
  BY <1>2, <1>5, <1>10
<1>12. \A d \in T : \A r \in R : r \in part[d] <=> key[r] = d
  <2>1. \A r \in R : r \in Int
    BY <1>6
  <2> QED
    BY <1>3, <1>8, <1>10, <2>1
<1>13. Parts(T, R, key, part, v)
  BY <1>7, <1>9, <1>11, <1>12 DEF Parts
<1>14. PICK g : Sums(g, v, T) /\ Minutes(T) = g[T]
  BY MinutesAre DEF v
<1> QED
  BY <1>13, <1>14, PartsAddUp DEF R

LEMMA StaysFinite ==
  ASSUME NEW rows, NEW I, IsFiniteSet(I)
  PROVE  IsFiniteSet(StaysIn(rows, I))
<1> DEFINE all == {Stay(rows, i, j) : i \in I, j \in I}
           f == [p \in I \X I |-> Stay(rows, p[1], p[2])]
<1>1. IsFiniteSet(I \X I)
  BY FS_Product
<1>2. f \in Surjection(I \X I, all)
  <2>1. f \in [I \X I -> all]
    OBVIOUS
  <2>2. ASSUME NEW st \in all PROVE \E p \in I \X I : f[p] = st
    <3>1. PICK i \in I, j \in I : st = Stay(rows, i, j)
      OBVIOUS
    <3>2. <<i, j>> \in I \X I /\ f[<<i, j>>] = Stay(rows, i, j)
      OBVIOUS
    <3> QED
      BY <3>1, <3>2
  <2> QED
    BY <2>1, <2>2 DEF Surjection
<1>3. IsFiniteSet(all)
  <2> HIDE DEF f, all
  <2> QED
    BY <1>1, <1>2, FS_Surjection
<1>4. StaysIn(rows, I) \in SUBSET all
  BY DEF StaysIn
<1> QED
  BY <1>3, <1>4, FS_Subset

\* What the rows of a window say of a spot s, by their indices I.
SpotRows(w, I, s, start, end) ==
  /\ I \subseteq Nat
  /\ \A k \in I : w[k].at \in Nat /\ w[k].at \in start..end /\ w[k].occupied \in BOOLEAN
  /\ \A k \in I : w[k].spot = s => w[k] \in EventsOf(s)
  /\ \A e \in EventsOf(s) : e.at \in start..end => \E k \in I : w[k] = e /\ w[k].spot = s
  /\ \A h, k \in I : w[h] = w[k] => h = k
  /\ \A h, k \in I : w[h].spot = w[k].spot =>
       (h < k => w[h].at <= w[k].at) /\ (w[h].at < w[k].at => h < k)

LEMMA SpotRowsIs ==
  ASSUME AnalyticsInv, NEW tie \in Ties, NEW l \in Lot, NEW start, NEW end,
         NEW w, w = Window(tie, l, start, end), NEW I, I = 1..Len(w), NEW s \in SpotsOf(l)
  PROVE  RowsOK(w) /\ SpotRows(w, I, s, start, end)
<1>1. /\ RowsOK(w) /\ I \subseteq Nat
      /\ \A k \in I : /\ w[k] \in log /\ w[k].spot \in SpotsOf(l) /\ w[k].occupied \in BOOLEAN
                      /\ w[k].at \in start..end /\ w[k].at \in Nat
      /\ \A e \in log : e.spot \in SpotsOf(l) /\ e.at \in start..end => \E k \in I : w[k] = e
      /\ \A h, k \in I : w[h] = w[k] => h = k
      /\ \A h, k \in I : w[h].spot = w[k].spot =>
           (h < k => w[h].at <= w[k].at) /\ (w[h].at < w[k].at => h < k)
  <2>1. WindowOK(w, I, l, start, end)
    BY WindowRows
  <2> QED
    BY <2>1 DEF WindowOK
<1>2. \A e : e \in EventsOf(s) <=> e \in log /\ e.spot = s
  BY DEF EventsOf
<1>3. \A k \in I : w[k].spot = s => w[k] \in EventsOf(s)
  BY <1>1, <1>2
<1>4. \A e \in EventsOf(s) : e.at \in start..end => \E k \in I : w[k] = e /\ w[k].spot = s
  BY <1>1, <1>2
<1> QED
  BY <1>1, <1>3, <1>4 DEF SpotRows

\* A stay ends before the next one of its spot begins.
LEMMA StaysInTurn ==
  ASSUME NEW w, NEW I, NEW s, NEW start, NEW end, SpotRows(w, I, s, start, end),
         NEW a \in StaysIn(w, I), NEW b \in StaysIn(w, I), a.spot = s, b.spot = s, a # b
  PROVE  a.to <= b.from \/ b.to <= a.from
<1>1. PICK i \in I, j \in I : Counted(w, I, i, j) /\ a = Stay(w, i, j)
  BY StayIff
<1>2. PICK g \in I, h \in I : Counted(w, I, g, h) /\ b = Stay(w, g, h)
  BY StayIff
<1>3. /\ i < j /\ w[i].spot = w[j].spot /\ w[i].at < w[j].at /\ w[i].occupied /\ ~w[j].occupied
      /\ \A k \in I : i < k /\ k < j => w[k].spot # w[j].spot
  BY <1>1 DEF Counted, Left
<1>4. /\ g < h /\ w[g].spot = w[h].spot /\ w[g].at < w[h].at /\ w[g].occupied /\ ~w[h].occupied
      /\ \A k \in I : g < k /\ k < h => w[k].spot # w[h].spot
  BY <1>2 DEF Counted, Left
<1>5. /\ w[j].spot = s /\ w[h].spot = s /\ a.from = w[i].at /\ a.to = w[j].at
      /\ b.from = w[g].at /\ b.to = w[h].at
  BY <1>1, <1>2 DEF Stay
<1>6. /\ i \in Nat /\ j \in Nat /\ g \in Nat /\ h \in Nat
      /\ \A x, y \in I : w[x].spot = w[y].spot /\ x < y => w[x].at <= w[y].at
  BY DEF SpotRows
<1>7. CASE j < h
  <2>1. ~(g < j) /\ g # j
    BY <1>3, <1>4, <1>5, <1>7
  <2>2. j < g
    BY <1>6, <2>1
  <2> QED
    BY <1>4, <1>5, <1>6, <2>2
<1>8. CASE h < j
  <2>1. ~(i < h) /\ i # h
    BY <1>3, <1>4, <1>5, <1>8
  <2>2. h < i
    BY <1>6, <2>1
  <2> QED
    BY <1>3, <1>5, <1>6, <2>2
<1>9. CASE j = h
  <2>1. ~(i < g) /\ ~(g < i)
    BY <1>3, <1>4, <1>5, <1>9
  <2>2. i = g
    BY <1>6, <2>1
  <2> QED
    BY <1>1, <1>2, <1>9, <2>2
<1> QED
  BY <1>6, <1>7, <1>8, <1>9

\* The spot is parked on during a stay,
LEMMA StayParked ==
  ASSUME NEW w, NEW I, NEW s, NEW start \in Nat, NEW end \in Nat, SpotRows(w, I, s, start, end),
         NEW st \in StaysIn(w, I), st.spot = s, NEW t \in Nat, st.from <= t, t < st.to
  PROVE  ParkedAt(s, t)
<1>1. PICK i \in I, j \in I : Counted(w, I, i, j) /\ st = Stay(w, i, j)
  BY StayIff
<1>2. /\ w[i].spot = w[j].spot /\ w[i].occupied
      /\ \A k \in I : i < k /\ k < j => w[k].spot # w[j].spot
  BY <1>1 DEF Counted, Left
<1>3. w[j].spot = s /\ st.from = w[i].at /\ st.to = w[j].at
  BY <1>1 DEF Stay
<1>4. /\ w[i] \in EventsOf(s)
      /\ w[i].at \in Nat /\ w[j].at \in Nat /\ w[i].at \in start..end /\ w[j].at \in start..end
  BY <1>2, <1>3 DEF SpotRows
<1>5. ASSUME NEW f \in EventsOf(s), f.at \in (w[i].at + 1)..t
      PROVE  FALSE
  <2>1. f.at \in start..end /\ w[i].at < f.at /\ f.at < w[j].at
    BY <1>3, <1>4, <1>5
  <2>2. PICK k \in I : w[k] = f /\ w[k].spot = s
    BY <2>1 DEF SpotRows
  <2>3. i < k /\ k < j
    BY <1>2, <1>3, <2>1, <2>2 DEF SpotRows
  <2> QED
    BY <1>2, <1>3, <2>2, <2>3
<1> QED
  BY <1>2, <1>3, <1>4, <1>5 DEF ParkedAt

\* and after the last report of a window, if that is a car, until its end.
LEMMA OpenParked ==
  ASSUME NEW w, NEW I, NEW s, NEW start \in Nat, NEW end \in Nat, SpotRows(w, I, s, start, end),
         NEW i, LastOf(w, I, s, i), w[i].occupied, NEW t \in Nat, w[i].at <= t, t <= end
  PROVE  ParkedAt(s, t)
<1>1. i \in I /\ w[i].spot = s /\ \A k \in I : w[k].spot = s => k <= i
  BY DEF LastOf
<1>2. w[i] \in EventsOf(s) /\ w[i].at \in Nat /\ w[i].at \in start..end /\ i \in Nat
  BY <1>1 DEF SpotRows
<1>3. ASSUME NEW f \in EventsOf(s), f.at \in (w[i].at + 1)..t
      PROVE  FALSE
  <2>1. f.at \in start..end /\ w[i].at < f.at
    BY <1>2, <1>3
  <2>2. PICK k \in I : w[k] = f /\ w[k].spot = s
    BY <2>1 DEF SpotRows
  <2>3. i < k /\ k \in Nat
    BY <1>1, <2>1, <2>2 DEF SpotRows
  <2> QED
    BY <1>1, <1>2, <2>2, <2>3
<1> QED
  BY <1>1, <1>2, <1>3 DEF ParkedAt

\* The last car came after every stay of its spot.
LEMMA OpenAfterStays ==
  ASSUME NEW w, NEW I, NEW s, NEW start, NEW end, SpotRows(w, I, s, start, end),
         NEW i, LastOf(w, I, s, i), w[i].occupied, NEW st \in StaysIn(w, I), st.spot = s
  PROVE  st.to <= w[i].at
<1>1. i \in I /\ w[i].spot = s /\ \A k \in I : w[k].spot = s => k <= i
  BY DEF LastOf
<1>2. PICK g \in I, h \in I : Counted(w, I, g, h) /\ st = Stay(w, g, h)
  BY StayIff
<1>3. w[h].spot = s /\ st.to = w[h].at /\ ~w[h].occupied
  BY <1>2 DEF Stay, Counted, Left
<1>4. h \in Nat /\ i \in Nat /\ h <= i /\ h # i
  BY <1>1, <1>3 DEF SpotRows
<1>5. h < i
  BY <1>4
<1> QED
  BY <1>1, <1>3, <1>5 DEF SpotRows

\* Of a spot that is followed exactly, every tick it is parked on is in a stay, or
\* after the last car came.
LEMMA ParkedFollowed ==
  ASSUME AnalyticsInv, NEW w, NEW I, NEW s, NEW start \in Nat, NEW end \in Nat,
         SpotRows(w, I, s, start, end),
         FollowedExactly(s, start, end), NEW t \in start..(end - 1), ParkedAt(s, t)
  PROVE  \/ \E st \in StaysIn(w, I) : st.spot = s /\ t \in st.from..(st.to - 1)
         \/ \E i : LastOf(w, I, s, i) /\ w[i].occupied /\ w[i].at <= t
<1>1. PICK e \in EventsOf(s) : e.at <= t /\ e.occupied /\ ~\E f \in EventsOf(s) : f.at \in (e.at + 1)..t
  BY DEF ParkedAt
<1>2. /\ ~ParkedAt(s, start - 1)
      /\ \A g \in EventsOf(s) : g.at \in start..end /\ g.occupied => ~ParkedAt(s, g.at - 1)
      /\ \A g, h \in EventsOf(s) : g.at \in start..end /\ g.at = h.at => g = h
  BY DEF FollowedExactly, Untied
<1>3. t \in Nat /\ start <= t /\ t < end
  OBVIOUS
<1>4. e.at \in Nat
  <2>1. e \in log
    BY DEF EventsOf
  <2> QED
    BY <2>1, RowTypes DEF AnalyticsInv
<1>5. e.at \in start..end
  <2> SUFFICES ASSUME e.at < start PROVE FALSE
    BY <1>1, <1>3, <1>4
  <2>1. e.at <= start - 1 /\ ~\E f \in EventsOf(s) : f.at \in (e.at + 1)..(start - 1)
    BY <1>1, <1>3, <1>4
  <2> QED
    BY <1>1, <1>2, <2>1 DEF ParkedAt
<1>6. PICK a \in I : w[a] = e /\ w[a].spot = s
  BY <1>5 DEF SpotRows
<1> DEFINE later == {k \in I : w[k].spot = s /\ a < k}
<1>7. a \in Nat /\ \A k \in I : k \in Nat
  BY DEF SpotRows
<1>8. CASE later = {}
  <2>1. \A k \in I : w[k].spot = s => k <= a
    BY <1>7, <1>8
  <2> QED
    BY <1>1, <1>6, <2>1 DEF LastOf
<1>9. CASE later # {}
  <2>1. later \in SUBSET Nat
    BY <1>7
  <2>2. PICK j \in later : \A k \in later : j <= k
    <3> HIDE DEF later
    <3> QED
      BY <1>9, <2>1, LeastElement
  <2>3. j \in I /\ w[j].spot = s /\ a < j /\ j \in Nat
    BY <1>7
  <2>4. ASSUME NEW k \in I, w[k].spot = s, a < k, k < j
        PROVE  FALSE
    <3>1. k \in later
      BY <2>4
    <3> HIDE DEF later
    <3> QED
      BY <1>7, <2>2, <2>3, <2>4, <3>1
  <2> HIDE DEF later
  <2>5. /\ w[j] \in EventsOf(s) /\ w[a] # w[j] /\ w[a].at <= w[j].at
        /\ w[j].at \in Nat /\ w[j].at \in start..end
    BY <1>6, <1>7, <2>3 DEF SpotRows
  <2>6. w[a].at < w[j].at
    <3>1. w[a].at # w[j].at
      BY <1>2, <1>5, <1>6, <2>5
    <3> QED
      BY <1>4, <1>6, <2>5, <3>1
  <2>7. t < w[j].at
    BY <1>1, <1>3, <1>4, <1>6, <2>5, <2>6
  <2>8. ~w[j].occupied
    <3> SUFFICES ASSUME w[j].occupied PROVE FALSE
      OBVIOUS
    <3>1. ASSUME NEW f \in EventsOf(s), f.at \in (e.at + 1)..(w[j].at - 1)
          PROVE  FALSE
      <4>1. f.at \in start..end /\ w[a].at < f.at /\ f.at < w[j].at
        BY <1>4, <1>5, <1>6, <2>5, <3>1
      <4>2. PICK k \in I : w[k] = f /\ w[k].spot = s
        BY <4>1 DEF SpotRows
      <4>3. a < k /\ k < j
        BY <1>6, <2>3, <4>1, <4>2 DEF SpotRows
      <4> QED
        BY <2>4, <4>2, <4>3
    <3>2. e.at <= w[j].at - 1
      BY <1>4, <1>6, <2>5, <2>6
    <3>3. ParkedAt(s, w[j].at - 1)
      BY <1>1, <3>1, <3>2 DEF ParkedAt
    <3> QED
      BY <1>2, <2>5, <3>3
  <2>9. Counted(w, I, a, j)
    BY <1>1, <1>6, <2>3, <2>4, <2>6, <2>8 DEF Counted, Left
  <2>10. Stay(w, a, j) \in StaysIn(w, I)
    BY <2>3, <2>9, StayIff
  <2>11. Stay(w, a, j).spot = s /\ t \in Stay(w, a, j).from..(Stay(w, a, j).to - 1)
    <3>1. t \in w[a].at..(w[j].at - 1)
      BY <1>1, <1>3, <1>4, <1>6, <2>5, <2>7
    <3> QED
      BY <2>3, <3>1 DEF Stay
  <2> QED
    BY <2>10, <2>11
<1> QED
  BY <1>8, <1>9

LEMMA HeatTold ==
  ASSUME AnalyticsInv, NEW tie \in Ties, NEW l \in Lot, NEW end \in 0..now, NEW start \in 0..end,
         NEW w, w = Window(tie, l, start, end), NEW s \in SpotsOf(l)
  PROVE  HeatTells(Follow(w), s, start, end)
<1> DEFINE f == Follow(w)
           I == 1..Len(w)
           T == {st \in f.stays : st.spot = s}
           since == f.since[s]
           open == IF since = Never THEN {} ELSE since..(end - 1)
           M == During(T)
           P == {t \in start..(end - 1) : ParkedAt(s, t)}
<1>1. start \in Nat /\ end \in Nat /\ start <= end /\ s \in Spot
  BY RowTypes DEF AnalyticsInv, SpotsOf
<1>2. RowsOK(w) /\ SpotRows(w, I, s, start, end)
  <2>1. I = 1..Len(w)
    OBVIOUS
  <2> HIDE DEF I
  <2> QED
    BY <2>1, SpotRowsIs
<1>3. After(w, I, f)
  BY <1>2, FollowIs
<1>4. f.stays = StaysIn(w, I) /\ IsFiniteSet(f.stays) /\ SinceIs(w, I, s, since)
  <2>1. IsFiniteSet(I)
    BY <1>2, FS_Interval DEF RowsOK
  <2> HIDE DEF I, f
  <2>2. f.stays = StaysIn(w, I) /\ SinceIs(w, I, s, since)
    BY <1>1, <1>3 DEF After
  <2> QED
    BY <2>1, <2>2, StaysFinite
<1>5. HeatMinutes(f, s, end) = Minutes(T) + (IF since = Never THEN 0 ELSE end - since)
  BY DEF HeatMinutes
<1> HIDE DEF f, I, since
<1>6. \A st : st \in T <=> st \in StaysIn(w, I) /\ st.spot = s
  BY <1>4
<1>7. IsFiniteSet(T)
  BY <1>4, FS_Subset
<1> HIDE DEF T
<1>8. \A st \in T : st.from \in start..end /\ st.to \in start..end /\ st.from < st.to
  <2> TAKE st \in T
  <2>1. PICK i \in I, j \in I : Counted(w, I, i, j) /\ st = Stay(w, i, j)
    BY <1>6, StayIff
  <2>2. st.from = w[i].at /\ st.to = w[j].at /\ w[i].at < w[j].at
    BY <2>1 DEF Stay, Counted
  <2> QED
    BY <1>2, <2>2 DEF SpotRows
<1>9. \A a, b \in T : a # b => a.to <= b.from \/ b.to <= a.from
  BY <1>2, <1>6, StaysInTurn
<1>10. Minutes(T) = Cardinality(M)
  BY <1>1, <1>7, <1>8, <1>9, StaysAddUp
<1>11. since # Never => \E i : LastOf(w, I, s, i) /\ w[i].occupied /\ w[i].at = since
  BY <1>4 DEF SinceIs
<1>12. \A i : LastOf(w, I, s, i) /\ w[i].occupied => since # Never /\ w[i].at = since
  <2> TAKE i
  <2> HAVE LastOf(w, I, s, i) /\ w[i].occupied
  <2>1. \A j : LastOf(w, I, s, j) => j = i
    BY <1>2 DEF LastOf, SpotRows
  <2>2. since = w[i].at
    <3>1. i \in I
      BY DEF LastOf
    <3>2. \E j \in I : LastOf(w, I, s, j) /\ w[j].occupied /\ since = w[j].at
      BY <1>4, <3>1 DEF SinceIs
    <3> QED
      BY <2>1, <3>2
  <2>3. w[i].at \in Nat
    BY <1>2 DEF LastOf, SpotRows
  <2> QED
    BY <2>2, <2>3 DEF Never
<1>13. since # Never => since \in start..end /\ since \in Nat
  BY <1>2, <1>11 DEF LastOf, SpotRows
<1>14. /\ IsFiniteSet(open)
       /\ Cardinality(open) = IF since = Never THEN 0 ELSE end - since
       /\ open \subseteq start..(end - 1)
  <2>1. CASE since = Never
    BY <2>1, FS_EmptySet
  <2>2. CASE since # Never
    <3>1. since \in start..end /\ since \in Nat /\ since <= end
      BY <1>1, <1>13, <2>2
    <3>2. IsFiniteSet(since..(end - 1)) /\ Cardinality(since..(end - 1)) = end - since
      BY <1>1, <3>1, Length
    <3>3. open = since..(end - 1)
      BY <2>2
    <3> QED
      BY <1>1, <2>2, <3>1, <3>2, <3>3
  <2> QED
    BY <2>1, <2>2
<1>15. \A t : t \in open <=> since # Never /\ t \in since..(end - 1)
  OBVIOUS
<1>16. \A t : t \in M <=> \E st \in T : t \in st.from..(st.to - 1)
  BY DEF During
<1>17. \A t : t \in P <=> t \in start..(end - 1) /\ ParkedAt(s, t)
  OBVIOUS
<1>18. ParkedMinutes(s, start, end) = Cardinality(P)
  BY DEF ParkedMinutes
<1>19. P \subseteq start..(end - 1)
  OBVIOUS
<1> HIDE DEF open, M, P
<1>20. M \subseteq start..(end - 1)
  <2> SUFFICES ASSUME NEW t \in M PROVE t \in start..(end - 1)
    OBVIOUS
  <2>1. PICK st \in T : t \in st.from..(st.to - 1)
    BY <1>16
  <2> QED
    BY <1>1, <1>8, <2>1
<1>21. IsFiniteSet(start..(end - 1)) /\ IsFiniteSet(M) /\ IsFiniteSet(P)
  <2>1. IsFiniteSet(start..(end - 1))
    BY <1>1, Length
  <2> QED
    BY <1>19, <1>20, <2>1, FS_Subset
<1>22. M \cap open = {}
  <2> SUFFICES ASSUME NEW t \in M, t \in open PROVE FALSE
    OBVIOUS
  <2>1. since # Never /\ t \in since..(end - 1) /\ since \in Nat
    BY <1>13, <1>15
  <2>2. PICK st \in T : t \in st.from..(st.to - 1)
    BY <1>16
  <2>3. PICK i : LastOf(w, I, s, i) /\ w[i].occupied /\ w[i].at = since
    BY <1>11, <2>1
  <2>4. st.to <= since
    BY <1>2, <1>6, <2>3, OpenAfterStays
  <2>5. st.from \in Nat /\ st.to \in Nat
    BY <1>1, <1>8
  <2> QED
    BY <2>1, <2>2, <2>4, <2>5
<1>23. M \subseteq P
  <2> SUFFICES ASSUME NEW t \in M PROVE t \in P
    OBVIOUS
  <2>1. PICK st \in T : t \in st.from..(st.to - 1)
    BY <1>16
  <2>2. st.from \in Nat /\ st.to \in Nat
    BY <1>1, <1>8
  <2>3. t \in Nat /\ st.from <= t /\ t < st.to
    BY <2>1, <2>2
  <2>4. ParkedAt(s, t)
    BY <1>1, <1>2, <1>6, <2>3, StayParked
  <2> QED
    BY <1>17, <1>20, <2>4
<1>24. open \subseteq P
  <2> SUFFICES ASSUME NEW t \in open PROVE t \in P
    OBVIOUS
  <2>1. since # Never /\ t \in since..(end - 1) /\ since \in Nat
    BY <1>13, <1>15
  <2>2. PICK i : LastOf(w, I, s, i) /\ w[i].occupied /\ w[i].at = since
    BY <1>11, <2>1
  <2>3. t \in Nat /\ w[i].at <= t /\ t <= end
    BY <1>1, <2>1, <2>2
  <2>4. ParkedAt(s, t)
    BY <1>1, <1>2, <2>2, <2>3, OpenParked
  <2> QED
    BY <1>14, <1>17, <2>4
<1>25. ASSUME FollowedExactly(s, start, end), NEW t \in P
       PROVE  t \in M \cup open
  <2>1. t \in start..(end - 1) /\ ParkedAt(s, t) /\ t < end /\ t \in Nat
    BY <1>1, <1>17
  <2>2. \/ \E st \in StaysIn(w, I) : st.spot = s /\ t \in st.from..(st.to - 1)
        \/ \E i : LastOf(w, I, s, i) /\ w[i].occupied /\ w[i].at <= t
    BY <1>1, <1>2, <1>25, <2>1, ParkedFollowed
  <2>3. ASSUME NEW i, LastOf(w, I, s, i), w[i].occupied, w[i].at <= t
        PROVE  t \in open
    <3>1. since # Never /\ since <= t /\ since \in Nat
      BY <1>12, <1>13, <2>3
    <3> QED
      BY <1>1, <1>15, <2>1, <3>1
  <2> QED
    BY <1>6, <1>16, <2>2, <2>3
<1>26. HeatMinutes(f, s, end) = Cardinality(M) + Cardinality(open)
  BY <1>5, <1>10, <1>14
<1>27. FollowedExactly(s, start, end) => P \subseteq M \cup open
  BY <1>25
<1>28. /\ Cardinality(M) \in Nat /\ Cardinality(open) \in Nat
       /\ Cardinality(M \cup open) = Cardinality(M) + Cardinality(open) - Cardinality(M \cap open)
       /\ Cardinality(M \cap open) = 0
  BY <1>14, <1>21, <1>22, FS_Union, FS_EmptySet, FS_CardinalityType
<1>29. HeatMinutes(f, s, end) = Cardinality(M \cup open)
  BY <1>26, <1>28
<1>30. Cardinality(M \cup open) <= Cardinality(P)
  BY <1>21, <1>23, <1>24, FS_Subset
<1>31. FollowedExactly(s, start, end) => M \cup open = P
  BY <1>23, <1>24, <1>27
<1> QED
  BY <1>18, <1>29, <1>30, <1>31 DEF HeatTells, f

LEMMA DurationsFollow == AnalyticsInv => DurationsTellParking
<1> SUFFICES ASSUME AnalyticsInv, NEW tie \in Ties, NEW l \in Lot, NEW end \in 0..now,
                    NEW start \in 0..end
             PROVE  LET rows == Window(tie, l, start, end)
                        f == Follow(rows)
                    IN  /\ DwellTells(rows, l, start, end)
                        /\ \A s \in SpotsOf(l) : HeatTells(f, s, start, end)
  BY DEF DurationsTellParking
<1> DEFINE w == Window(tie, l, start, end)
<1>1. start \in Nat /\ end \in Nat
  BY RowTypes DEF AnalyticsInv
<1>2. DwellTells(w, l, start, end)
  BY <1>1, Dwells
<1>3. \A s \in SpotsOf(l) : HeatTells(Follow(w), s, start, end)
  <2>1. w = Window(tie, l, start, end)
    OBVIOUS
  <2> HIDE DEF w
  <2> QED
    BY <2>1, HeatTold
<1> QED
  BY <1>2, <1>3

-----------------------------------------------------------------------------
(***************************************************************************)
(* Readers of single spots.                                                *)
(***************************************************************************)
LEMMA EventTypes ==
  ASSUME AnalyticsInv, NEW s
  PROVE  /\ \A e : e \in EventsOf(s) <=> e \in log /\ e.spot = s
         /\ \A e \in EventsOf(s) : /\ e.id \in Nat /\ e.at \in Nat /\ e.at <= now /\ e.id <= drawn
                                   /\ e.occupied \in BOOLEAN
         /\ \A e, f \in EventsOf(s) : e.id = f.id => e = f
         /\ IsFiniteSet(EventsOf(s)) /\ drawn \in Nat /\ now \in Nat
<1>1. \A e : e \in EventsOf(s) <=> e \in log /\ e.spot = s
  BY DEF EventsOf
<1>2. \A e \in log : e.id \in Nat /\ e.at \in Nat /\ e.at <= now /\ e.id <= drawn /\ e.occupied \in BOOLEAN
  BY RowTypes DEF AnalyticsInv, Past, Drawn
<1>3. drawn \in Nat /\ now \in Nat
  BY RowTypes DEF AnalyticsInv, AnalyticsTypeOK
<1>4. IsFiniteSet(log) /\ \A e, f \in log : e.id = f.id => e = f
  BY DEF AnalyticsInv, Drawn
<1>5. EventsOf(s) \in SUBSET log
  BY <1>1
<1>6. IsFiniteSet(EventsOf(s))
  BY <1>4, <1>5, FS_Subset
<1> QED
  BY <1>1, <1>2, <1>3, <1>4, <1>6

\* The slot status is the row with the highest id.
LEMMA SlotStatusIs ==
  ASSUME AnalyticsInv, NEW s, Known(s)
  PROVE  SlotStatus(s) \in EventsOf(s) /\ \A f \in EventsOf(s) : f.id <= SlotStatus(s).id
<1> DEFINE R == EventsOf(s)
           ids == {e.id : e \in R}
           Highest(e) == \A f \in R : f.id <= e.id
<1>1. \A e \in R : e.id \in Nat /\ e.id <= drawn
  BY EventTypes
<1>2. SlotStatus(s) = CHOOSE e \in R : Highest(e)
  BY DEF SlotStatus
<1>3. R # {}
  BY DEF Known
<1> HIDE DEF R
<1>4. ids \in SUBSET Int /\ ids # {} /\ drawn \in Int /\ \A i \in ids : i <= drawn
  BY <1>1, <1>3, EventTypes
<1>5. \A e \in R : e.id \in ids
  OBVIOUS
<1>6. PICK i \in ids : \A j \in ids : j <= i
  <2> HIDE DEF ids
  <2> QED
    BY <1>4, GreatestElement
<1>7. PICK e \in R : e.id = i
  BY <1>6
<1> HIDE DEF ids
<1>8. Highest(e)
  BY <1>5, <1>6, <1>7
<1> HIDE DEF Highest
<1>9. SlotStatus(s) \in R /\ Highest(SlotStatus(s))
  BY <1>2, <1>7, <1>8
<1> QED
  BY <1>9 DEF R, Highest

LEMMA SplitByLatest ==
  ASSUME AnalyticsInv, NEW l, NEW s \in SpotsOf(l), Known(s)
  PROVE  /\ s \in Occupied(l) <=> SlotStatus(s).occupied
         /\ s \in Available(l) <=> ~SlotStatus(s).occupied
<1>1. \A u : Known(u) => SlotStatus(u).spot = u
  BY SlotStatusIs, EventTypes
<1>2. ASSUME NEW e \in LatestEvents(l)
      PROVE  e = SlotStatus(e.spot)
  BY <1>1 DEF LatestEvents
<1>3. SlotStatus(s) \in LatestEvents(l) /\ SlotStatus(s).spot = s
  BY <1>1 DEF LatestEvents
<1> QED
  BY <1>2, <1>3 DEF Occupied, Available

\* Ids in the order of stamps: the highest id has the latest stamp.
LEMMA LatestByTime ==
  ASSUME AnalyticsInv, NEW s, Known(s)
  PROVE  /\ InTime(s) => \A f \in EventsOf(s) : f.at <= SlotStatus(s).at
         /\ InOrder(s) => \A f \in EventsOf(s) : f = SlotStatus(s) \/ f.at < SlotStatus(s).at
<1> DEFINE e == SlotStatus(s)
<1>1. e \in EventsOf(s) /\ \A f \in EventsOf(s) : f.id <= e.id
  BY SlotStatusIs
<1> HIDE DEF e
<1>2. \A f \in EventsOf(s) : f = e \/ f.id < e.id
  BY <1>1, EventTypes
<1>3. e.at \in Nat
  BY <1>1, EventTypes
<1>4. InTime(s) => \A f \in EventsOf(s) : f.at <= e.at
  BY <1>1, <1>2, <1>3 DEF InTime
<1>5. InOrder(s) => \A f \in EventsOf(s) : f = e \/ f.at < e.at
  BY <1>1, <1>2 DEF InOrder
<1> QED
  BY <1>4, <1>5 DEF e

\* ORDER BY time, the newest first.
ByAge(tie, R) == {p \in R \X R : Earlier(tie, p[2], p[1])}

LEMMA ByAgeIs ==
  ASSUME NEW tie, NEW R, NEW e, NEW f
  PROVE  <<e, f>> \in ByAge(tie, R) <=> e \in R /\ f \in R /\ Earlier(tie, f, e)
BY DEF ByAge

LEMMA ByAgeTotal ==
  ASSUME AnalyticsInv, NEW tie \in Ties, NEW s, NEW R, R = EventsOf(s)
  PROVE  StrictTotal(ByAge(tie, R), R)
<1>1. /\ \A e \in R : ~Earlier(tie, e, e)
      /\ \A e, f \in R : e = f \/ Earlier(tie, e, f) \/ Earlier(tie, f, e)
      /\ \A e, f, g \in R : Earlier(tie, e, f) /\ Earlier(tie, f, g) => Earlier(tie, e, g)
  BY EarlierTotal
<1>2. \A e \in R : <<e, e>> \notin ByAge(tie, R)
  BY <1>1, ByAgeIs
<1>3. \A e, f \in R : e = f \/ <<e, f>> \in ByAge(tie, R) \/ <<f, e>> \in ByAge(tie, R)
  BY <1>1, ByAgeIs
<1>4. \A e, f, g \in R :
        <<e, f>> \in ByAge(tie, R) /\ <<f, g>> \in ByAge(tie, R) => <<e, g>> \in ByAge(tie, R)
  BY <1>1, ByAgeIs
<1> QED
  BY <1>2, <1>3, <1>4 DEF StrictTotal

\* The history of a slot begins with a row that has the latest stamp.
LEMMA HistoryHead ==
  ASSUME AnalyticsInv, NEW tie \in Ties, NEW s, Known(s)
  PROVE  /\ Head(History(tie, s)) \in EventsOf(s)
         /\ \A f \in EventsOf(s) : f.at <= Head(History(tie, s)).at
<1> DEFINE R == EventsOf(s)
           n == Cardinality(R)
           less == ByAge(tie, R)
           Before(f, g) == Earlier(tie, g, f)
           q == Ordered(R, Before)
           Ranks(x, k) == Cardinality({y \in R : Before(y, x)}) = k - 1
<1>1. IsFiniteSet(R) /\ R # {} /\ \A e \in R : e.at \in Nat
  BY EventTypes DEF Known
<1>2. StrictTotal(less, R)
  BY ByAgeTotal
<1>3. q = [k \in 1..n |-> CHOOSE x \in R : Ranks(x, k)]
  BY DEF Ordered
<1>4. \A x \in R : {y \in R : Before(y, x)} = Below(less, R, x)
  <2> HIDE DEF R
  <2> QED
    BY ByAgeIs DEF Below
<1>5. History(tie, s) = First(MaxHistory, q)
  BY DEF History
<1>6. \A e, f : <<e, f>> \in less => Earlier(tie, f, e)
  BY ByAgeIs
<1> HIDE DEF R, q, less
<1>7. ASSUME NEW k \in 1..n, \E x \in R : Cardinality(Below(less, R, x)) = k - 1
      PROVE  q[k] \in R /\ Cardinality(Below(less, R, q[k])) = k - 1
  <2>1. \E x \in R : Ranks(x, k)
    BY <1>4, <1>7
  <2>2. q[k] = CHOOSE x \in R : Ranks(x, k)
    BY <1>3
  <2> HIDE DEF Ranks
  <2>3. q[k] \in R /\ Ranks(q[k], k)
    BY <2>1, <2>2
  <2> QED
    BY <1>4, <2>3 DEF Ranks
<1>8. q = [k \in 1..n |-> q[k]]
  <2> HIDE DEF Ranks, n
  <2> QED
    BY <1>3
<1>9. Lists(q, R, less)
  BY <1>1, <1>2, <1>7, <1>8, OrderedLists
<1>10. /\ q \in Seq(R) /\ Len(q) \in Nat
       /\ \A k \in 1..Len(q) : q[k] \in R
       /\ \A f \in R : \E k \in 1..Len(q) : q[k] = f
       /\ \A j, k \in 1..Len(q) : j < k => <<q[j], q[k]>> \in less
  BY <1>9 DEF Lists
<1>11. 1 \in 1..Len(q) /\ Len(q) \in Nat \ {0}
  BY <1>1, <1>10
<1>12. q[1] \in R /\ \A f \in R : f.at <= q[1].at
  <2> SUFFICES ASSUME NEW f \in R PROVE f.at <= q[1].at
    BY <1>10, <1>11
  <2>1. PICK k \in 1..Len(q) : q[k] = f
    BY <1>10
  <2>2. f.at \in Nat /\ q[1].at \in Nat
    BY <1>1, <1>10, <1>11
  <2>3. CASE k = 1
    BY <2>1, <2>2, <2>3
  <2>4. CASE k # 1
    <3>1. 1 < k
      BY <2>4
    <3>2. Earlier(tie, f, q[1])
      BY <1>6, <1>10, <1>11, <2>1, <3>1
    <3> QED
      BY <2>2, <3>2 DEF Earlier
  <2> QED
    BY <2>3, <2>4
<1>13. PICK m \in Nat \ {0} : m <= Len(q) /\ First(MaxHistory, q) = SubSeq(q, 1, m)
  <2>1. MaxHistory \in Nat \ {0}
    BY AnalyticsAssumption
  <2> QED
    BY <1>11, <2>1 DEF First
<1>14. Head(SubSeq(q, 1, m)) = q[1]
  BY <1>10, <1>13
<1> QED
  BY <1>5, <1>12, <1>13, <1>14 DEF R

LEMMA SpotAgrees ==
  ASSUME AnalyticsInv, NEW tie \in Ties, NEW l \in Lot, NEW s \in SpotsOf(l), Known(s), InOrder(s),
         NEW since, since = Follow(Window(tie, l, 0, now)).since[s]
  PROVE  /\ Head(History(tie, s)) = SlotStatus(s)
         /\ since = (IF s \in Occupied(l) THEN SlotStatus(s).at ELSE Never)
         /\ ShownOccupied(s) <=> since # Never
         /\ s \in Available(l) <=> since = Never
<1> DEFINE e == SlotStatus(s)
           w == Window(tie, l, 0, now)
           I == 1..Len(w)
<1>1. e \in EventsOf(s) /\ e.at \in Nat /\ e.at \in 0..now
  BY SlotStatusIs, EventTypes
<1>2. \A f \in EventsOf(s) : f = e \/ f.at < e.at
  BY LatestByTime
<1>3. Head(History(tie, s)) = e
  <2> DEFINE h == Head(History(tie, s))
  <2>1. h \in EventsOf(s) /\ e.at <= h.at
    BY <1>1, HistoryHead
  <2> HIDE DEF h, e
  <2>2. h = e \/ h.at < e.at
    BY <1>2, <2>1
  <2>3. h.at \in Nat
    BY <2>1, EventTypes
  <2>4. h = e
    BY <1>1, <2>1, <2>2, <2>3
  <2> QED
    BY <2>4 DEF h
<1>4. RowsOK(w) /\ SpotRows(w, I, s, 0, now)
  <2>1. I = 1..Len(w) /\ w = Window(tie, l, 0, now)
    OBVIOUS
  <2> HIDE DEF I, w
  <2> QED
    BY <2>1, SpotRowsIs
<1>5. s \in Spot
  BY DEF SpotsOf
<1>6. SinceIs(w, I, s, since)
  BY <1>4, <1>5, FollowIs DEF After
<1>7. /\ s \in Occupied(l) <=> e.occupied
      /\ s \in Available(l) <=> ~e.occupied
      /\ ShownOccupied(s) <=> e.occupied
  BY SplitByLatest DEF ShownOccupied
<1> HIDE DEF e, w, I
<1>8. PICK k \in I : w[k] = e /\ w[k].spot = s
  BY <1>1, <1>4 DEF SpotRows
<1>9. \A i \in I : i \in Nat /\ (w[i].spot = s => w[i] \in EventsOf(s))
  BY <1>4 DEF SpotRows
<1>10. \A i \in I : w[i].spot = s => i = k \/ i < k
  <2> TAKE i \in I
  <2> HAVE w[i].spot = s
  <2>1. CASE w[i] = e
    BY <1>4, <1>8, <2>1 DEF SpotRows
  <2>2. CASE w[i].at < e.at
    BY <1>4, <1>8, <2>2 DEF SpotRows
  <2> QED
    BY <1>2, <1>9, <2>1, <2>2
<1>11. \A i : LastOf(w, I, s, i) <=> i = k
  BY <1>8, <1>9, <1>10 DEF LastOf
<1>12. e.at # Never
  BY <1>1 DEF Never
<1>13. since = IF e.occupied THEN e.at ELSE Never
  BY <1>6, <1>8, <1>11 DEF SinceIs
<1> QED
  BY <1>3, <1>7, <1>12, <1>13 DEF e

LEMMA SpotsAgreed ==
  ASSUME AnalyticsInv, NEW tie \in Ties, NEW l \in Lot
  PROVE  SpotsAgree(tie, l)
<1> SUFFICES ASSUME NEW s \in SpotsOf(l), Known(s),
                    NEW since, since = Follow(Window(tie, l, 0, now)).since[s]
             PROVE  /\ InTime(s) => Head(History(tie, s)).at = SlotStatus(s).at
                    /\ InOrder(s) =>
                         /\ Head(History(tie, s)) = SlotStatus(s)
                         /\ since = (IF s \in Occupied(l) THEN SlotStatus(s).at ELSE Never)
                         /\ ShownOccupied(s) <=> since # Never
                         /\ s \in Available(l) <=> since = Never
  BY DEF SpotsAgree
<1>1. ASSUME InTime(s) PROVE Head(History(tie, s)).at = SlotStatus(s).at
  <2> DEFINE h == Head(History(tie, s))
             e == SlotStatus(s)
  <2>1. h \in EventsOf(s) /\ \A f \in EventsOf(s) : f.at <= h.at
    BY HistoryHead
  <2>2. e \in EventsOf(s) /\ \A f \in EventsOf(s) : f.at <= e.at
    BY <1>1, SlotStatusIs, LatestByTime
  <2> HIDE DEF h, e
  <2>3. h.at \in Nat /\ e.at \in Nat /\ h.at <= e.at /\ e.at <= h.at
    BY <2>1, <2>2, EventTypes
  <2>4. h.at = e.at
    BY <2>3
  <2> QED
    BY <2>4 DEF h, e
<1> QED
  BY <1>1, SpotAgrees

-----------------------------------------------------------------------------
(***************************************************************************)
(* The snapshots of a lot.                                                 *)
(***************************************************************************)
LEMMA SnapshotsKnown ==
  ASSUME AnalyticsInv, NEW l
  PROVE  /\ IsFiniteSet(SnapshotsOf(l)) /\ now \in Nat
         /\ \A sn \in SnapshotsOf(l) :
              sn \in snapshots /\ sn.lot = l /\ sn.at \in Nat /\ sn.at <= now /\ sn.occupied \in Nat
<1>1. SnapshotsOf(l) \in SUBSET snapshots /\ \A sn \in SnapshotsOf(l) : sn.lot = l
  BY DEF SnapshotsOf
<1>2. \A sn \in snapshots : sn.at \in Nat /\ sn.at <= now /\ sn.occupied \in Nat
  BY RowTypes DEF AnalyticsInv, Past
<1>3. IsFiniteSet(snapshots) /\ now \in Nat
  BY RowTypes DEF AnalyticsInv, Drawn
<1>4. IsFiniteSet(SnapshotsOf(l))
  BY <1>1, <1>3, FS_Subset
<1> QED
  BY <1>1, <1>2, <1>3, <1>4

\* No count of a finite set of snapshots exceeds some number.
LEMMA CountsBounded ==
  ASSUME NEW T, IsFiniteSet(T), \A sn \in T : sn.occupied \in Nat
  PROVE  \E high \in Nat : \A sn \in T : sn.occupied <= high
<1> DEFINE G == {s \in SUBSET T : \E high \in Nat : \A sn \in s : sn.occupied <= high}
<1>1. {} \in G
  OBVIOUS
<1>2. ASSUME NEW s \in SUBSET T, s # {}
      PROVE  \E x \in s : s \ {x} \in G => s \in G
  <2>1. PICK x \in s : TRUE
    BY <1>2
  <2>2. ASSUME s \ {x} \in G PROVE s \in G
    <3>1. PICK high \in Nat : \A sn \in s \ {x} : sn.occupied <= high
      BY <2>2
    <3>2. x.occupied \in Nat
      OBVIOUS
    <3>3. PICK top \in Nat : high <= top /\ x.occupied <= top
      <4>1. high <= x.occupied \/ x.occupied <= high
        BY <3>2
      <4> QED
        BY <3>2, <4>1
    <3>4. \A sn \in s : sn.occupied <= top
      BY <3>1, <3>3
    <3> QED
      BY <3>4
  <2> QED
    BY <2>1, <2>2
<1>3. T \in G
  <2> HIDE DEF G
  <2> QED
    BY <1>1, <1>2, SubsetInduction
<1> QED
  BY <1>3

\* The live occupancy is that of a newest snapshot, and no event of the lot is newer.
LEMMA LiveIs ==
  ASSUME AnalyticsInv, NEW l
  PROVE  /\ Live(l) \subseteq SnapshotsOf(l)
         /\ \A s \in SpotsOf(l) : \A e \in EventsOf(s) :
              Live(l) # {} /\ \A sn \in Live(l) : e.at <= sn.at
<1> DEFINE S == SnapshotsOf(l)
           ats == {sn.at : sn \in S}
<1>1. now \in Int /\ \A sn \in S : sn.at \in Int /\ sn.at <= now
  BY SnapshotsKnown
<1>2. \A sn : sn \in Live(l) <=> sn \in S /\ \A other \in S : other.at <= sn.at
  BY DEF Live
<1>3. ASSUME NEW s \in SpotsOf(l), NEW e \in EventsOf(s)
      PROVE  \E sn \in S : sn.at = e.at
  <2>1. e \in log /\ LotOf[e.spot] = l
    BY DEF EventsOf, SpotsOf
  <2>2. PICK sn \in snapshots : sn.lot = LotOf[e.spot] /\ sn.at = e.at
    BY <2>1 DEF AnalyticsInv, Accompanied
  <2> QED
    BY <2>1, <2>2 DEF SnapshotsOf
<1> HIDE DEF S
<1>4. ASSUME S # {} PROVE Live(l) # {}
  <2>1. ats \in SUBSET Int /\ ats # {} /\ \A t \in ats : t <= now
    BY <1>1, <1>4
  <2>2. \A sn \in S : sn.at \in ats
    OBVIOUS
  <2>3. PICK t \in ats : \A u \in ats : u <= t
    <3> HIDE DEF ats
    <3> QED
      BY <1>1, <2>1, GreatestElement
  <2>4. PICK sn \in S : sn.at = t
    BY <2>3
  <2> HIDE DEF ats
  <2> QED
    BY <1>2, <2>2, <2>3, <2>4
<1>5. Live(l) \subseteq S
  BY <1>2
<1>6. ASSUME NEW s \in SpotsOf(l), NEW e \in EventsOf(s)
      PROVE  Live(l) # {} /\ \A sn \in Live(l) : e.at <= sn.at
  <2>1. PICK other \in S : other.at = e.at
    BY <1>3
  <2> QED
    BY <1>2, <1>4, <2>1
<1> QED
  BY <1>5, <1>6 DEF S

-----------------------------------------------------------------------------
(***************************************************************************)
(* Trends and KPIs.                                                        *)
(***************************************************************************)
LEMMA TotalIs ==
  ASSUME NEW T, IsFiniteSet(T)
  PROVE  \E g : Sums(g, [sn \in T |-> sn.occupied], T) /\ TotalOccupied(T) = g[T]
<1> DEFINE v == [sn \in T |-> sn.occupied]
           Folds(g) == g = [s \in SUBSET T |-> IF s = {} THEN 0
                              ELSE g[s \ {CHOOSE x \in s : TRUE}] + (CHOOSE x \in s : TRUE).occupied]
           g == CHOOSE g : Folds(g)
<1>1. \A s \in SUBSET T : s # {} => v[CHOOSE x \in s : TRUE] = (CHOOSE x \in s : TRUE).occupied
  OBVIOUS
<1> HIDE DEF v
<1>2. \A h : Folds(h) <=> Sums(h, v, T)
  BY <1>1 DEF Sums
<1>3. \E h : Sums(h, v, T)
  BY SumsExist
<1>4. Folds(g)
  <2> HIDE DEF Folds
  <2> QED
    BY <1>2, <1>3
<1>5. TotalOccupied(T) = g[T]
  BY DEF TotalOccupied, FoldSet, MapThenFoldSet
<1> HIDE DEF g, Folds
<1> QED
  BY <1>2, <1>4, <1>5 DEF v

\* An average does not exceed the highest of what it is taken over.
LEMMA TotalBounds ==
  ASSUME NEW T, IsFiniteSet(T), NEW high \in Nat,
         \A sn \in T : sn.occupied \in Nat /\ sn.occupied <= high
  PROVE  /\ TotalOccupied(T) \in Nat /\ Cardinality(T) \in Nat
         /\ TotalOccupied(T) <= high * Cardinality(T)
<1> DEFINE v == [sn \in T |-> sn.occupied]
<1>1. PICK g : Sums(g, v, T) /\ TotalOccupied(T) = g[T]
  BY TotalIs
<1>2. \A sn \in T : v[sn] \in Int /\ 0 <= v[sn] /\ v[sn] <= high
  OBVIOUS
<1> HIDE DEF v
<1>3. /\ g[T] \in Int /\ Cardinality(T) \in Nat
      /\ 0 * Cardinality(T) <= g[T] /\ g[T] <= high * Cardinality(T)
  <2>1. 0 \in Int /\ high \in Int
    OBVIOUS
  <2> QED
    BY <1>1, <1>2, <2>1, SumBounds
<1>4. 0 * Cardinality(T) = 0
  BY <1>3
<1> QED
  BY <1>1, <1>3, <1>4

LEMMA PeakIs ==
  ASSUME NEW T, NEW high \in Nat, \A sn \in T : sn.occupied \in Nat /\ sn.occupied <= high
  PROVE  /\ PeakOccupancy(T) \in Nat
         /\ \A sn \in T : sn.occupied <= PeakOccupancy(T)
<1>1. CASE T = {}
  BY <1>1 DEF PeakOccupancy
<1>2. CASE T # {}
  <2> DEFINE S == {sn.occupied : sn \in T}
             Greatest(m) == \A n \in S : m >= n
  <2>1. S \in SUBSET Int /\ S # {} /\ S \in SUBSET Nat /\ high \in Int /\ \A m \in S : m <= high
    BY <1>2
  <2>2. PeakOccupancy(T) = CHOOSE m \in S : Greatest(m)
    BY <1>2 DEF PeakOccupancy, Max
  <2>3. \A sn \in T : sn.occupied \in S
    OBVIOUS
  <2> HIDE DEF S
  <2>4. PICK m \in S : \A n \in S : n <= m
    BY <2>1, GreatestElement
  <2>5. Greatest(m)
    BY <2>1, <2>4
  <2> HIDE DEF Greatest
  <2>6. PeakOccupancy(T) \in S /\ Greatest(PeakOccupancy(T))
    BY <2>2, <2>4, <2>5
  <2> QED
    BY <2>1, <2>3, <2>6 DEF Greatest
<1> QED
  BY <1>1, <1>2

\* Comparing averages, each a sum and a count, without dividing.
LEMMA AveragesCompare ==
  ASSUME NEW a \in Nat, NEW b \in Nat, NEW c \in Nat,
         NEW x \in Nat \ {0}, NEW y \in Nat \ {0}, NEW z \in Nat \ {0},
         a * y > b * x, b * z >= c * y
  PROVE  a * z > c * x
<1> DEFINE p == a * z
           q == c * x
<1>1. p \in Nat /\ q \in Nat /\ a * y \in Nat /\ b * x \in Nat /\ b * z \in Nat /\ c * y \in Nat
  OBVIOUS
<1>2. (a * y) * z > (b * x) * z
  BY <1>1
<1>3. (b * z) * x >= (c * y) * x
  BY <1>1
<1>4. (a * y) * z = p * y /\ (b * x) * z = (b * z) * x /\ (c * y) * x = q * y
  OBVIOUS
<1>5. p * y > q * y
  <2> DEFINE m == (b * z) * x
             py == p * y
             qy == q * y
  <2>1. m \in Nat /\ py \in Nat /\ qy \in Nat
    OBVIOUS
  <2>2. py > m /\ m >= qy
    BY <1>2, <1>3, <1>4
  <2> HIDE DEF m, py, qy
  <2>3. py > qy
    BY <2>1, <2>2
  <2> QED
    BY <2>3 DEF py, qy
<1> HIDE DEF p, q
<1>6. ~(p <= q)
  <2> SUFFICES ASSUME p <= q PROVE FALSE
    OBVIOUS
  <2>1. p * y <= q * y /\ p * y \in Nat /\ q * y \in Nat
    BY <1>1
  <2> QED
    BY <1>5, <2>1
<1>7. p > q
  BY <1>1, <1>6
<1> QED
  BY <1>7 DEF p, q

\* The hours of some snapshots, and which of two is busier.
ByBusy(rows) == {p \in Hours(rows) \X Hours(rows) : Busier(rows, p[1], p[2])}

\* A strict order in which some members may be equal: of two, one that is ahead of the
\* other is ahead of what the other is equal to.
StrictWeak(ahead, H) ==
  /\ \A h, g \in H : <<h, g>> \in ahead => <<g, h>> \notin ahead
  /\ \A h, g, k \in H : <<h, g>> \in ahead /\ <<k, g>> \notin ahead => <<h, k>> \in ahead

LEMMA ByBusyIs ==
  ASSUME NEW rows, NEW h \in Hours(rows), NEW g \in Hours(rows)
  PROVE  <<h, g>> \in ByBusy(rows) <=> Busier(rows, h, g)
BY DEF ByBusy

LEMMA BusyWeak ==
  ASSUME NEW rows, IsFiniteSet(rows), NEW high \in Nat,
         \A sn \in rows : sn.occupied \in Nat /\ sn.occupied <= high
  PROVE  StrictWeak(ByBusy(rows), Hours(rows))
<1> DEFINE H == Hours(rows)
           T(h) == TotalOccupied(InHour(rows, h))
           C(h) == Cardinality(InHour(rows, h))
<1>1. ASSUME NEW h \in H PROVE T(h) \in Nat /\ C(h) \in Nat \ {0}
  <2> DEFINE I == InHour(rows, h)
  <2>1. I \in SUBSET rows /\ I # {}
    BY DEF InHour, Hours
  <2> HIDE DEF I
  <2>2. IsFiniteSet(I) /\ \A sn \in I : sn.occupied \in Nat /\ sn.occupied <= high
    BY <2>1, FS_Subset
  <2>3. TotalOccupied(I) \in Nat /\ Cardinality(I) \in Nat
    BY <2>2, TotalBounds
  <2>4. Cardinality(I) # 0
    BY <2>1, <2>2, FS_EmptySet
  <2> QED
    BY <2>3, <2>4 DEF I
<1>2. \A h, g \in H : <<h, g>> \in ByBusy(rows) <=> T(h) * C(g) > T(g) * C(h)
  BY ByBusyIs DEF Busier
<1> HIDE DEF H, T, C
<1>3. \A h, g \in H : T(h) * C(g) \in Nat
  BY <1>1
<1>4. \A h, g \in H : <<h, g>> \in ByBusy(rows) => <<g, h>> \notin ByBusy(rows)
  <2> TAKE h, g \in H
  <2>1. ~(T(h) * C(g) > T(g) * C(h) /\ T(g) * C(h) > T(h) * C(g))
    BY <1>3
  <2> QED
    BY <1>2, <2>1
<1>5. ASSUME NEW h \in H, NEW g \in H, NEW k \in H,
             <<h, g>> \in ByBusy(rows), <<k, g>> \notin ByBusy(rows)
      PROVE  <<h, k>> \in ByBusy(rows)
  <2>1. T(h) * C(g) > T(g) * C(h)
    BY <1>2, <1>5
  <2>2. T(g) * C(k) >= T(k) * C(g)
    BY <1>2, <1>3, <1>5
  <2>3. /\ T(h) \in Nat /\ T(g) \in Nat /\ T(k) \in Nat
        /\ C(h) \in Nat \ {0} /\ C(g) \in Nat \ {0} /\ C(k) \in Nat \ {0}
    BY <1>1
  <2>4. T(h) * C(k) > T(k) * C(h)
    BY <2>1, <2>2, <2>3, AveragesCompare
  <2> QED
    BY <1>2, <2>4
<1>6. StrictWeak(ByBusy(rows), H)
  BY <1>4, <1>5 DEF StrictWeak
<1> QED
  BY <1>6 DEF H

\* What the pass over the hours has after those at the indices I: the first that no
\* other is ahead of.
Foremost(q, ahead, I, i) ==
  \A j \in I : <<q[j], q[i]>> \notin ahead /\ (j < i => <<q[i], q[j]>> \in ahead)
Leads(q, ahead, I, peak) ==
  \/ I = {} /\ peak = Never
  \/ \E i \in I : peak = q[i] /\ Foremost(q, ahead, I, i)

\* One step of the pass.
Pick(ahead, peak, h) == IF peak = Never \/ <<h, peak>> \in ahead THEN h ELSE peak

\* Hours in order.
HoursOK(q, H) ==
  /\ Len(q) \in Nat /\ DOMAIN q = 1..Len(q) /\ H \in SUBSET Nat
  /\ \A k \in 1..Len(q) : q[k] \in H
  /\ \A h \in H : \E k \in 1..Len(q) : q[k] = h
  /\ \A j, k \in 1..Len(q) : q[j] < q[k] => j < k

LEMMA LeadsStep ==
  ASSUME NEW q, NEW H, HoursOK(q, H), NEW ahead, StrictWeak(ahead, H),
         NEW I \in SUBSET (1..Len(q)), NEW x \in I, \A y \in I : y <= x,
         NEW peak, Leads(q, ahead, I \ {x}, peak)
  PROVE  Leads(q, ahead, I, Pick(ahead, peak, q[x]))
<1>1. /\ \A i \in I : i \in Nat /\ q[i] \in H /\ q[i] # Never
      /\ x \in Nat
  BY DEF HoursOK, Never
<1>2. \A h \in H : <<h, h>> \notin ahead
  BY DEF StrictWeak
<1>3. CASE I \ {x} = {}
  <2>1. peak = Never /\ I = {x}
    BY <1>3 DEF Leads
  <2>2. Foremost(q, ahead, I, x)
    BY <1>1, <1>2, <2>1 DEF Foremost
  <2> QED
    BY <2>1, <2>2 DEF Leads, Pick
<1>4. CASE I \ {x} # {}
  <2>1. PICK i \in I \ {x} : peak = q[i] /\ Foremost(q, ahead, I \ {x}, i)
    BY <1>4 DEF Leads
  <2>2. i \in I /\ i < x /\ ~(x < i) /\ peak # Never
    BY <1>1, <2>1
  <2>3. CASE <<q[x], q[i]>> \in ahead
    <3>1. \A j \in I : <<q[j], q[x]>> \notin ahead /\ (j < x => <<q[x], q[j]>> \in ahead)
      <4> TAKE j \in I
      <4>1. CASE j = x
        BY <1>1, <1>2, <4>1
      <4>2. CASE j # x
        <5>1. <<q[j], q[i]>> \notin ahead
          BY <2>1, <4>2 DEF Foremost
        <5>2. <<q[x], q[j]>> \in ahead
          BY <1>1, <2>2, <2>3, <5>1 DEF StrictWeak
        <5>3. <<q[j], q[x]>> \notin ahead
          BY <1>1, <5>2 DEF StrictWeak
        <5> QED
          BY <5>2, <5>3
      <4> QED
        BY <4>1, <4>2
    <3>2. Foremost(q, ahead, I, x)
      BY <3>1 DEF Foremost
    <3> QED
      BY <2>1, <2>3, <3>2 DEF Leads, Pick
  <2>4. CASE <<q[x], q[i]>> \notin ahead
    <3>1. Foremost(q, ahead, I, i)
      BY <2>1, <2>2, <2>4 DEF Foremost
    <3> QED
      BY <2>1, <2>2, <2>4, <3>1 DEF Leads, Pick
  <2> QED
    BY <2>3, <2>4
<1> QED
  BY <1>3, <1>4

LEMMA LeadsUnique ==
  ASSUME NEW q, NEW H, HoursOK(q, H), NEW ahead, NEW I \in SUBSET (1..Len(q)),
         NEW peak, Leads(q, ahead, I, peak), NEW other, Leads(q, ahead, I, other)
  PROVE  peak = other
<1>1. \A i, j \in I : Foremost(q, ahead, I, i) /\ Foremost(q, ahead, I, j) => i = j
  <2> TAKE i, j \in I
  <2>1. i = j \/ i < j \/ j < i
    BY DEF HoursOK
  <2> QED
    BY <2>1 DEF Foremost
<1> QED
  BY <1>1 DEF Leads

LEMMA LeadsExists ==
  ASSUME NEW q, NEW H, HoursOK(q, H), NEW ahead, StrictWeak(ahead, H),
         NEW I \in SUBSET (1..Len(q))
  PROVE  \E peak : Leads(q, ahead, I, peak)
<1> DEFINE G == {s \in SUBSET I : \E peak : Leads(q, ahead, s, peak)}
<1>1. {} \in G
  BY DEF Leads
<1>2. ASSUME NEW s \in SUBSET I, s # {}
      PROVE  \E x \in s : s \ {x} \in G => s \in G
  <2>1. Len(q) \in Nat /\ s \in SUBSET (1..Len(q))
    BY DEF HoursOK
  <2>2. Max(s) \in s /\ \A y \in s : y <= Max(s)
    BY <1>2, <2>1, MaxIs
  <2>3. ASSUME s \ {Max(s)} \in G PROVE s \in G
    <3>1. PICK peak : Leads(q, ahead, s \ {Max(s)}, peak)
      BY <2>3
    <3>2. Leads(q, ahead, s, Pick(ahead, peak, q[Max(s)]))
      BY <2>1, <2>2, <3>1, LeadsStep
    <3> QED
      BY <3>2
  <2> QED
    BY <2>2, <2>3
<1>3. IsFiniteSet(I)
  BY SubsetsFinite DEF HoursOK
<1>4. I \in G
  <2> HIDE DEF G
  <2> QED
    BY <1>1, <1>2, <1>3, SubsetInduction
<1> QED
  BY <1>4

\* The pass of PeakHour over hours in order, each step of which is a Pick.
Passed(q, rows) ==
  FoldLeft(LAMBDA peak, h : IF peak = Never \/ Busier(rows, h, peak) THEN h ELSE peak, Never, q)

LEMMA PassLeads ==
  ASSUME NEW rows, NEW q, HoursOK(q, Hours(rows)), StrictWeak(ByBusy(rows), Hours(rows))
  PROVE  Leads(q, ByBusy(rows), 1..Len(q), Passed(q, rows))
<1> DEFINE ahead == ByBusy(rows)
           H == Hours(rows)
           S == 1..Len(q)
           Choice(peak, h) == IF peak = Never \/ Busier(rows, h, peak) THEN h ELSE peak
           Step(g, s) == Choice(g[s \ {Max(s)}], q[Max(s)])
           Passes(g) == g = [s \in SUBSET S |-> IF s = {} THEN Never ELSE Step(g, s)]
           g == CHOOSE g : Passes(g)
           Is(peak, s) == Leads(q, ahead, s, peak)
           h == [s \in SUBSET S |-> CHOOSE peak : Is(peak, s)]
<1>1. /\ Len(q) \in Nat /\ DOMAIN q = S
      /\ \A k \in S : q[k] \in H
  BY DEF HoursOK
<1>2. \A s \in SUBSET S : s # {} =>
        Max(s) \in s /\ (\A y \in s : y <= Max(s)) /\ s \ {Max(s)} \in SUBSET S
  BY <1>1, MaxIs
<1>3. \A s \in SUBSET S : Leads(q, ahead, s, h[s])
  <2> TAKE s \in SUBSET S
  <2>1. \E peak : Is(peak, s)
    BY LeadsExists
  <2>2. h[s] = CHOOSE peak : Is(peak, s)
    OBVIOUS
  <2> HIDE DEF Is, h
  <2>3. Is(h[s], s)
    BY <2>1, <2>2
  <2> QED
    BY <2>3 DEF Is
<1>4. ASSUME NEW s \in SUBSET S, s # {}, NEW peak, Leads(q, ahead, s \ {Max(s)}, peak)
      PROVE  Leads(q, ahead, s, Choice(peak, q[Max(s)]))
  <2>1. Leads(q, ahead, s, Pick(ahead, peak, q[Max(s)]))
    <3>1. Max(s) \in s /\ (\A y \in s : y <= Max(s))
      BY <1>2, <1>4
    <3> HIDE DEF ahead
    <3> QED
      BY <1>4, <3>1, LeadsStep DEF ahead
  <2>2. peak = Never \/ peak \in H
    BY <1>1, <1>2, <1>4 DEF Leads
  <2>3. q[Max(s)] \in H
    BY <1>1, <1>2, <1>4
  <2>4. Pick(ahead, peak, q[Max(s)]) = Choice(peak, q[Max(s)])
    BY <2>2, <2>3, ByBusyIs DEF Pick
  <2> QED
    BY <2>1, <2>4
<1> HIDE DEF h, ahead
<1>5. Leads(q, ahead, {}, Never) /\ \A peak : Leads(q, ahead, {}, peak) => peak = Never
  BY DEF Leads
<1>6. Passes(h)
  <2>1. h = [s \in SUBSET S |-> h[s]]
    BY DEF h
  <2>2. h[{}] = Never
    BY <1>3, <1>5
  <2>3. \A s \in SUBSET S : s # {} => h[s] = Step(h, s)
    BY <1>2, <1>3, <1>4, LeadsUnique
  <2> QED
    BY <2>1, <2>2, <2>3
<1>7. Passes(g)
  <2> HIDE DEF Passes
  <2> QED
    BY <1>6
<1>8. Passed(q, rows) = g[S]
  BY <1>1 DEF Passed, FoldLeft, MapThenFoldSet
<1> HIDE DEF g
<1>9. g[{}] = Never /\ \A s \in SUBSET S : s # {} => g[s] = Step(g, s)
  BY <1>7
<1> DEFINE G == {s \in SUBSET S : Leads(q, ahead, s, g[s])}
<1>10. {} \in G
  BY <1>5, <1>9
<1>11. ASSUME NEW s \in SUBSET S, s # {}
       PROVE  \E x \in s : s \ {x} \in G => s \in G
  <2>1. ASSUME s \ {Max(s)} \in G PROVE s \in G
    <3>1. Leads(q, ahead, s \ {Max(s)}, g[s \ {Max(s)}])
      BY <2>1
    <3>2. Leads(q, ahead, s, Step(g, s))
      BY <1>4, <1>11, <3>1
    <3> QED
      BY <1>9, <1>11, <3>2
  <2> QED
    BY <1>2, <1>11, <2>1
<1>12. IsFiniteSet(S)
  BY <1>1, FS_Interval
<1>13. S \in G
  <2> HIDE DEF G, S
  <2> QED
    BY <1>10, <1>11, <1>12, SubsetInduction
<1> QED
  BY <1>8, <1>13 DEF ahead

\* The hours that Ordered lists.
ByHour(H) == {p \in H \X H : p[1] < p[2]}

LEMMA HoursInOrder ==
  ASSUME NEW H, IsFiniteSet(H), H \in SUBSET Nat
  PROVE  HoursOK(Ordered(H, LAMBDA g, h : g < h), H)
<1> DEFINE n == Cardinality(H)
           Before(g, h) == g < h
           q == Ordered(H, Before)
           Ranks(x, k) == Cardinality({y \in H : Before(y, x)}) = k - 1
<1>1. \A h, g \in H : <<h, g>> \in ByHour(H) <=> h < g
  BY DEF ByHour
<1>2. StrictTotal(ByHour(H), H)
  <2>1. \A h, g \in H : h = g \/ h < g \/ g < h
    OBVIOUS
  <2>2. \A h, g, k \in H : h < g /\ g < k => h < k
    OBVIOUS
  <2>3. \A h \in H : ~(h < h)
    OBVIOUS
  <2> QED
    BY <1>1, <2>1, <2>2, <2>3 DEF StrictTotal
<1>3. q = [k \in 1..n |-> CHOOSE x \in H : Ranks(x, k)]
  BY DEF Ordered
<1>4. \A x \in H : {y \in H : Before(y, x)} = Below(ByHour(H), H, x)
  BY <1>1 DEF Below
<1> HIDE DEF q
<1>5. ASSUME NEW k \in 1..n, \E x \in H : Cardinality(Below(ByHour(H), H, x)) = k - 1
      PROVE  q[k] \in H /\ Cardinality(Below(ByHour(H), H, q[k])) = k - 1
  <2>1. \E x \in H : Ranks(x, k)
    BY <1>4, <1>5
  <2>2. q[k] = CHOOSE x \in H : Ranks(x, k)
    BY <1>3
  <2> HIDE DEF Ranks
  <2>3. q[k] \in H /\ Ranks(q[k], k)
    BY <2>1, <2>2
  <2> QED
    BY <1>4, <2>3 DEF Ranks
<1>6. q = [k \in 1..n |-> q[k]]
  <2> HIDE DEF Ranks, n
  <2> QED
    BY <1>3
<1>7. Lists(q, H, ByHour(H))
  BY <1>2, <1>5, <1>6, OrderedLists
<1>8. /\ Len(q) \in Nat /\ DOMAIN q = 1..Len(q)
      /\ \A k \in 1..Len(q) : q[k] \in H
      /\ \A h \in H : \E k \in 1..Len(q) : q[k] = h
      /\ \A j, k \in 1..Len(q) : <<q[j], q[k]>> \in ByHour(H) => j < k
  BY <1>7 DEF Lists
<1>9. HoursOK(q, H)
  BY <1>1, <1>8 DEF HoursOK
<1> QED
  BY <1>9 DEF q

\* The peak hour is the first of the busiest.
LEMMA PeakHourIs ==
  ASSUME NEW rows, IsFiniteSet(rows), NEW high \in Nat,
         \A sn \in rows : sn.at \in Nat /\ sn.occupied \in Nat /\ sn.occupied <= high,
         NEW h \in Hours(rows)
  PROVE  /\ ~Busier(rows, h, PeakHour(rows))
         /\ h < PeakHour(rows) => Busier(rows, PeakHour(rows), h)
<1> DEFINE H == Hours(rows)
           q == Ordered(H, LAMBDA g, k : g < k)
           f == [sn \in rows |-> HourOf(sn)]
<1>1. H \in SUBSET Nat
  <2>1. Hour \in Nat \ {0}
    BY AnalyticsAssumption
  <2> QED
    BY <2>1 DEF Hours, HourOf
<1>2. IsFiniteSet(H)
  <2>1. f \in Surjection(rows, H)
    BY DEF Surjection, Hours
  <2> HIDE DEF f, H
  <2> QED
    BY <2>1, FS_Surjection
<1>3. HoursOK(q, H)
  BY <1>1, <1>2, HoursInOrder
<1>4. StrictWeak(ByBusy(rows), H)
  BY BusyWeak
<1>5. PeakHour(rows) = Passed(q, rows)
  BY DEF PeakHour, Passed
<1> HIDE DEF q, H
<1>6. Leads(q, ByBusy(rows), 1..Len(q), PeakHour(rows))
  BY <1>3, <1>4, <1>5, PassLeads DEF H
<1>7. PICK k \in 1..Len(q) : q[k] = h
  BY <1>3 DEF HoursOK, H
<1>8. PICK i \in 1..Len(q) : PeakHour(rows) = q[i] /\ Foremost(q, ByBusy(rows), 1..Len(q), i)
  BY <1>6, <1>7 DEF Leads
<1>9. h \in H /\ PeakHour(rows) \in H
  BY <1>3, <1>7, <1>8 DEF HoursOK
<1>10. ~Busier(rows, h, PeakHour(rows))
  BY <1>7, <1>8, <1>9, ByBusyIs DEF Foremost, H
<1>11. ASSUME h < PeakHour(rows)
       PROVE  Busier(rows, PeakHour(rows), h)
  <2>1. k < i
    BY <1>3, <1>7, <1>8, <1>11 DEF HoursOK
  <2> QED
    BY <1>7, <1>8, <1>9, <2>1, ByBusyIs DEF Foremost, H
<1> QED
  BY <1>10, <1>11

LEMMA TrendsAgreed ==
  ASSUME AnalyticsInv, NEW l \in Lot, NEW start, NEW end
  PROVE  TrendsAgree(l, start, end)
<1> DEFINE S == SnapshotsIn(l, start, end)
<1>1. /\ S \in SUBSET SnapshotsOf(l) /\ IsFiniteSet(S)
      /\ \A sn \in S : sn.at \in Nat /\ sn.occupied \in Nat
  BY SnapshotsKnown, FS_Subset DEF SnapshotsIn
<1>2. \A sn \in Live(l) : sn.at \in start..end => sn \in S
  BY LiveIs DEF SnapshotsIn
<1>3. Queried(l, start, end) =
        IF Cardinality(S) <= MaxRows THEN {S} ELSE {rows \in SUBSET S : Cardinality(rows) = MaxRows}
  BY DEF Queried, kSubset
<1> HIDE DEF S
<1>4. PICK high \in Nat : \A sn \in S : sn.occupied <= high
  BY <1>1, CountsBounded
<1>5. ASSUME NEW rows \in SUBSET S, NEW h \in Hours(rows)
      PROVE  /\ ~Busier(rows, h, PeakHour(rows))
             /\ h < PeakHour(rows) => Busier(rows, PeakHour(rows), h)
  <2>1. /\ IsFiniteSet(rows)
        /\ \A sn \in rows : sn.at \in Nat /\ sn.occupied \in Nat /\ sn.occupied <= high
    BY <1>1, <1>4, FS_Subset
  <2> QED
    BY <2>1, PeakHourIs
<1>6. /\ PeakOccupancy(S) \in Nat
      /\ \A sn \in S : sn.occupied <= PeakOccupancy(S)
  BY <1>1, <1>4, PeakIs
<1>7. ASSUME NEW h \in Hours(S)
      PROVE  TotalOccupied(InHour(S, h)) <= PeakOccupancy(S) * Cardinality(InHour(S, h))
  <2> DEFINE I == InHour(S, h)
  <2>1. I \in SUBSET S
    BY DEF InHour
  <2> HIDE DEF I
  <2>2. IsFiniteSet(I) /\ \A sn \in I : sn.occupied \in Nat /\ sn.occupied <= PeakOccupancy(S)
    BY <1>1, <1>6, <2>1, FS_Subset
  <2>3. TotalOccupied(I) <= PeakOccupancy(S) * Cardinality(I)
    BY <1>6, <2>2, TotalBounds
  <2> QED
    BY <2>3 DEF I
<1>8. ASSUME NEW trends \in Queried(l, start, end), NEW kpis \in Queried(l, start, end)
      PROVE  /\ trends \in SUBSET S
             /\ Cardinality(S) <= MaxRows => trends = S /\ kpis = S
  <2>1. CASE Cardinality(S) <= MaxRows
    BY <1>3, <1>8, <2>1
  <2>2. CASE ~(Cardinality(S) <= MaxRows)
    BY <1>3, <1>8, <2>2
  <2> QED
    BY <2>1, <2>2
<1>9. ASSUME NEW trends \in Queried(l, start, end), NEW kpis \in Queried(l, start, end)
      PROVE  /\ \A h \in Hours(trends) :
                  /\ ~Busier(trends, h, PeakHour(trends))
                  /\ h < PeakHour(trends) => Busier(trends, PeakHour(trends), h)
             /\ Cardinality(S) <= MaxRows =>
                  /\ \A h \in Hours(trends) :
                       TotalOccupied(InHour(trends, h))
                         <= PeakOccupancy(kpis) * Cardinality(InHour(trends, h))
                  /\ \A sn \in Live(l) : sn.at \in start..end => sn.occupied <= PeakOccupancy(kpis)
  <2>1. trends \in SUBSET S /\ (Cardinality(S) <= MaxRows => trends = S /\ kpis = S)
    BY <1>8
  <2>2. \A h \in Hours(trends) : /\ ~Busier(trends, h, PeakHour(trends))
                                 /\ h < PeakHour(trends) => Busier(trends, PeakHour(trends), h)
    BY <1>5, <2>1
  <2>3. ASSUME Cardinality(S) <= MaxRows
        PROVE  /\ \A h \in Hours(trends) :
                    TotalOccupied(InHour(trends, h))
                      <= PeakOccupancy(kpis) * Cardinality(InHour(trends, h))
               /\ \A sn \in Live(l) : sn.at \in start..end => sn.occupied <= PeakOccupancy(kpis)
    BY <1>2, <1>6, <1>7, <2>1, <2>3
  <2> QED
    BY <2>2, <2>3
<1> QED
  BY <1>9 DEF TrendsAgree, S

LEMMA ReadersAgreed == AnalyticsInv => ReadersAgree
<1> SUFFICES ASSUME AnalyticsInv, NEW l \in Lot
             PROVE  /\ \A tie \in Ties : SpotsAgree(tie, l)
                    /\ \A s \in SpotsOf(l) : \A e \in EventsOf(s) :
                         Live(l) # {} /\ \A sn \in Live(l) : e.at <= sn.at
                    /\ SnapshotsOf(l) # {} => \A start \in 0..now : TrendsAgree(l, start, now)
  BY DEF ReadersAgree
<1>1. \A tie \in Ties : SpotsAgree(tie, l)
  BY SpotsAgreed
<1>2. \A s \in SpotsOf(l) : \A e \in EventsOf(s) : Live(l) # {} /\ \A sn \in Live(l) : e.at <= sn.at
  BY LiveIs
<1>3. ASSUME NEW start \in 0..now PROVE TrendsAgree(l, start, now)
  BY TrendsAgreed
<1> QED
  BY <1>1, <1>2, <1>3

-----------------------------------------------------------------------------
(***************************************************************************)
(* The theorems.                                                           *)
(***************************************************************************)
\* Whatever reports, heartbeats and streams come in whatever order, rows are written
\* with the types that the queries of AnalyticsService expect.
THEOREM AnalyticsTypeCorrect == Spec => []AnalyticsTypeOK
<1>1. AnalyticsInv => AnalyticsTypeOK
  BY DEF AnalyticsInv
<1> QED
  BY <1>1, Always, PTL

\* For any windows, any limit and any order of rows with the same stamp, the heatmap
\* never shows a spot parked on for longer than it was, and exactly as long if it was
\* followed exactly; the dwell time counts no car twice and none for longer than it was
\* there, and leaves none out of a spot without equal stamps within the limit.
THEOREM DurationsTell == Spec => []DurationsTellParking
BY Always, DurationsFollow, PTL

\* For any lots and spots, the readers by id and by time agree about spots whose reports
\* were committed in order; no event is newer than the live occupancy of its lot; the
\* peak hour is the first of the busiest, and no average nor the live occupancy exceeds
\* the peak of the KPIs within their limit.
THEOREM ReadersTellTheSame == Spec => []ReadersAgree
BY Always, ReadersAgreed, PTL

\* For any cameras, the health page vouches for a device only on evidence within
\* Silence, and its verdict and score hang on the board alone.
THEOREM HealthTells == Spec => []HealthFollowsBoard
BY Always, HealthFollows, PTL
=============================================================================
