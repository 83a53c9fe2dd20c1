------------------------ MODULE AlertPipelineProofs ------------------------
(***************************************************************************)
(* Proofs about the detector and the alert job that runs it, for any lots, *)
(* spots, devices, thresholds, users, caps and bounds.  The detector: its  *)
(* types, that a key never has two open rows, and that the table           *)
(* implements the incident log.  The job: its types, that duplicates are   *)
(* bounded by failures, that a mute takes effect, and that it implements   *)
(* at-least-once delivery.                                                 *)
(***************************************************************************)
EXTENDS AlertPipeline, TLAPS

-----------------------------------------------------------------------------
(***************************************************************************)
(* The detector.                                                           *)
(***************************************************************************)
\* Rows are stamped no later than the newest stamp, so a commit's are unused.
StampedBefore == \A a \in anomalies : a.detected <= latest

\* The inductive invariant: the three facts about rows hold together.
DetectionInv == DetectionTypeOK /\ StampedBefore /\ RowsIdentified /\ AtMostOneOpen

\* Every query of a scan returns anomaly keys.
LEMMA FoundType ==
  ASSUME NEW n \in 1..ScanLength
  PROVE  Found(n) \subseteq Key
BY DEF Found, Key, StuckSlots, InactiveLots, OfflineDevices

\* A scan has at least its device query.
LEMMA ScanLengthType == ScanLength \in Nat \ {0}
BY DetectionAssumption DEF ScanLength

\* Ageing a row yields a row.
LEMMA OlderType ==
  ASSUME NEW row \in Row, NEW limit
  PROVE  Older(row, limit) \in Row
<1> DEFINE older == [row EXCEPT !.age = @ + 1]
<1>1. row.age \in Nat /\ row.age + 1 \in Nat
  BY SMT DEF Row
<1>2. older \in Row
  BY <1>1, SMT DEF Row
<1> QED
  BY <1>2, SMT DEF Older

\* A commit closes rows and adds rows of one new stamp, one per key.
LEMMA CommitRows ==
  ASSUME DetectionInv, CommitScan
  PROVE  /\ anomalies' \in SUBSET Anomaly
         /\ \A b \in anomalies' : \/ \E a \in anomalies : b = ResolveAbsent(a)
                                  \/ b \in Opened
         /\ \A a \in anomalies : ResolveAbsent(a) \in anomalies'
         /\ \A b \in Opened : /\ b.key \in findings \ OpenKeys
                              /\ b.detected = latest + 1
                              /\ b.open /\ ~b.reviewed
<1>1. \A a \in anomalies : ResolveAbsent(a) \in Anomaly
  BY DEF DetectionInv, DetectionTypeOK, Anomaly, ResolveAbsent
<1>2. \A b \in Opened : /\ b.key \in findings \ OpenKeys
                        /\ b.detected = latest + 1
                        /\ b.open /\ ~b.reviewed
  BY DEF Opened
<1>3. Opened \subseteq Anomaly
  <2>1. latest + 1 \in Nat \ {0} /\ findings \subseteq Key
    BY DEF DetectionInv, DetectionTypeOK
  <2>2. \A k \in Key : [key |-> k, detected |-> latest + 1, open |-> TRUE, reviewed |-> FALSE]
                        \in Anomaly
    BY <2>1 DEF Anomaly
  <2> QED
    BY <2>1, <2>2 DEF Opened
<1> QED
  BY <1>1, <1>2, <1>3 DEF CommitScan

\* Closing a row keeps its identity, its stamp and its review.
LEMMA ResolveKeeps ==
  ASSUME DetectionTypeOK, NEW a \in anomalies
  PROVE  /\ ResolveAbsent(a).key = a.key
         /\ ResolveAbsent(a).detected = a.detected
         /\ ResolveAbsent(a).reviewed = a.reviewed
         /\ ResolveAbsent(a).open <=> (a.open /\ a.key \in findings)
BY DEF DetectionTypeOK, Anomaly, ResolveAbsent

-----------------------------------------------------------------------------
(***************************************************************************)
(* Types.                                                                  *)
(***************************************************************************)
LEMMA InitType == DetectionInit => DetectionTypeOK
BY ScanLengthType, DetectionAssumption
   DEF DetectionInit, DetectionTypeOK, Row, NoRow, Status

LEMMA StepType ==
  DetectionInv /\ [DetectionNext]_detectionVars => DetectionTypeOK'
<1> SUFFICES ASSUME DetectionInv, [DetectionNext]_detectionVars
             PROVE  DetectionTypeOK'
  OBVIOUS
<1> USE DEF DetectionInv
<1>1. ASSUME NEW st \in [Device -> Status], Heartbeat(st)
      PROVE  DetectionTypeOK'
  BY <1>1 DEF Heartbeat, DetectionTypeOK, Fresh, Row
<1>2. ASSUME NEW l \in Lot, NEW changed, NEW occupied, Report(l, changed, occupied)
      PROVE  DetectionTypeOK'
  <2>1. \A status \in {"online", "occupied", "free"} : Fresh(status) \in Row
    BY DEF Fresh, Row, Status
  <2>2. lastEvent' \in [Spot -> Row]
    BY <1>2, <2>1 DEF Report, DetectionTypeOK
  <2>3. health' \in [Device -> Row]
    BY <1>2, <2>1 DEF Report, DetectionTypeOK
  <2> QED
    BY <1>2, <2>2, <2>3 DEF Report, DetectionTypeOK
<1>3. ASSUME Tick
      PROVE  DetectionTypeOK'
  BY <1>3, OlderType DEF Tick, DetectionTypeOK
<1>4. ASSUME NEW a \in anomalies, Review(a)
      PROVE  DetectionTypeOK'
  <2>1. [a EXCEPT !.reviewed = TRUE] \in Anomaly
    BY DEF DetectionTypeOK, Anomaly
  <2> QED
    BY <1>4, <2>1 DEF Review, DetectionTypeOK, tableVars
<1>5. CASE BeginScan
  BY <1>5, ScanLengthType DEF BeginScan, DetectionTypeOK, tableVars
<1>6. CASE RunQuery
  BY <1>6, ScanLengthType, FoundType DEF RunQuery, DetectionTypeOK, tableVars
<1>7. CASE CommitScan
  BY <1>7, CommitRows, ScanLengthType DEF CommitScan, DetectionTypeOK, tableVars
<1>8. CASE AbortScan
  BY <1>8, ScanLengthType DEF AbortScan, DetectionTypeOK, tableVars
<1>9. CASE UNCHANGED detectionVars
  BY <1>9 DEF detectionVars, DetectionTypeOK
<1> QED
  BY <1>1, <1>2, <1>3, <1>4, <1>5, <1>6, <1>7, <1>8, <1>9
     DEF DetectionNext, Environment, Scan

-----------------------------------------------------------------------------
(***************************************************************************)
(* The table of rows.  Only a review and a commit change it.               *)
(***************************************************************************)
LEMMA TableSteps ==
  [DetectionNext]_detectionVars =>
    \/ UNCHANGED <<anomalies, latest>>
    \/ \E a \in anomalies : Review(a)
    \/ CommitScan
BY DEF DetectionNext, Environment, Scan, detectionVars, Heartbeat, Report, Tick,
       BeginScan, RunQuery, AbortScan

\* A review changes one row and only its review.
LEMMA ReviewRows ==
  ASSUME DetectionTypeOK, NEW a \in anomalies, Review(a)
  PROVE  /\ latest' = latest
         /\ \A b \in anomalies' :
              \/ b \in anomalies /\ b # a
              \/ b.key = a.key /\ b.detected = a.detected /\ b.open = a.open /\ b.reviewed
         /\ \E b \in anomalies' :
              b.key = a.key /\ b.detected = a.detected /\ b.open = a.open /\ b.reviewed
         /\ anomalies \ {a} \subseteq anomalies'
         /\ \A b, c \in anomalies' :
              b \notin anomalies \ {a} /\ c \notin anomalies \ {a} => b = c
<1> DEFINE r == [a EXCEPT !.reviewed = TRUE]
<1>1. r.key = a.key /\ r.detected = a.detected /\ r.open = a.open /\ r.reviewed
  BY DEF DetectionTypeOK, Anomaly
<1>2. anomalies' = (anomalies \ {a}) \cup {r} /\ latest' = latest
  BY DEF Review
<1> HIDE DEF r
<1> QED
  BY <1>1, <1>2

LEMMA ReviewStep ==
  ASSUME DetectionInv, NEW a \in anomalies, Review(a)
  PROVE  StampedBefore' /\ RowsIdentified' /\ AtMostOneOpen'
<1> USE DEF DetectionInv
<1>1. StampedBefore'
  BY ReviewRows DEF StampedBefore
<1>2. RowsIdentified'
  BY ReviewRows DEF RowsIdentified
<1>3. AtMostOneOpen'
  BY ReviewRows DEF AtMostOneOpen, OpenRows
<1> QED
  BY <1>1, <1>2, <1>3

LEMMA CommitStep ==
  ASSUME DetectionInv, CommitScan
  PROVE  StampedBefore' /\ RowsIdentified' /\ AtMostOneOpen'
<1> USE DEF DetectionInv
<1>1. latest \in Nat /\ \A a \in anomalies : a.detected \in Nat
  BY DEF DetectionTypeOK, Anomaly
<1>2. latest' = IF Opened = {} THEN latest ELSE latest + 1
  BY DEF CommitScan
<1>3. StampedBefore'
  <2> SUFFICES ASSUME NEW b \in anomalies'
               PROVE  b.detected <= latest'
    BY DEF StampedBefore
  <2>1. CASE \E a \in anomalies : b = ResolveAbsent(a)
    BY <2>1, <1>1, <1>2, ResolveKeeps DEF StampedBefore
  <2>2. CASE b \in Opened
    BY <2>2, <1>1, <1>2, CommitRows
  <2> QED
    BY <2>1, <2>2, CommitRows
<1>4. \A b \in Opened, a \in anomalies : b.detected # ResolveAbsent(a).detected
  BY <1>1, CommitRows, ResolveKeeps DEF StampedBefore
<1>5. \A b, c \in Opened : b.key = c.key => b = c
  <2> DEFINE row(k) == [key |-> k, detected |-> latest + 1, open |-> TRUE, reviewed |-> FALSE]
  <2>1. \A b \in Opened : \E k \in findings \ OpenKeys : b = row(k)
    BY DEF Opened
  <2>2. \A k : row(k).key = k
    OBVIOUS
  <2> HIDE DEF row
  <2> QED
    BY <2>1, <2>2
<1>6. RowsIdentified'
  <2> SUFFICES ASSUME NEW b \in anomalies', NEW c \in anomalies',
                      b.key = c.key, b.detected = c.detected
               PROVE  b = c
    BY DEF RowsIdentified
  <2>1. CASE b \in Opened /\ c \in Opened
    BY <2>1, <1>5
  <2>2. CASE \E a1, a2 \in anomalies : b = ResolveAbsent(a1) /\ c = ResolveAbsent(a2)
    BY <2>2, ResolveKeeps DEF RowsIdentified
  <2> QED
    BY <2>1, <2>2, <1>4, CommitRows
<1>7. AtMostOneOpen'
  <2> SUFFICES ASSUME NEW b \in anomalies', NEW c \in anomalies',
                      b.key = c.key, b.open, c.open
               PROVE  b = c
    BY DEF AtMostOneOpen, OpenRows
  <2>1. CASE b \in Opened /\ c \in Opened
    BY <2>1, <1>5
  <2>2. CASE \E a1, a2 \in anomalies : b = ResolveAbsent(a1) /\ c = ResolveAbsent(a2)
    BY <2>2, ResolveKeeps DEF AtMostOneOpen, OpenRows
  <2>3. \A d \in Opened, a \in anomalies : ~(ResolveAbsent(a).open /\ ResolveAbsent(a).key = d.key)
    BY CommitRows, ResolveKeeps DEF OpenKeys, OpenRows
  <2> QED
    BY <2>1, <2>2, <2>3, CommitRows
<1> QED
  BY <1>3, <1>6, <1>7

LEMMA DetectionInvStep == DetectionInv /\ [DetectionNext]_detectionVars => DetectionInv'
<1> SUFFICES ASSUME DetectionInv, [DetectionNext]_detectionVars
             PROVE  DetectionInv'
  OBVIOUS
<1>1. CASE UNCHANGED <<anomalies, latest>>
  BY <1>1, StepType DEF DetectionInv, StampedBefore, RowsIdentified, AtMostOneOpen, OpenRows
<1>2. CASE \E a \in anomalies : Review(a)
  BY <1>2, StepType, ReviewStep DEF DetectionInv
<1>3. CASE CommitScan
  BY <1>3, StepType, CommitStep DEF DetectionInv
<1> QED
  BY <1>1, <1>2, <1>3, TableSteps

LEMMA DetectionInvInit == DetectionInit => DetectionInv
BY InitType DEF DetectionInit, DetectionInv, StampedBefore, RowsIdentified, AtMostOneOpen, OpenRows

\* The tables and the scan keep their types.
THEOREM DetectionTypeCorrect == DetectionSpec => []DetectionTypeOK
<1>1. DetectionInv => DetectionTypeOK
  BY DEF DetectionInv
<1> QED
  BY <1>1, DetectionInvInit, DetectionInvStep, PTL DEF DetectionSpec

\* The detector is idempotent: however scans, reviews, crashes and the devices
\* interleave, no key ever has two open rows.
THEOREM DetectorIdempotent == DetectionSpec => [](AtMostOneOpen /\ RowsIdentified)
<1>1. DetectionInv => AtMostOneOpen /\ RowsIdentified
  BY DEF DetectionInv
<1> QED
  BY <1>1, DetectionInvInit, DetectionInvStep, PTL DEF DetectionSpec

-----------------------------------------------------------------------------
(***************************************************************************)
(* The incident log.                                                       *)
(***************************************************************************)
\* Ids of rows, of closed rows and of reviewed ones, the refinement mapping.
Raised == {<<a.key, a.detected>> : a \in anomalies}
Cleared == {<<a.key, a.detected>> : a \in anomalies \ OpenRows}
Acknowledged == {<<a.key, a.detected>> : a \in {b \in anomalies : b.reviewed}}

\* A review acknowledges its incident and changes nothing else.
LEMMA ReviewLog ==
  ASSUME DetectionInv, NEW a \in anomalies, Review(a)
  PROVE  Log!Next
<1> USE DEF DetectionInv
<1> DEFINE id == <<a.key, a.detected>>
<1>1. \A b \in anomalies' : \E c \in anomalies :
        /\ c.key = b.key /\ c.detected = b.detected /\ c.open = b.open
        /\ b.reviewed => c.reviewed \/ c = a
  BY ReviewRows
<1>2. \A c \in anomalies : \E b \in anomalies' :
        /\ c.key = b.key /\ c.detected = b.detected /\ c.open = b.open
        /\ c.reviewed \/ c = a => b.reviewed
  BY ReviewRows
<1>3. Raised' = Raised /\ Cleared' = Cleared
  BY <1>1, <1>2 DEF Raised, Cleared, OpenRows
<1>4. Acknowledged' = Acknowledged \cup {id} /\ id \in Raised
  BY <1>1, <1>2 DEF Acknowledged, Raised
<1> HIDE DEF id
<1> QED
  BY <1>3, <1>4 DEF Log!Next, Log!Update, Log!Incident, Log!UnderWay, Raised, Cleared, Acknowledged

\* A commit raises the opened rows and clears the resolved ones.
LEMMA CommitLog ==
  ASSUME DetectionInv, CommitScan
  PROVE  Log!Next
<1> USE DEF DetectionInv
<1> DEFINE R == Raised' \ Raised
           C == Cleared' \ Cleared
<1>1. \A i \in R : \E b \in Opened : i = <<b.key, b.detected>>
  BY CommitRows, ResolveKeeps DEF Raised
<1>2. \A i \in C : \E a \in OpenRows : i = <<a.key, a.detected>>
  BY CommitRows, ResolveKeeps DEF Cleared, OpenRows
<1>3. Raised \subseteq Raised'
  BY CommitRows, ResolveKeeps DEF Raised
<1>4. Cleared \subseteq Cleared'
  BY CommitRows, ResolveKeeps DEF Cleared, OpenRows
<1>5. R \subseteq (Key \X (Nat \ {0})) \ Raised
  <2>1. latest + 1 \in Nat \ {0} /\ findings \subseteq Key
    BY DEF DetectionTypeOK
  <2> QED
    BY <1>1, <2>1, CommitRows
<1>6. C \subseteq Raised \ Cleared
  <2> SUFFICES ASSUME NEW i \in C
               PROVE  i \in Raised \ Cleared
    OBVIOUS
  <2>1. PICK a \in OpenRows : i = <<a.key, a.detected>>
    BY <1>2
  <2> QED
    BY <2>1 DEF Raised, OpenRows
<1>7. \A i, j \in R : i[1] = j[1] => i = j
  BY <1>1, CommitRows
<1>8. \A i \in R : \A j \in Raised \ Cleared : i[1] # j[1]
  <2> SUFFICES ASSUME NEW i \in R, NEW j \in Raised \ Cleared, i[1] = j[1]
               PROVE  FALSE
    OBVIOUS
  <2>1. PICK b \in Opened : i = <<b.key, b.detected>>
    BY <1>1
  <2>2. PICK a \in OpenRows : j = <<a.key, a.detected>>
    BY DEF Raised, Cleared
  <2> QED
    BY <2>1, <2>2, CommitRows DEF OpenKeys
<1>9. Raised' = Raised \cup R /\ Cleared' = Cleared \cup C
  BY <1>3, <1>4
<1>10. Acknowledged' = Acknowledged
  <2>1. \A b \in anomalies' : b.reviewed =>
          \E a \in anomalies : a.reviewed /\ a.key = b.key /\ a.detected = b.detected
    BY CommitRows, ResolveKeeps
  <2>2. \A a \in anomalies : a.reviewed =>
          \E b \in anomalies' : b.reviewed /\ b.key = a.key /\ b.detected = a.detected
    BY CommitRows, ResolveKeeps
  <2> QED
    BY <2>1, <2>2 DEF Acknowledged
<1> QED
  BY <1>5, <1>6, <1>7, <1>8, <1>9, <1>10
     DEF Log!Next, Log!Update, Log!Incident, Log!UnderWay, Raised, Cleared, Acknowledged

\* The detector implements the incident log: every step raises new incidents of
\* keys that had none under way, clears incidents under way, acknowledges one on
\* record, or stutters; none is lost.
THEOREM DetectorImplementsLog == DetectionSpec => LogSpec
<1>1. DetectionInit => Log!Init
  BY DEF DetectionInit, Log!Init, OpenRows
<1>2. DetectionInv /\ [DetectionNext]_detectionVars => [Log!Next]_<<Raised, Cleared, Acknowledged>>
  <2> SUFFICES ASSUME DetectionInv, [DetectionNext]_detectionVars
               PROVE  Log!Next \/ UNCHANGED <<Raised, Cleared, Acknowledged>>
    OBVIOUS
  <2>1. CASE UNCHANGED <<anomalies, latest>>
    BY <2>1 DEF Raised, Cleared, Acknowledged, OpenRows
  <2>2. CASE \E a \in anomalies : Review(a)
    BY <2>2, ReviewLog
  <2>3. CASE CommitScan
    BY <2>3, CommitLog
  <2> QED
    BY <2>1, <2>2, <2>3, TableSteps
<1> QED
  BY <1>1, <1>2, DetectionInvInit, DetectionInvStep, PTL
     DEF DetectionSpec, LogSpec, Log!Spec, Raised, Cleared, Acknowledged

-----------------------------------------------------------------------------
(***************************************************************************)
(* The alert job.                                                          *)
(***************************************************************************)
\* max_instances=1: no scan runs during a dispatch.
JobExclusive == cursor # 0 => stage = "idle"

\* The dispatch pushes a pair that has no delivery row, and its local set of
\* delivered pairs is the table: nobody else writes it.
DispatchSynced ==
  /\ stage \in {"push", "record"} => batch # <<>> /\ target \in User /\ Current \notin deliveries
  /\ stage \in {"check", "push", "record"} => delivered = deliveries

\* A pair was shown once per failure, and once more if it is recorded or about
\* to be; a recorded pair was shown.
ShowsBounded ==
  /\ \A p \in DOMAIN pushes : pushes[p] <= faults + 1
  /\ \A p \in DOMAIN pushes : p \notin deliveries /\ ~(stage = "record" /\ p = Current)
                               => pushes[p] <= faults
  /\ deliveries \subseteq DOMAIN pushes
  /\ stage = "record" => Current \in DOMAIN pushes

\* A muted user whom the session still believes active was shown an alert only
\* per failure; the push under way makes it one more.
MuteBounded ==
  /\ \A u \in User : mutedPushes[u] <= faults + 1
  /\ \A u \in User : subs[u] = "muted" /\ cache[u] = "active" /\ ~(stage = "record" /\ target = u)
                      => mutedPushes[u] <= faults
  /\ stage \in {"push", "record"} => cache[target] = "active"
  /\ \A u \in loaded \cup waiting : subs[u] # "none"
  /\ \A u \in User : cache[u] # "none"

PipelineInv ==
  /\ DetectionInv /\ PipelineTypeOK
  /\ JobExclusive /\ DispatchSynced /\ ShowsBounded /\ MuteBounded

-----------------------------------------------------------------------------
(***************************************************************************)
(* The detector inside the job.                                            *)
(***************************************************************************)
\* A failure of the dispatch touches no variable of the detector but faults.
OnlyFaults == faults' = faults + 1 /\ UNCHANGED <<tableVars, anomalies, latest, cursor, findings>>

LEMMA DetectorSteps ==
  [Next]_vars => \/ [DetectionNext]_detectionVars
                 \/ OnlyFaults
<1> SUFFICES ASSUME [Next]_vars PROVE [DetectionNext]_detectionVars \/ OnlyFaults
  OBVIOUS
<1>1. CASE Environs \/ StartJob \/ ScanStep \/ FinishScan \/ FailScan
  BY <1>1 DEF Environs, StartJob, ScanStep, FinishScan, FailScan, DetectionNext, Scan
<1>2. CASE Admins
  BY <1>2 DEF Admins, Link, Mute, Unmute, Command
<1>3. CASE Dispatch
  BY <1>3 DEF Dispatch, LoadDispatch, Consider, NextAnomaly, Push, Record
<1>4. CASE PushRaises \/ AbortDispatch
  BY <1>4 DEF PushRaises, AbortDispatch, OnlyFaults
<1>5. CASE UNCHANGED vars
  BY <1>5 DEF vars
<1> QED
  BY <1>1, <1>2, <1>3, <1>4, <1>5 DEF Next, Job, Failures

LEMMA DetectorInvKept == DetectionInv /\ [Next]_vars => DetectionInv'
<1>1. DetectionInv /\ OnlyFaults => DetectionInv'
  BY DEF OnlyFaults, DetectionInv, DetectionTypeOK, StampedBefore, RowsIdentified,
         AtMostOneOpen, OpenRows, tableVars
<1> QED
  BY <1>1, DetectorSteps, DetectionInvStep

\* Open rows have ids.
LEMMA OpenIdsType == DetectionTypeOK => OpenIds \subseteq Id
BY DEF DetectionTypeOK, Anomaly, OpenIds, OpenRows, IdOf, Id

\* What the actions that leave the dispatch alone preserve.
LEMMA QuietStep ==
  ASSUME PipelineInv, DetectionInv',
         UNCHANGED <<deliveries, batch, loaded, waiting, cache, delivered, pushed, target,
                     adminVars, lineVars>>,
         \/ UNCHANGED <<stage, faults>> /\ (cursor' # 0 => cursor # 0 \/ stage = "idle")
         \/ stage = "idle" /\ stage' \in {"idle", "load"} /\ faults' \in {faults, faults + 1}
            /\ (cursor' # 0 => stage' = "idle")
  PROVE  PipelineInv'
<1>1. faults \in Nat /\ faults' \in Nat /\ faults <= faults'
  BY DEF PipelineInv, DetectionInv, DetectionTypeOK
<1>2. PipelineTypeOK'
  BY DEF PipelineInv, PipelineTypeOK, DetectionInv, adminVars, lineVars
<1>3. JobExclusive'
  BY DEF PipelineInv, JobExclusive
<1>4. DispatchSynced'
  BY DEF PipelineInv, DispatchSynced, Current
<1>5. ShowsBounded'
  BY <1>1 DEF PipelineInv, ShowsBounded, PipelineTypeOK, Current, lineVars
<1>6. MuteBounded'
  BY <1>1 DEF PipelineInv, MuteBounded, PipelineTypeOK, adminVars, lineVars
<1> QED
  BY <1>2, <1>3, <1>4, <1>5, <1>6 DEF PipelineInv

LEMMA CommandStep ==
  ASSUME PipelineInv, DetectionInv', NEW u \in User, Link(u) \/ Mute(u) \/ Unmute(u)
  PROVE  PipelineInv'
<1> USE DEF PipelineInv
<1>1. /\ subs' \in [User -> {"none", "active", "muted"}]
      /\ \A w \in User : subs[w] # "none" => subs'[w] # "none"
      /\ \A w \in User : w # u => subs'[w] = subs[w] /\ mutedPushes'[w] = mutedPushes[w]
      /\ subs'[u] = "muted" => \/ mutedPushes'[u] = 0
                               \/ subs[u] = "muted" /\ mutedPushes'[u] = mutedPushes[u]
      /\ mutedPushes' \in [User -> Nat]
      /\ mutedPushes'[u] \in {0, mutedPushes[u]}
  <2>1. CASE Link(u)
    BY <2>1 DEF Link, Command, PipelineTypeOK
  <2>2. CASE Mute(u)
    <3>1. /\ subs' = [subs EXCEPT ![u] = "muted"] /\ subs[u] \in {"active", "muted"}
          /\ subs \in [User -> {"none", "active", "muted"}]
          /\ mutedPushes \in [User -> Nat]
      BY <2>2 DEF Mute, Command, PipelineTypeOK
    <3>2. CASE subs[u] = "active"
      <4>1. mutedPushes' = [mutedPushes EXCEPT ![u] = 0]
        BY <2>2, <3>2 DEF Mute
      <4>2. mutedPushes' \in [User -> Nat] /\ mutedPushes'[u] = 0
            /\ \A w \in User : w # u => mutedPushes'[w] = mutedPushes[w]
        BY <3>1, <4>1
      <4>3. /\ subs' \in [User -> {"none", "active", "muted"}] /\ subs'[u] = "muted"
            /\ \A w \in User : w # u => subs'[w] = subs[w]
        BY <3>1
      <4> QED
        BY <3>1, <4>2, <4>3
    <3>3. CASE subs[u] = "muted"
      <4>1. mutedPushes' = mutedPushes
        BY <2>2, <3>3 DEF Mute
      <4> QED
        BY <3>1, <3>3, <4>1
    <3> QED
      BY <3>1, <3>2, <3>3
  <2>3. CASE Unmute(u)
    BY <2>3 DEF Unmute, Command, PipelineTypeOK
  <2> QED
    BY <2>1, <2>2, <2>3
<1>2. commands' \in Nat
  BY DEF Link, Mute, Unmute, Command, PipelineTypeOK
<1>3. UNCHANGED <<detectionVars, deliveries, dispatchVars, pushes>>
  BY DEF Link, Mute, Unmute, Command
<1>4. PipelineTypeOK'
  BY <1>1, <1>2, <1>3 DEF PipelineTypeOK, DetectionInv, dispatchVars, detectionVars
<1>5. JobExclusive' /\ DispatchSynced' /\ ShowsBounded'
  BY <1>3 DEF JobExclusive, DispatchSynced, ShowsBounded, Current, dispatchVars, detectionVars
<1>6. MuteBounded'
  <2>1. faults \in Nat /\ UNCHANGED <<faults, stage, target, cache, loaded, waiting>>
    BY <1>3 DEF DetectionInv, DetectionTypeOK, dispatchVars, detectionVars
  <2>2. \A w \in User : mutedPushes[w] \in Nat /\ mutedPushes'[w] \in Nat
    BY <1>1 DEF PipelineTypeOK
  <2>3. \A w \in User : mutedPushes'[w] \in {0, mutedPushes[w]}
    BY <1>1
  <2>4. \A w \in User : mutedPushes'[w] <= faults' + 1
    BY <2>1, <2>2, <2>3 DEF MuteBounded
  <2>5. \A w \in User : subs'[w] = "muted" /\ cache'[w] = "active" /\ ~(stage' = "record" /\ target' = w)
                          => mutedPushes'[w] <= faults'
    <3> SUFFICES ASSUME NEW w \in User, subs'[w] = "muted", cache'[w] = "active",
                        ~(stage' = "record" /\ target' = w)
                 PROVE  mutedPushes'[w] <= faults'
      OBVIOUS
    <3>1. CASE mutedPushes'[w] = 0
      BY <2>1, <3>1
    <3>2. CASE subs[w] = "muted" /\ mutedPushes'[w] = mutedPushes[w]
      BY <2>1, <3>2 DEF MuteBounded
    <3> QED
      BY <1>1, <3>1, <3>2
  <2>6. \A w \in loaded' \cup waiting' : subs'[w] # "none"
    BY <1>1, <2>1 DEF MuteBounded, PipelineTypeOK
  <2> QED
    BY <2>1, <2>4, <2>5, <2>6 DEF MuteBounded
<1> QED
  BY <1>4, <1>5, <1>6

LEMMA LoadStep ==
  ASSUME PipelineInv, DetectionInv', LoadDispatch
  PROVE  PipelineInv'
<1> USE DEF PipelineInv
<1>1. batch' \in Seq(Id)
  <2>1. PICK n \in 0..MaxAnomalies : \E s \in [1..n -> OpenIds] : batch' = s
    BY DEF LoadDispatch
  <2> QED
    BY <2>1, OpenIdsType, PipelineAssumption DEF DetectionInv
<1>2. PICK us \in SUBSET Linked :
        /\ loaded' = us /\ waiting' = us
        /\ cache' = [u \in User |-> IF u \in us THEN subs[u] ELSE "expired"]
  BY DEF LoadDispatch
<1>3. us \subseteq User /\ \A u \in us : subs[u] # "none"
  BY DEF Linked
<1>4. /\ stage = "load" /\ stage' = "check" /\ delivered' = deliveries /\ pushed' = 0
      /\ UNCHANGED <<detectionVars, deliveries, target, adminVars, lineVars>>
  BY DEF LoadDispatch
<1>5. PipelineTypeOK'
  <2>1. cache' \in [User -> {"expired", "none", "active", "muted"}]
    BY <1>2 DEF PipelineTypeOK
  <2> QED
    BY <1>1, <1>2, <1>3, <1>4, <2>1 DEF PipelineTypeOK, DetectionInv, adminVars, lineVars
<1>6. JobExclusive' /\ DispatchSynced' /\ ShowsBounded'
  BY <1>4 DEF JobExclusive, DispatchSynced, ShowsBounded, detectionVars, lineVars
<1>7. MuteBounded'
  BY <1>2, <1>3, <1>4 DEF MuteBounded, PipelineTypeOK, detectionVars, adminVars, lineVars
<1> QED
  BY <1>5, <1>6, <1>7

\* The end of a dispatch, by completion, cap or failure, forgets its state.
LEMMA EndStep ==
  ASSUME PipelineInv, DetectionInv', EndDispatch, stage # "record" \/ faults' = faults + 1,
         faults' \in {faults, faults + 1}, stage # "idle",
         UNCHANGED <<cursor, deliveries, adminVars, lineVars>>
  PROVE  PipelineInv'
<1> USE DEF PipelineInv
<1>1. faults \in Nat /\ faults' \in Nat /\ faults <= faults'
  BY DEF DetectionInv, DetectionTypeOK
<1>2. PipelineTypeOK'
  BY DEF PipelineTypeOK, DetectionInv, EndDispatch, adminVars, lineVars
<1>3. JobExclusive' /\ DispatchSynced'
  BY DEF JobExclusive, DispatchSynced, EndDispatch
<1>4. ShowsBounded'
  BY <1>1 DEF ShowsBounded, EndDispatch, lineVars, PipelineTypeOK
<1>5. MuteBounded'
  BY <1>1 DEF MuteBounded, EndDispatch, adminVars, lineVars, PipelineTypeOK
<1> QED
  BY <1>2, <1>3, <1>4, <1>5

LEMMA ConsiderStep ==
  ASSUME PipelineInv, DetectionInv', NEW u \in User, Consider(u)
  PROVE  PipelineInv'
<1> USE DEF PipelineInv
<1>1. CASE ~Skips(u) /\ pushed >= MaxPushes
  BY <1>1, EndStep DEF Consider, detectionVars
<1>2. CASE ~(~Skips(u) /\ pushed >= MaxPushes)
  <2>1. /\ waiting' = waiting \ {u}
        /\ cache' = [cache EXCEPT ![u] = Seen(u)]
        /\ stage' = IF Skips(u) THEN "check" ELSE "push"
        /\ target' = IF Skips(u) THEN NoUser ELSE u
        /\ stage = "check" /\ batch # <<>> /\ u \in waiting
        /\ UNCHANGED <<batch, loaded, delivered, pushed>>
        /\ UNCHANGED <<detectionVars, deliveries, adminVars, lineVars>>
    BY <1>2 DEF Consider
  <2>2. subs[u] \in {"active", "muted"}
    BY <2>1 DEF MuteBounded, PipelineTypeOK
  <2>3. /\ Seen(u) \in {"active", "muted"}
        /\ Seen(u) = "active" => cache[u] = "active" \/ subs[u] = "active"
    BY <2>2 DEF Seen, MuteBounded, PipelineTypeOK
  <2>4. ~Skips(u) => Seen(u) = "active" /\ <<Head(batch), u>> \notin deliveries
    BY <2>1, <2>3 DEF Skips, DispatchSynced
  <2>5. PipelineTypeOK'
    BY <2>1, <2>3 DEF PipelineTypeOK, DetectionInv, adminVars, lineVars
  <2>6. JobExclusive'
    BY <2>1 DEF JobExclusive, detectionVars
  <2>7. DispatchSynced'
    BY <2>1, <2>4 DEF DispatchSynced, Current
  <2>8. ShowsBounded'
    BY <2>1 DEF ShowsBounded, detectionVars, lineVars
  <2>9. MuteBounded'
    BY <2>1, <2>2, <2>3, <2>4 DEF MuteBounded, PipelineTypeOK, detectionVars, adminVars, lineVars
  <2> QED
    BY <2>5, <2>6, <2>7, <2>8, <2>9
<1> QED
  BY <1>1, <1>2

LEMMA NextAnomalyStep ==
  ASSUME PipelineInv, DetectionInv', NextAnomaly
  PROVE  PipelineInv'
<1> USE DEF PipelineInv
<1>1. CASE Len(batch) <= 1
  BY <1>1, EndStep DEF NextAnomaly, detectionVars
<1>2. CASE ~(Len(batch) <= 1)
  <2>1. /\ stage = "check" /\ batch' = Tail(batch) /\ waiting' = loaded
        /\ UNCHANGED <<stage, loaded, cache, delivered, pushed, target>>
        /\ UNCHANGED <<detectionVars, deliveries, adminVars, lineVars>>
    BY <1>2 DEF NextAnomaly
  <2>2. batch' \in Seq(Id)
    BY <1>2, <2>1 DEF PipelineTypeOK
  <2>3. PipelineTypeOK'
    BY <2>1, <2>2 DEF PipelineTypeOK, DetectionInv, adminVars, lineVars
  <2>4. JobExclusive' /\ DispatchSynced' /\ ShowsBounded' /\ MuteBounded'
    BY <2>1 DEF JobExclusive, DispatchSynced, ShowsBounded, MuteBounded,
                detectionVars, adminVars, lineVars
  <2> QED
    BY <2>3, <2>4
<1> QED
  BY <1>1, <1>2

\* What one more show of the current alert does to the two histories.
LEMMA ShownFacts ==
  ASSUME PipelineTypeOK, Current \in Pair, target \in User, Shown
  PROVE  /\ DOMAIN pushes' = DOMAIN pushes \cup {Current}
         /\ pushes' \in [DOMAIN pushes' -> Nat \ {0}]
         /\ pushes'[Current] = Times(Current) + 1
         /\ \A p \in DOMAIN pushes : p # Current => pushes'[p] = pushes[p]
         /\ mutedPushes' \in [User -> Nat]
         /\ \A u \in User : \/ mutedPushes'[u] = mutedPushes[u]
                            \/ /\ u = target /\ subs[u] = "muted"
                               /\ mutedPushes'[u] = mutedPushes[u] + 1
<1>1. Times(Current) \in Nat
  BY DEF Times, PipelineTypeOK
<1>2. pushes' = [p \in DOMAIN pushes \cup {Current} |->
                   IF p = Current THEN Times(p) + 1 ELSE pushes[p]]
  BY DEF Shown
<1>3. mutedPushes \in [User -> Nat] /\ pushes \in [DOMAIN pushes -> Nat \ {0}]
  BY DEF PipelineTypeOK
<1>4. CASE subs[target] = "muted"
  <2>1. mutedPushes' = [mutedPushes EXCEPT ![target] = @ + 1]
    BY <1>4 DEF Shown
  <2> QED
    BY <1>1, <1>2, <1>3, <1>4, <2>1
<1>5. CASE subs[target] # "muted"
  <2>1. mutedPushes' = mutedPushes
    BY <1>5 DEF Shown
  <2> QED
    BY <1>1, <1>2, <1>3, <2>1
<1> QED
  BY <1>4, <1>5

\* The alert under way is a pair of an anomaly and a user.
LEMMA CurrentType ==
  ASSUME PipelineInv, stage \in {"push", "record"}
  PROVE  Current \in Pair /\ target \in User /\ batch # <<>> /\ Current \notin deliveries
BY DEF PipelineInv, PipelineTypeOK, DispatchSynced, Current, Pair

\* The user shown the current alert was shown fewer alerts than the bound allows.
LEMMA ShownBounds ==
  ASSUME PipelineInv, stage = "push", Shown
  PROVE  /\ \A p \in DOMAIN pushes' : pushes'[p] <= faults + 1
         /\ \A p \in DOMAIN pushes' : p \notin deliveries /\ p # Current => pushes'[p] <= faults
         /\ deliveries \subseteq DOMAIN pushes' /\ Current \in DOMAIN pushes'
         /\ \A u \in User : mutedPushes'[u] <= faults + 1
         /\ \A u \in User : subs[u] = "muted" /\ cache[u] = "active" /\ u # target
                             => mutedPushes'[u] <= faults
<1> USE DEF PipelineInv
<1>1. faults \in Nat
  BY DEF DetectionInv, DetectionTypeOK
<1>2. Current \in Pair /\ target \in User /\ Current \notin deliveries
  BY CurrentType
<1>3. Times(Current) <= faults
  BY <1>1, <1>2 DEF Times, ShowsBounded
<1>4. Times(Current) \in Nat
  BY DEF Times, PipelineTypeOK
<1>5. /\ DOMAIN pushes' = DOMAIN pushes \cup {Current}
      /\ pushes'[Current] = Times(Current) + 1
      /\ \A p \in DOMAIN pushes : p # Current => pushes'[p] = pushes[p]
      /\ \A u \in User : \/ mutedPushes'[u] = mutedPushes[u]
                         \/ /\ u = target /\ subs[u] = "muted"
                            /\ mutedPushes'[u] = mutedPushes[u] + 1
  BY <1>2, ShownFacts
<1>6. /\ \A p \in DOMAIN pushes' : pushes'[p] <= faults + 1
      /\ \A p \in DOMAIN pushes' : p \notin deliveries /\ p # Current => pushes'[p] <= faults
      /\ deliveries \subseteq DOMAIN pushes' /\ Current \in DOMAIN pushes'
  BY <1>1, <1>3, <1>4, <1>5 DEF ShowsBounded
<1>7. mutedPushes \in [User -> Nat]
  BY DEF PipelineTypeOK
<1>8. subs[target] = "muted" => mutedPushes[target] <= faults
  BY <1>2 DEF MuteBounded
<1>9. /\ \A u \in User : mutedPushes'[u] <= faults + 1
      /\ \A u \in User : subs[u] = "muted" /\ cache[u] = "active" /\ u # target
                          => mutedPushes'[u] <= faults
  BY <1>1, <1>2, <1>5, <1>7, <1>8 DEF MuteBounded
<1> QED
  BY <1>6, <1>9

LEMMA PushStep ==
  ASSUME PipelineInv, DetectionInv', Push
  PROVE  PipelineInv'
<1> USE DEF PipelineInv
<1>1. /\ stage = "push" /\ stage' = "record" /\ Shown
      /\ UNCHANGED <<detectionVars, deliveries, batch, loaded, waiting, cache, delivered, pushed,
                     target, adminVars>>
  BY DEF Push
<1>2. faults' = faults /\ cursor' = cursor /\ Current' = Current /\ UNCHANGED <<subs, commands>>
  BY <1>1 DEF detectionVars, Current, adminVars
<1>3. Current \in Pair /\ target \in User /\ batch # <<>> /\ Current \notin deliveries
  BY <1>1, CurrentType
<1>4. /\ DOMAIN pushes' = DOMAIN pushes \cup {Current}
      /\ pushes' \in [DOMAIN pushes' -> Nat \ {0}]
      /\ mutedPushes' \in [User -> Nat]
  BY <1>1, <1>3, ShownFacts
<1>5. PipelineTypeOK'
  BY <1>1, <1>2, <1>3, <1>4 DEF PipelineTypeOK, DetectionInv
<1>6. JobExclusive' /\ DispatchSynced'
  BY <1>1, <1>2, <1>3 DEF JobExclusive, DispatchSynced
<1>7. ShowsBounded' /\ MuteBounded'
  BY <1>1, <1>2, ShownBounds DEF ShowsBounded, MuteBounded
<1> QED
  BY <1>5, <1>6, <1>7

LEMMA PushRaisesStep ==
  ASSUME PipelineInv, DetectionInv', PushRaises
  PROVE  PipelineInv'
<1> USE DEF PipelineInv
<1>1. /\ stage = "push" /\ stage' = "check" /\ target' = NoUser
      /\ UNCHANGED <<cursor, deliveries, batch, loaded, waiting, cache, delivered, pushed, adminVars>>
  BY DEF PushRaises
<1>2. UNCHANGED <<subs, commands>>
  BY <1>1 DEF adminVars
<1>3. faults \in Nat /\ faults' = faults + 1
  BY DEF PushRaises, DetectionInv, DetectionTypeOK
<1>4. Current \in Pair /\ target \in User /\ batch # <<>> /\ Current \notin deliveries
  BY <1>1, CurrentType
<1>5. CASE Shown
  <2>1. /\ DOMAIN pushes' = DOMAIN pushes \cup {Current}
        /\ pushes' \in [DOMAIN pushes' -> Nat \ {0}]
        /\ mutedPushes' \in [User -> Nat]
    BY <1>4, <1>5, ShownFacts
  <2>2. PipelineTypeOK'
    BY <1>1, <1>2, <1>4, <2>1 DEF PipelineTypeOK, DetectionInv
  <2>3. JobExclusive' /\ DispatchSynced'
    BY <1>1 DEF JobExclusive, DispatchSynced
  <2>4. \A p \in DOMAIN pushes' : pushes'[p] \in Nat
    BY <2>1
  <2>5. ShowsBounded'
    BY <1>1, <1>3, <1>5, <2>4, ShownBounds DEF ShowsBounded
  <2>6. \A u \in User : mutedPushes'[u] \in Nat
    BY <2>1
  <2>7. MuteBounded'
    BY <1>1, <1>2, <1>3, <1>5, <2>6, ShownBounds DEF MuteBounded
  <2> QED
    BY <2>2, <2>3, <2>5, <2>7
<1>6. CASE UNCHANGED lineVars
  <2>1. PipelineTypeOK'
    BY <1>1, <1>2, <1>6 DEF PipelineTypeOK, DetectionInv, lineVars
  <2>2. JobExclusive' /\ DispatchSynced'
    BY <1>1 DEF JobExclusive, DispatchSynced
  <2>3. ShowsBounded'
    BY <1>1, <1>3, <1>6 DEF ShowsBounded, PipelineTypeOK, lineVars
  <2>4. MuteBounded'
    BY <1>1, <1>2, <1>3, <1>6 DEF MuteBounded, PipelineTypeOK, lineVars
  <2> QED
    BY <2>1, <2>2, <2>3, <2>4
<1> QED
  BY <1>5, <1>6 DEF PushRaises

LEMMA RecordStep ==
  ASSUME PipelineInv, DetectionInv', Record
  PROVE  PipelineInv'
<1> USE DEF PipelineInv
<1>1. Current \in Pair /\ target \in User /\ batch # <<>> /\ Current \notin deliveries
  BY CurrentType DEF Record
<1>2. /\ stage = "record" /\ stage' = "check" /\ target' = NoUser
      /\ deliveries' = deliveries \cup {Current}
      /\ delivered' = delivered \cup {Current}
      /\ pushed' = pushed + 1
      /\ cache' = [u \in User |-> "expired"]
      /\ UNCHANGED <<detectionVars, batch, loaded, waiting, adminVars, lineVars>>
  BY <1>1 DEF Record
<1>3. /\ UNCHANGED <<faults, cursor, batch, loaded, waiting, subs, commands, pushes, mutedPushes>>
  BY <1>2 DEF detectionVars, adminVars, lineVars
<1>4. PipelineTypeOK'
  BY <1>1, <1>2, <1>3 DEF PipelineTypeOK, DetectionInv
<1>5. JobExclusive' /\ DispatchSynced'
  BY <1>2, <1>3 DEF JobExclusive, DispatchSynced
<1>6. ShowsBounded'
  BY <1>2, <1>3 DEF ShowsBounded
<1>7. MuteBounded'
  BY <1>2, <1>3 DEF MuteBounded
<1> QED
  BY <1>4, <1>5, <1>6, <1>7

-----------------------------------------------------------------------------
LEMMA PipelineInvStep == PipelineInv /\ [Next]_vars => PipelineInv'
<1> SUFFICES ASSUME PipelineInv, [Next]_vars PROVE PipelineInv'
  OBVIOUS
<1>1. DetectionInv'
  BY DetectorInvKept DEF PipelineInv
<1>2. JobExclusive
  BY DEF PipelineInv
<1>3. CASE Environs
  <2>1. UNCHANGED <<cursor, faults, stage, deliveries, batch, loaded, waiting, cache, delivered,
                    pushed, target, adminVars, lineVars>>
    BY <1>3 DEF Environs, Environment, Heartbeat, Report, Tick, Review, dispatchVars
  <2> QED
    BY <1>1, <1>2, <2>1, QuietStep
<1>4. CASE StartJob
  <2>1. /\ stage = "idle" /\ faults' = faults
        /\ UNCHANGED <<stage, deliveries, batch, loaded, waiting, cache, delivered,
                       pushed, target, adminVars, lineVars>>
    BY <1>4 DEF StartJob, BeginScan, dispatchVars
  <2> QED
    BY <1>1, <2>1, QuietStep
<1>5. CASE ScanStep
  <2>1. /\ cursor # 0 /\ faults' = faults
        /\ UNCHANGED <<stage, deliveries, batch, loaded, waiting, cache, delivered,
                       pushed, target, adminVars, lineVars>>
    BY <1>5 DEF ScanStep, RunQuery, dispatchVars
  <2> QED
    BY <1>1, <2>1, QuietStep
<1>6. CASE FinishScan
  <2>1. ScanLength + 1 # 0
    BY ScanLengthType
  <2>2. /\ cursor # 0 /\ cursor' = 0 /\ faults' = faults /\ stage' = "load"
        /\ UNCHANGED <<deliveries, batch, loaded, waiting, cache, delivered,
                       pushed, target, adminVars, lineVars>>
    BY <1>6, <2>1 DEF FinishScan, CommitScan
  <2>3. stage = "idle"
    BY <1>2, <2>2 DEF JobExclusive
  <2> QED
    BY <1>1, <2>2, <2>3, QuietStep
<1>7. CASE FailScan
  <2>1. /\ cursor # 0 /\ cursor' = 0 /\ faults' = faults + 1
        /\ UNCHANGED <<stage, deliveries, batch, loaded, waiting, cache, delivered,
                       pushed, target, adminVars, lineVars>>
    BY <1>7 DEF FailScan, AbortScan, dispatchVars
  <2>2. stage = "idle"
    BY <1>2, <2>1 DEF JobExclusive
  <2> QED
    BY <1>1, <2>1, <2>2, QuietStep
<1>8. CASE Admins
  BY <1>1, <1>8, CommandStep DEF Admins
<1>9. CASE Dispatch
  BY <1>1, <1>9, LoadStep, ConsiderStep, NextAnomalyStep, PushStep, RecordStep DEF Dispatch
<1>10. CASE PushRaises
  BY <1>1, <1>10, PushRaisesStep
<1>11. CASE AbortDispatch
  BY <1>1, <1>11, EndStep DEF AbortDispatch
<1>12. CASE UNCHANGED vars
  <2>1. UNCHANGED <<cursor, faults, stage, deliveries, batch, loaded, waiting, cache, delivered,
                    pushed, target, adminVars, lineVars>>
    BY <1>12 DEF vars, detectionVars, dispatchVars
  <2> QED
    BY <1>1, <2>1, QuietStep
<1> QED
  BY <1>3, <1>4, <1>5, <1>6, <1>7, <1>8, <1>9, <1>10, <1>11, <1>12 DEF Next, Job, Failures

LEMMA PipelineInvInit == Init => PipelineInv
<1> SUFFICES ASSUME Init PROVE PipelineInv
  OBVIOUS
<1>1. DetectionInv
  BY DetectionInvInit DEF Init
<1>2. DOMAIN pushes = {}
  BY DEF Init
<1>3. PipelineTypeOK
  BY <1>1, <1>2 DEF Init, PipelineTypeOK, DetectionInv
<1>4. JobExclusive /\ DispatchSynced
  BY DEF Init, DetectionInit, JobExclusive, DispatchSynced
<1>5. ShowsBounded
  BY <1>2 DEF Init, ShowsBounded
<1>6. MuteBounded
  BY DEF Init, DetectionInit, MuteBounded
<1> QED
  BY <1>1, <1>3, <1>4, <1>5, <1>6 DEF PipelineInv

LEMMA PipelineInvariant == Spec => []PipelineInv
BY PipelineInvInit, PipelineInvStep, PTL DEF Spec

\* Every reachable state of the job has its types, whatever the devices, users
\* and caps.
THEOREM PipelineTypeCorrect == Spec => []PipelineTypeOK
<1>1. PipelineInv => PipelineTypeOK
  BY DEF PipelineInv
<1> QED
  BY <1>1, PipelineInvariant, PTL

\* An alert is shown to a user at most once more than calls failed or the
\* process died: dispatch_new_anomaly_alerts never duplicates on its own.
THEOREM DuplicatesBounded == Spec => []DuplicatesNeedFaults
<1>1. PipelineInv => DuplicatesNeedFaults
  BY DEF PipelineInv, ShowsBounded, DuplicatesNeedFaults, Times, PipelineTypeOK, DetectionInv,
         DetectionTypeOK
<1> QED
  BY <1>1, PipelineInvariant, PTL

\* After /mute at most the push under way reaches the user, and one more per
\* failed call.
THEOREM MuteTakesEffect == Spec => []MutePrompt
<1>1. PipelineInv => MutePrompt
  BY DEF PipelineInv, MuteBounded, MutePrompt, PipelineTypeOK, DetectionInv, DetectionTypeOK
<1> QED
  BY <1>1, PipelineInvariant, PTL

\* The detector stays idempotent when it runs as the first half of the job.
THEOREM PipelineDetectorIdempotent == Spec => [](AtMostOneOpen /\ RowsIdentified)
<1>1. PipelineInv => AtMostOneOpen /\ RowsIdentified
  BY DEF PipelineInv, DetectionInv
<1> QED
  BY <1>1, PipelineInvariant, PTL

(***************************************************************************)
(* The job implements at-least-once delivery.                              *)
(***************************************************************************)
LEMMA DeliveryPush ==
  ASSUME PipelineInv, stage = "push", Shown, UNCHANGED deliveries
  PROVE  Delivery!Next
<1>1. Current \in Pair /\ target \in User /\ Current \notin deliveries
  BY CurrentType
<1>2. DOMAIN pushes' = DOMAIN pushes \cup {Current}
  BY <1>1, ShownFacts DEF PipelineInv
<1>3. Delivery!Send(Current)
  BY <1>1 DEF Shown, Delivery!Send, Delivery!Sent, Times
<1> QED
  BY <1>1, <1>2, <1>3 DEF Delivery!Next

LEMMA DeliveryRecord ==
  ASSUME PipelineInv, Record
  PROVE  Delivery!Next
<1>1. Current \in Pair /\ Current \notin deliveries
  BY CurrentType DEF Record
<1>2. deliveries' = deliveries \cup {Current} /\ pushes' = pushes
  BY <1>1 DEF Record, lineVars
<1>3. Current \in DOMAIN pushes /\ pushes[Current] \in Nat \ {0}
  BY DEF PipelineInv, ShowsBounded, Record, PipelineTypeOK
<1>4. Delivery!Acknowledge(Current)
  BY <1>2, <1>3 DEF Delivery!Acknowledge, Delivery!Sent
<1> QED
  BY <1>1, <1>2, <1>3, <1>4 DEF Delivery!Next

LEMMA DeliveryStep ==
  PipelineInv /\ [Next]_vars => [Delivery!Next]_<<pushes, deliveries>>
<1> SUFFICES ASSUME PipelineInv, [Next]_vars PROVE [Delivery!Next]_<<pushes, deliveries>>
  OBVIOUS
<1>1. CASE Push
  BY <1>1, DeliveryPush DEF Push
<1>2. CASE PushRaises
  BY <1>2, DeliveryPush DEF PushRaises, lineVars
<1>3. CASE Record
  BY <1>3, DeliveryRecord
<1>4. CASE Environs \/ StartJob \/ ScanStep \/ FinishScan \/ FailScan
  BY <1>4 DEF Environs, StartJob, ScanStep, FinishScan, FailScan, lineVars
<1>5. CASE Admins
  BY <1>5 DEF Admins, Link, Mute, Unmute, Command
<1>6. CASE LoadDispatch \/ (\E u \in User : Consider(u)) \/ NextAnomaly \/ AbortDispatch
  BY <1>6 DEF LoadDispatch, Consider, NextAnomaly, AbortDispatch, lineVars
<1>7. CASE UNCHANGED vars
  BY <1>7 DEF vars, lineVars
<1> QED
  BY <1>1, <1>2, <1>3, <1>4, <1>5, <1>6, <1>7 DEF Next, Job, Dispatch, Failures

\* dispatch_new_anomaly_alerts implements at-least-once delivery: a delivery row
\* is written only for an alert LINE showed, and nothing is pushed after it.
THEOREM JobImplementsDelivery == Spec => DeliverySpec
<1>1. Init => Delivery!Init
  BY DEF Init, Delivery!Init
<1> QED
  BY <1>1, DeliveryStep, PipelineInvariant, PTL DEF Spec, DeliverySpec, Delivery!Spec
=============================================================================
