--------------------------- MODULE AlertPipeline ---------------------------
(***************************************************************************)
(* The scheduled alert job (report_scheduler._run_anomaly_detection): the  *)
(* detector of AnomalyDetection followed by dispatch_new_anomaly_alerts,   *)
(* in one session, while admins send /link, /mute and /unmute on others.   *)
(*                                                                         *)
(* max_instances=1 on the job and the single server process mean that at   *)
(* most one scan or dispatch is under way.  The dispatch loop is split     *)
(* where another actor or a failure can come between: after the decision   *)
(* to push, after the push, and after the delivery row is committed.       *)
(***************************************************************************)
EXTENDS AnomalyDetection

CONSTANTS
  User,              \* LINE users that may link as admins
  PushableType,      \* alert types of a subscription that ADMIN_PUSH_ALERT_TYPES lets through
  MaxAnomalies,      \* ANOMALY_DISPATCH_MAX_ANOMALIES
  MaxSubscriptions,  \* ANOMALY_DISPATCH_MAX_SUBSCRIPTIONS
  MaxPushes,         \* ANOMALY_DISPATCH_MAX_PUSHES
  MaxCommands,       \* bound: /link, /mute and /unmute commands in a behaviour
  NoUser             \* no user is being pushed to

ASSUME PipelineAssumption ==
  /\ PushableType \subseteq AnomalyType
  /\ MaxAnomalies \in Nat /\ MaxSubscriptions \in Nat /\ MaxPushes \in Nat
  /\ MaxCommands \in Nat
  /\ NoUser \notin User

VARIABLES
  subs,        \* admin_alert_subscriptions: per user "none", "active" or "muted"
  deliveries,  \* admin_alert_deliveries: pairs <<anomaly, user>>
  commands,    \* commands handled so far
  stage,       \* where the dispatch is
  batch,       \* the loaded anomalies not yet finished, oldest first
  loaded,      \* the users whose subscriptions were loaded
  waiting,     \* the loaded users not yet considered for Head(batch)
  cache,       \* the mute state this session holds of a user, "expired" if none
  delivered,   \* the local set of pairs known to be delivered
  pushed,      \* pushes recorded by this dispatch
  target,      \* the user being pushed to
  pushes,      \* how often LINE showed an alert to a user; no entry is never
  mutedPushes  \* history: pushes shown to a user since their last /mute

dispatchVars == <<stage, batch, loaded, waiting, cache, delivered, pushed, target>>
adminVars == <<subs, commands>>
lineVars == <<pushes, mutedPushes>>
vars == <<detectionVars, deliveries, dispatchVars, adminVars, lineVars>>

\* An anomaly row is referred to by its id, here its key and detected_at.
Id == Key \X (Nat \ {0})
IdOf(a) == <<a.key, a.detected>>
Pair == Id \X User
OpenIds == {IdOf(a) : a \in OpenRows}

Times(p) == IF p \in DOMAIN pushes THEN pushes[p] ELSE 0

(***************************************************************************)
(* The detector, with the job's other half idle; its commit starts the     *)
(* dispatch, its failure ends the job.                                     *)
(***************************************************************************)
Environs ==
  /\ Environment
  /\ UNCHANGED <<deliveries, dispatchVars, adminVars, lineVars>>

StartJob ==
  /\ stage = "idle"
  /\ BeginScan
  /\ UNCHANGED <<deliveries, dispatchVars, adminVars, lineVars>>

ScanStep ==
  /\ RunQuery
  /\ UNCHANGED <<deliveries, dispatchVars, adminVars, lineVars>>

FinishScan ==
  /\ CommitScan
  /\ stage' = "load"
  /\ UNCHANGED <<deliveries, batch, loaded, waiting, cache, delivered, pushed, target,
                 adminVars, lineVars>>

FailScan ==
  /\ AbortScan
  /\ UNCHANGED <<deliveries, dispatchVars, adminVars, lineVars>>

(***************************************************************************)
(* handle_admin_command.                                                   *)
(***************************************************************************)
Command(u, before, after) ==
  /\ commands < MaxCommands
  /\ subs[u] \in before
  /\ commands' = commands + 1
  /\ subs' = [subs EXCEPT ![u] = after]
  /\ UNCHANGED <<detectionVars, deliveries, dispatchVars, pushes>>

\* /link of an unknown user; a second /link keeps the row's mute state.
Link(u) == Command(u, {"none"}, "active") /\ UNCHANGED mutedPushes

Mute(u) ==
  /\ Command(u, {"active", "muted"}, "muted")
  /\ mutedPushes' = IF subs[u] = "active" THEN [mutedPushes EXCEPT ![u] = 0] ELSE mutedPushes

Unmute(u) == Command(u, {"active", "muted"}, "active") /\ UNCHANGED mutedPushes

(***************************************************************************)
(* dispatch_new_anomaly_alerts.                                            *)
(***************************************************************************)
\* s lists distinct open anomalies by detected_at, and leaves out no older one.
OldestFirst(s) ==
  /\ \A i, j \in DOMAIN s : i < j => s[i] # s[j] /\ s[i][2] <= s[j][2]
  /\ \A a \in OpenIds \ {s[i] : i \in DOMAIN s} : \A i \in DOMAIN s : s[i][2] <= a[2]

Linked == {u \in User : subs[u] # "none"}

\* A LIMIT query returns that many rows, or all of them.
Limited(rows, limit, all) ==
  Cardinality(rows) <= limit /\ (rows = all \/ Cardinality(rows) = limit)

\* The three SELECTs: oldest open anomalies, subscriptions, delivered pairs.
LoadDispatch ==
  /\ stage = "load"
  /\ \E n \in 0..MaxAnomalies : \E s \in [1..n -> OpenIds] :
       /\ OldestFirst(s)
       /\ n = MaxAnomalies \/ {s[i] : i \in 1..n} = OpenIds
       /\ batch' = s
  /\ \E us \in SUBSET Linked :
       /\ Limited(us, MaxSubscriptions, Linked)
       /\ loaded' = us
       /\ waiting' = us
       /\ cache' = [u \in User |-> IF u \in us THEN subs[u] ELSE "expired"]
  /\ delivered' = deliveries
  /\ pushed' = 0
  /\ stage' = "check"
  /\ UNCHANGED <<detectionVars, deliveries, target, adminVars, lineVars>>

\* Reading sub.muted: the loaded row, or a fresh SELECT if a commit expired it.
Seen(u) == IF cache[u] = "expired" THEN subs[u] ELSE cache[u]

\* muted, then alert type, then the local dedupe set.
Skips(u) ==
  \/ Seen(u) = "muted"
  \/ Head(batch)[1][1] \notin PushableType
  \/ <<Head(batch), u>> \in delivered

EndDispatch ==
  /\ stage' = "idle"
  /\ batch' = <<>>
  /\ loaded' = {}
  /\ waiting' = {}
  /\ cache' = [u \in User |-> "expired"]
  /\ delivered' = {}
  /\ pushed' = 0
  /\ target' = NoUser

\* One turn of the inner loop up to the push: skip the user, stop at the cap,
\* or go on to push.
Consider(u) ==
  /\ stage = "check"
  /\ batch # <<>>
  /\ u \in waiting
  /\ IF ~Skips(u) /\ pushed >= MaxPushes
       THEN EndDispatch
       ELSE /\ waiting' = waiting \ {u}
            /\ cache' = [cache EXCEPT ![u] = Seen(u)]
            /\ stage' = IF Skips(u) THEN "check" ELSE "push"
            /\ target' = IF Skips(u) THEN NoUser ELSE u
            /\ UNCHANGED <<batch, loaded, delivered, pushed>>
  /\ UNCHANGED <<detectionVars, deliveries, adminVars, lineVars>>

\* Mutant of NextAnomaly: the dispatch ends with the oldest anomaly.
NextAnomalyStops ==
  /\ stage = "check"
  /\ batch = <<>> \/ waiting = {}
  /\ EndDispatch
  /\ UNCHANGED <<detectionVars, deliveries, adminVars, lineVars>>

\* The outer loop moves on, or the dispatch is over.
NextAnomaly ==
  /\ stage = "check"
  /\ batch = <<>> \/ waiting = {}
  /\ IF Len(batch) <= 1
       THEN EndDispatch
       ELSE /\ batch' = Tail(batch)
            /\ waiting' = loaded
            /\ UNCHANGED <<stage, loaded, cache, delivered, pushed, target>>
  /\ UNCHANGED <<detectionVars, deliveries, adminVars, lineVars>>

Current == <<Head(batch), target>>

\* The alert reaches the user.
Shown ==
  /\ pushes' = [p \in DOMAIN pushes \cup {Current} |->
                  IF p = Current THEN Times(p) + 1 ELSE pushes[p]]
  /\ mutedPushes' = IF subs[target] = "muted"
                      THEN [mutedPushes EXCEPT ![target] = @ + 1]
                      ELSE mutedPushes

Push ==
  /\ stage = "push"
  /\ Shown
  /\ stage' = "record"
  /\ UNCHANGED <<detectionVars, deliveries, batch, loaded, waiting, cache, delivered, pushed,
                 target, adminVars>>

\* Mutant of PushRaises: a failed push is recorded like one that succeeded.
PushRaisesUnnoticed ==
  /\ stage = "push"
  /\ faults < MaxFaults
  /\ faults' = faults + 1
  /\ Shown \/ UNCHANGED lineVars
  /\ stage' = "record"
  /\ UNCHANGED <<tableVars, anomalies, latest, cursor, findings,
                 deliveries, batch, loaded, waiting, cache, delivered, pushed, target, adminVars>>

\* push_fn raises: LINE refused, or it accepted and the answer was lost.
PushRaises ==
  /\ stage = "push"
  /\ faults < MaxFaults
  /\ faults' = faults + 1
  /\ Shown \/ UNCHANGED lineVars
  /\ stage' = "check"
  /\ target' = NoUser
  /\ UNCHANGED <<tableVars, anomalies, latest, cursor, findings,
                 deliveries, batch, loaded, waiting, cache, delivered, pushed, adminVars>>

\* Mutant of Record: the commit is missing.
RecordWithoutCommit ==
  /\ stage = "record"
  /\ delivered' = delivered \cup {Current}
  /\ pushed' = pushed + 1
  /\ stage' = "check"
  /\ target' = NoUser
  /\ UNCHANGED <<detectionVars, deliveries, cache, batch, loaded, waiting, adminVars, lineVars>>

\* Mutant of Record: the commit expires nothing.
RecordWithoutExpiry ==
  /\ stage = "record"
  /\ deliveries' = deliveries \cup {Current}
  /\ delivered' = delivered \cup {Current}
  /\ pushed' = pushed + 1
  /\ stage' = "check"
  /\ target' = NoUser
  /\ UNCHANGED <<detectionVars, cache, batch, loaded, waiting, adminVars, lineVars>>

\* Mutant of Record: the push counter runs down.
RecordCountsDown ==
  /\ stage = "record"
  /\ deliveries' = deliveries \cup {Current}
  /\ delivered' = delivered \cup {Current}
  /\ pushed' = pushed - 1
  /\ cache' = [u \in User |-> "expired"]
  /\ stage' = "check"
  /\ target' = NoUser
  /\ UNCHANGED <<detectionVars, batch, loaded, waiting, adminVars, lineVars>>

\* _record_delivery: the row is looked up, added and committed; the commit
\* expires every object of the session.
Record ==
  /\ stage = "record"
  /\ IF Current \in deliveries
       THEN UNCHANGED <<deliveries, delivered, pushed, cache>>
       ELSE /\ deliveries' = deliveries \cup {Current}
            /\ delivered' = delivered \cup {Current}
            /\ pushed' = pushed + 1
            /\ cache' = [u \in User |-> "expired"]
  /\ stage' = "check"
  /\ target' = NoUser
  /\ UNCHANGED <<detectionVars, batch, loaded, waiting, adminVars, lineVars>>

\* The process dies, or a statement of the dispatch raises out of the loop.
AbortDispatch ==
  /\ stage # "idle"
  /\ faults < MaxFaults
  /\ faults' = faults + 1
  /\ EndDispatch
  /\ UNCHANGED <<tableVars, anomalies, latest, cursor, findings, deliveries, adminVars, lineVars>>

-----------------------------------------------------------------------------
Init ==
  /\ DetectionInit
  /\ subs = [u \in User |-> "none"]
  /\ deliveries = {}
  /\ commands = 0
  /\ stage = "idle"
  /\ batch = <<>>
  /\ loaded = {}
  /\ waiting = {}
  /\ cache = [u \in User |-> "expired"]
  /\ delivered = {}
  /\ pushed = 0
  /\ target = NoUser
  /\ pushes = <<>>
  /\ mutedPushes = [u \in User |-> 0]

Admins == \E u \in User : Link(u) \/ Mute(u) \/ Unmute(u)

Dispatch == LoadDispatch \/ (\E u \in User : Consider(u)) \/ NextAnomaly \/ Push \/ Record

Job == StartJob \/ ScanStep \/ FinishScan \/ Dispatch

Failures == FailScan \/ PushRaises \/ AbortDispatch

Next == Environs \/ Admins \/ Job \/ Failures

\* The scheduler keeps starting the job and a started job keeps running;
\* nothing is assumed of admins, devices or time.
Spec == Init /\ [][Next]_vars /\ WF_vars(Job)

-----------------------------------------------------------------------------
\* The variables of the job, the admins and LINE hold values of their types.
PipelineTypeOK ==
  /\ DetectionTypeOK
  /\ subs \in [User -> {"none", "active", "muted"}]
  /\ deliveries \in SUBSET Pair
  /\ commands \in Nat
  /\ stage \in {"idle", "load", "check", "push", "record"}
  /\ batch \in Seq(Id)
  /\ loaded \in SUBSET User
  /\ waiting \in SUBSET User
  /\ cache \in [User -> {"expired", "none", "active", "muted"}]
  /\ delivered \in SUBSET Pair
  /\ pushed \in Nat
  /\ target \in User \cup {NoUser}
  /\ DOMAIN pushes \subseteq Pair
  /\ pushes \in [DOMAIN pushes -> Nat \ {0}]
  /\ mutedPushes \in [User -> Nat]

\* An alert repeats only as often as calls failed or the process died: one
\* failure never multiplies into several duplicates, over any number of scans.
DuplicatesNeedFaults == \A p \in DOMAIN pushes : Times(p) <= 1 + faults

\* After /mute the job pushes at most one more alert to the user, the one it had
\* already decided on, and one per failed call: the commit of a delivery makes
\* the session read the mute state again.
MutePrompt == \A u \in User : mutedPushes[u] <= 1 + faults

\* The job implements at-least-once delivery with acknowledgements: a delivery
\* row is written only for an alert LINE showed, and nothing is pushed after it.
Delivery == INSTANCE AlertDelivery WITH Alert <- Pair, sent <- pushes, acked <- deliveries
DeliverySpec == Delivery!Spec

\* The open pushable alerts user u has no delivery row for.
Backlog(u) == {i \in OpenIds : i[1][1] \in PushableType /\ <<i, u>> \notin deliveries}

\* Whatever is dropped by a failed push, a crash or the cap of a dispatch is
\* retried: an active user's backlog drains over and over.
BacklogDrains == \A u \in User : []<>(subs[u] # "active" \/ Backlog(u) = {})

\* models.py: "each anomaly is pushed at most once per LINE user".
AtMostOncePush == \A p \in DOMAIN pushes : Times(p) <= 1
=============================================================================
