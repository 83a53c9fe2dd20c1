# ParkPilot: a TLA+ model of the parking backend

This directory specifies the backend in `src/`: a FastAPI application over
PostgreSQL (SQLAlchemy, READ COMMITTED), with an MQTT thread, a scheduler thread
and a pool of worker threads in one process. The modules are translated from the
code; TLC checks them on small instances and TLAPS proves the main theorems for
every value of their constants. `PROJECT.json` lists the components, runs, mutants,
source lines of every definition, findings, hazards and theorems.

    tlc -workers 2 -config MCGateEvents.cfg MCGateEvents.tla     # a run
    tlapm GateEventsProofs.tla                                   # a proof

## 1. The system

### How it runs

* Routes declared `async def` run on the event loop. Those that never `await`
  (registering a plate, updating or deleting one) run one at a time. Routes
  declared `def` run concurrently on worker threads. Every request has a
  session of its own and may commit several times.
* paho runs `on_message` on one network thread: gate events, licence plates and
  parking snapshots. Heartbeats and camera events come by HTTP. APScheduler runs the alert job every few minutes and the weekly
  report on Mondays, each with `max_instances=1`; `POST /api/reports/trigger`
  runs the report on a worker thread as well.
* The LINE webhooks and the MCP server share the event loop. Their database
  statements, the admin chatbot's model calls and LINE replies block it; the user
  chatbot's model call and a call of a tool leave it to others. Other clients of the
  MCP server, each with a token and a window of its own, share the loop and the pool with
  the bots. All components draw on one pool of connections, and a checkout from an empty pool
  waits up to 30 s, on the event loop too.
* Sessions autoflush: a pending write is sent before the next SELECT. A commit
  expires every object of the session, so the next access reads the row again. A
  flush that fails leaves the session unusable until `rollback()`.

### Components

| Component | State it keeps | Operations | What it talks to | What is hard |
|---|---|---|---|---|
| Gate events | `gate_events`, unique `event_id` | record an event; count an hour, a day, a week | MQTT broker (QoS 1, clean session, retained messages) | duplicates, two subscribers, lost messages, Bangkok days over UTC rows |
| Parking ingestion | `parking_event_logs`, `device_health`, row locks | snapshot (MQTT or `POST /sync`), camera events, heartbeat | MQTT, HTTP, PostgreSQL locks | read-then-insert without a lock, ids against commit order, deadlocks, first insert of a device |
| Anomaly detection | `system_anomalies` | scan (open and resolve rows), review | reads the tables of ingestion | a scan is many queries, no constraint forbids two open rows |
| Alert notification | `admin_alert_subscriptions`, `admin_alert_deliveries` | dispatch; `/link`, `/mute`, `/unmute` | LINE push | push and commit are two systems, cached rows, two limits and a cap |
| Job scheduling | the scheduler's two jobs | scan then dispatch; weekly report | the two components above, reports | failures between commits, one instance at a time |
| Plate registry | `users`, `license_plates`, `license_plate_requests` | register, review, create, update, delete | event loop and worker threads | several commits per handler, checks that are stale |
| Weekly reports | `weekly_lot_metrics` | upsert per lot, mail every approved admin | SMTP, analytics | cron and trigger at once, one session for the whole run |
| Admin access | `admins`, tokens, stream cookies | sign in, approve, revoke, create, update, delete | Google, SMTP | an `await` before the look-up, mail before commit, tokens that outlive approval |
| Analytics read side | none | heatmap, trends, KPIs, history, dwell time, health page | the tables of ingestion, stream playlists | events repeated, cut by the window or out of order, readers by id and by time, limits without an order, stale device rows |
| Entry records | `entry_records`, S3 objects | create, update, delete | S3 | row and object change without a common transaction |
| LINE bots | a deadline per question, database connections | both webhooks, the admin chatbot's tool loop, the user chatbot's model call | LINE, language models, MCP tools | blocking calls on the event loop, a connection kept while a tool needs another, a deadline that tools exceed |
| MCP server, tools, client | call times per client, a session per tool | check and append, run a tool, give up | the bots, the tables of all components | clients that have given up, one window for all chats, an exhausted pool |
| Login rate limiter | call times | none: attached to no route | nothing | nothing |
| Edge proxy, wiring, scripts | none | HTTP to the edge board | edge board | nothing stateful |

### What makes each correct

* *Gate events*: a row per event whatever is delivered; an event that is
  published is recorded unless something fails; a suspicious count is explained
  by an unrecorded event or an open gate; daily, hourly and weekly summaries agree.
* *Ingestion*: a message takes effect as a whole or not at all; a handler always
  ends; a snapshot repairs earlier drift.
* *Detection*: one row per incident, at most one open per key, no row and no
  review lost; the open rows settle on the conditions that hold.
* *Alerts*: at least once, acknowledged after the push, repeated only after a
  failure; `/mute` takes effect promptly; nothing stays undelivered for ever.
* *Registry*: one pending request per number; owners are stored; statuses move
  along the allowed transitions; as long as reviews do not overlap and nothing
  fails, an approved request has its plate and a rejected one has none.
* *Weekly reports*: one row per lot and week whoever writes it; a mail quotes only what
  is on record; runs end; while nothing fails every approved admin is mailed.
* *Admin access*: one account per address and Google identity; no approval
  before its mail was tried; a deleted account stays deleted; streams are served
  to approved accounts within a session that ends with its login.
* *Analytics*: durations do not exceed what the event log says; pages that read it
  differently agree; the health page does not vouch for devices nobody heard from.
* *Bots and tools*: every connection comes back however a message or a tool ends;
  the model blocks the loop within a bound of the deadline; the window counts what
  it admits and refuses truthfully; every delivery of a webhook ends.

## 2. Modules

| Module | Role |
|---|---|
| `IncidentLog` | Abstract: incidents are raised, at most one under way per key, acknowledged and cleared once |
| `AnomalyDetection` | The scan query by query, the tables it reads, reviews |
| `AlertDelivery` | Abstract: at-least-once delivery with acknowledgements |
| `AlertPipeline` | The scheduled job: extends `AnomalyDetection` with the dispatch, the admin commands and LINE |
| `PlateRegistry` | The handlers of the registry, statement by statement |
| `ReportLog` | Abstract: a log that takes each message as a whole |
| `Ingestion` | The transactions of the three kinds of messages, with their row locks |
| `GateEvents` | Gates, broker, subscribed processes, the table and its counts |
| `MailLedger` | Abstract: summaries are recorded once and for good, and mails quote recorded ones |
| `WeeklyReport` | Overlapping runs of the weekly report, statement by statement |
| `StreamAccess` | Abstract: logins, sessions that end with them, streams served to the approved |
| `AdminAccess` | Sign-in, login, review, direct administration, tokens and stream cookies |
| `ParkingAnalytics` | The readers of the event log and the health page, as functions of tables that change |
| `LineBots` | Webhooks, chatbots, MCP client, tools and their limiter on one event loop and one pool |
| `...Proofs` | The theorems about the module named |
| `MC...` | The instance TLC checks |

### AnomalyDetection

`health` and `lastEvent` are `device_health` and the latest event per spot;
`anomalies` is `system_anomalies`, a row being named by its key (type and spot,
lot or device) and `detected_at`. `BeginScan`, one `RunQuery` per query of
`_find_all`, and `CommitScan` are `detect_anomalies`: `findings` collects what the
queries saw, and ingestion or a review may commit between them. `CommitScan`
opens and resolves rows as the code does after its last query. `AbortScan` is a
raised statement or a dead process.

Time is kept as ages: each row remembers how many ticks ago it was refreshed, up
to the oldest age a threshold tells apart. `Tick` ages all rows together and does
not fall inside a scan: the code reads the clock once per scan, and the
thresholds are minutes and hours.

### AlertPipeline

Extends the detector (`StartJob`, `ScanStep`, `FinishScan`, `FailScan` are its
actions with the job's other half idle) and adds `dispatch_new_anomaly_alerts`:
`LoadDispatch` (the three SELECTs with both limits), `Consider` (one turn of the
inner loop: muted, type, already delivered, cap), `Push`, `Record`
(`_record_delivery` and its commit), `NextAnomaly`. `cache` is what this session
holds of each subscription: loaded with the batch, expired by the commit of
`Record`. `Link`, `Mute` and `Unmute` come from webhook requests at any moment.
`PushRaises` covers both a refused push and one LINE showed although the call
failed; `AbortDispatch` is a crash or an error outside the loop's `try`. The order
in which subscriptions are considered is arbitrary: the query has no `ORDER BY`.

### PlateRegistry

`task[a]` is the handler that worker thread or event loop `a` runs and its next
statement. The actions between `Begin...` and `Finish` are the statements and
commits of `create_plate_request`, `update_request_status`, `create_plate`,
`update_plate` and `delete_plate` with the repositories they call; the event loop
runs one `async` route to its end before the next, worker threads interleave.
Unique indexes (email, plate number) fail the second writer. `Sender` are the
owners who register, and `MaxEdits` bounds direct creations and edits. `disturbed`
is history: two worker threads were busy at once, or a plate was updated
or deleted directly. `CalmReviews` speaks of the states before that and before any
failure.

### Ingestion

A transaction `tx[h]` is the list of statements the session sends: the events
read, the events inserted, per device a look-up and a flush, and the commit.
Autoflush and the order of the code fix the list, so row locks are taken board
first by a snapshot and camera first by camera events. `FlushDevice` waits for
the row's lock; `InsertClashes` is the `IntegrityError` of a first insert that
came second; `DeadlockVictim` is PostgreSQL ending a circle of waiting
transactions; `RolledBack` is the handlers' `rollback()`. Ids are drawn at the
insert and visible at the commit.

### GateEvents

Gates open and close by turns, and every event is sent to each connected process
(client ids are random, so an old and a new process can both be subscribed).
`SendAgain` is QoS 1 redelivery, `Connect` may deliver the retained last message
(which the handler skips), `Disconnect` and `Crash` lose what was queued (clean
session). `Take`, `Insert`, `Commit` and `Lookup` are `on_message` and
`record_event`. The counts are operators over the recorded rows, translated from
`GateService`: time is in hours, a local day is `(t + UtcOffset) \div HoursPerDay`.

### WeeklyReport

`run[r]` is the run a thread executes: the scheduler's, or one started by `POST
/api/reports/trigger`. `Build`, `Find`, `Write` and `Commit` are one turn of the
loop over the lots (`build_lot_metrics`, `record_weekly_metrics`); `Address`,
`Export` and `Send` one turn of the loop over the admins. `lock` is the row a
transaction has written: the second `INSERT` of a lot waits for it and then
raises (`Write`). Two facts of SQLAlchemy carry the model: `broken`, a session
in which a statement failed and which nobody rolls back, so that every later
statement raises; and `fresh`, the admins whose attributes have not expired, so
that `admin.email` needs no query. `EmailRaises` is that read, which stands
outside the `try` block and ends the run. `owed` is history: the admins approved
when the first run started and untouched since. `SendFails` covers a refused mail and
one accepted although the call failed.

### AdminAccess

`handler[h]` is the request that a worker thread or the event loop executes and
its next statement; `seen` is the row its session has loaded, since an UPDATE
writes the columns that differ from it. `SignIn`, `InsertNew`, `Rejoin` and
`Answer` are `google_callback` after the exchange of the code, the only `await`
of the route: nothing is read before it. `Review`, `Load`, `Mail` and `Decide`
are `update_access_status`; the account is read again after the caller was looked
up on the event loop. `Mail` may fail or be skipped, and the review goes on all the
same: `mailed` records the attempts and which of them went out. `Check` and `Create`, `Update` and `Edit`, `Delete` are the
routes of `/api/admins`. Tokens carry the login they descend from (history):
`verify_access_token` does not look at the purpose of a token, so a
stream cookie is accepted as a bearer token and may be exchanged again, and the
model lets it. A password is a Boolean; an identity of Google is named by its
address, and after a renaming the address and the identity of an account differ.

### ParkingAnalytics

The readers are operators over the state, and the actions only make the states
they meet: `Report` (one commit with one stamp, which leaves a row of the snapshot
tables and rows of the event log) of `CameraEvents` or of `SyncSnapshot`, `Heartbeat`, `Stream` (the streaming server writes a playlist) and `Pass` (a tick).
A message is one step, since `Ingestion` has its statements, but what that
interleaving does to readers is kept: a report is committed up to `Delay` ticks
after it was stamped, so ids and stamps may be in different orders. The count of a
snapshot is what its payload says. A camera's events are what the camera says: any spots
of the lot, also one twice, and unrelated to the count. Those of `SyncSnapshot` are the
simulation of `process_orange_pi_snapshot`, which takes any listed spots or frees any
occupied ones until the log has the count. Rows may have equal stamps, and `ORDER BY`
then leaves their order open: `Ties` are all orders, and the properties hold for each.
`Window` is the query, `Follow` the loop that the heatmap and the dwell time both run
(`last_seen_true` is `since`), `HeatMinutes` adds the stays still open, and
`DwellStays` applies the row limit first. Percentages and averages are these
minutes divided by constants of the request, and left out. `Queried` is any result
of a query with a limit and no order; `PeakHour` is the pass of
`get_occupancy_trends` over the hourly averages, kept as sums and counts, and
`Live` the newest snapshot, which `GET /current` shows as well. `DeviceStatus`,
`CameraStatus`, `SystemStatus` and `Uptime` are the health page, computed in one
instant; scores are kept as integers by multiplying with the half hour. The code
after the first `return` of `get_system_health_status` is never reached and has no
counterpart.

### LineBots

`job[d]` is a delivery of a webhook: where its handler is, the messages left, whether
its session holds a connection, and the age of its message. A state of
`Blocking` keeps the event loop, and whatever needs the loop waits for `LoopFree`.
`TakeMessage` and `Connected` check a connection out, `NoConnection` is the
timeout of the pool; `HandleMessage` is a command or a look-up, which
may commit (the connection goes back) or raise (the admin webhook apologises, the
user webhook ends). `AskModel`, `ModelAnswers`, `ModelAsksTools`, `ToolAnswered` are
`AdminChatbotService.get_reply`: each model call gets what the deadline has left,
twice, since `requests` applies the timeout to the connection and to the answer
(`Phases`), and no tool is bounded by it. `AskUserModel` and `UserModelAnswers` are the user
chatbot's asynchronous call. `Close` is `get_db`.

`calls` are the tool calls the server has not answered, `orphans` those whose
client has given up (`ToolFails`), which the server runs all the same. `StartCall`
is `check_rate_limit`, the argument checks and `session_scope`; the tool then keeps
the loop until `FinishCall` or, without a connection, `CallUnconnected`. `CommitCall` is
`mark_anomaly_reviewed`, which gives its connection back at the commit and takes one
again for the refresh; a thread may be quicker. `window` is
the deque of the bot's token as ages; `admitted` is history, a count per age.
`Borrow` and `Return` are connections of the rest of the program. Ages stop
where nothing compares them any more.

## 3. Runs

| Run | Instance | Shows |
|---|---|---|
| `detector` | two lots of which one has a slot, the board and their cameras, three thresholds, two messages, one failure | log well-formed, one open row per key, no row and no review lost, settles on the truth |
| `alerts` | three device alerts, a cap of two pushes, two commands, one failure | delivery, bounded duplicates, prompt mute, backlog drains |
| `alert_at_most_once` | two alerts, one failure | *violation*: a push is repeated after a crash before its commit |
| `registry` | two numbers, two owners of whom one registers, two worker threads and the loop, two registrations, two plates, a direct edit, one failure | every owner is stored, one pending request, allowed transitions, and in calm states approval copies and rejection removes |
| `registry_approval` | direct creation next to a review | *violation*: approved without a plate |
| `ingestion` | two handlers, three messages, one event in each of a camera, one lot, two spots of which one is listed, one failure | all or nothing, deadlocks end, snapshots repair |
| `gate` | two processes, three events, one copy, one failure, hours across midnight and a week's end | one row, recorded in the end, gaps explained, summaries agree |
| `weekly` | two lots, two admins, three runs on two threads, one failure, one change of an account | one row per lot, recorded once and before mailed, runs end, the approved are mailed |
| `access` | three addresses, two threads and the loop, four requests, one failure, tokens of two and cookies of one tick | one account each, no approval before its mail was tried, deleted for good, streams within their login |
| `analytics` | two spots of a lot of which one is listed, its camera and another one, three events, empty messages, heartbeats or stream writes over four ticks, counts of none and two whatever the events, a half hour and an hour of two ticks, a commit up to one tick late, at most two rows per query | durations never exceed the clock's, readers agree, trends agree with KPIs, health hangs on the board |
| `health_offline` | one spot, two cameras, two messages | *violation*: a camera that reported itself offline is shown online |
| `bots` | two chats and a user, four messages, a question with two tools, a worker, a pool of two, timeouts of two ticks, a limit of two calls in two ticks | connections return, deadline kept, window honest, deliveries end |

Every bound is a constant named `Max...` in the module that uses it. Two actors
(threads, processes, handlers) are enough for each race listed under "hazards": all
of them are races of two; the circle of lock waits has length two because there
are two orders. One failure is enough to split any two consecutive commits; the
bounds on duplicates and late pushes count failures, so the theorems carry them
to any number. Three alerts and a cap of two pushes make a dispatch
stop early, and two pushes in one dispatch are what a stale mute state needs. In
`alerts` no more anomalies are open than `ANOMALY_DISPATCH_MAX_ANOMALIES` (500 by
default); see the limits below. In `registry` two registrations by one owner can be for one number or for two, may find or
create the owner next to a direct creation, and leave two requests for two
reviewers; `OnePendingPerNumber` and `ReviewsCalm` carry this to any number of
requests and threads.
In `ingestion` two camera messages may occupy both spots, of which a snapshot then frees one or
both, so that a transaction inserts several rows; a message of a camera with many events does
nothing else, and the theorems have any number of them.
In `analytics` three events let a spot be taken twice and left, or two spots be taken
and one left, in one message or in three, which is more rows than the query's limit;
up to three rows of a spot may have the same stamp, in every order. Three ticks after the
first one are enough for a row to be younger than, as old as, and older than the half hour,
and an hour of two ticks puts up to three snapshots into one hour. The counts none and
two are below and above what one listed spot can hold.
The instance of `gate` has days of two hours and weeks of two days so that
midnight and the end of the week are within three hours. In `weekly` the third run
is the one that finds every row there and updates it, next to two that race for
the INSERT. In `access` three addresses let an identity be renamed onto a third one
and come back under its old name, where only the index on `oauth_sub` refuses it;
four requests suffice for a review, the request it races with, and a login
and an exchange around them; a token outlives two cookies, so that a chain
of exchanges can reach the end of its login. In `bots` a pool of two is empty as soon as
two chats hold a connection, or a chat and the worker; the second message of
a delivery follows on a connection kept or given back; a question with two tools makes
its second call of the model in time or late; a limit of two holds calls of
different age at once, from which one or both drop out when a third comes, and lets two
chats and an orphan refuse each other; and timeouts of two ticks have an instant before, at and after
them. The theorems free this from the numbers.

`CHECK_DEADLOCK FALSE` appears for ingestion, gate events, weekly reports, admin
access and analytics: their messages, hours, runs, requests, writes and ticks are
bounded, and when all have been used up nothing is left to do. The detector, the
job, the registry and the bots always have a next step.

Symmetry is used for `registry` (numbers and threads) and for `access`
(threads, and the two addresses that are not the first administrator's); the
values are interchangeable and the runs have no liveness property.

### Fairness

* `WF(Scan)`, `WF(Job)`: the scheduler keeps starting the job and the thread that
  runs it keeps running. One condition on the whole job is enough, since its
  steps follow each other. Nothing is assumed of devices, admins or time.
* `WF(Step(h))` per ingestion handler: threads keep running, and PostgreSQL looks
  for deadlocks after `deadlock_timeout`.
* `WF(Handle(s))` per subscribed process: the loop of paho handles what arrives.
  Reconnection is not fair: `EveryEventRecorded` does not need it.
* `WF(Step(r))` per thread that runs a report: a run that has started goes on.
  Nobody has to start one. Admin access has no liveness property and no fairness.
* In `LineBots` everything runs on one event loop, which takes what is ready in
  turn: `SF(Handle(d))` per delivery and `SF(Serve(c))` per call, strong because
  they are ready again and again, whenever somebody else leaves the loop.
  (A session is closed by a thread that the loop starts, hence `LoopFree` in the
  condition for closing.) `WF(EndCall)`: a statement ends. `WF(Tick)`: time passes. Nothing
  is assumed of LINE delivering, of calls failing, of workers taking or
  returning connections, or of the calls given up.

### Disagreements the runs exhibit

* `models.py` promises at most one push per user; the push precedes its commit
  (`alert_at_most_once`). What holds is `DuplicatesNeedFaults`.
* `CONTEXT.md` says approval copies the plate; the status is committed first
  (`registry_approval`). What holds is `CalmReviews`.
* `test_analytics_controller.py` expects a camera that reports itself offline to be
  shown offline and the system Degraded; the status of a row is never read, only
  its age (`health_offline`). What holds is `HealthFollowsBoard`, by which no page
  is ever Degraded.

More limits follow from the models without a run of their own. The limit on
anomalies per dispatch is applied before delivered ones are filtered out, so as
many old open anomalies as the limit keep newer ones from being pushed. And two
snapshots of a lot that overlap may both record the same spot as newly occupied:
the simulation avoids repeats only while reports of a lot do not overlap. A weekly
report that meets an error, or an admin deleted after the first commit, may end
before the remaining admins are mailed (`EmailRaises`), although each of them
should receive it by `README.md`. A sign-in that has loaded a rejected account
sets it to pending even if an approval was committed in between. An approval is committed
although its mail failed or was skipped: `send_line_qr_email` reports it
(`email_service.py:70-72`, `:94-96`) and nobody looks (`admin_access_service.py:40`). A
revoked admin may still log in and, having the role, review and administer: only streams
and reports look at the status, although `CONTEXT.md` says active sessions are
invalidated on the next request (`Login` and `Review` have this). The queries of trends and KPIs have a limit and no order, so that
beyond it two requests of one page need not see the same snapshots. A comment of
`analytics_service.py` says ids grow in the order of recording; they are drawn at
the insert and visible at the commit, so that of two overlapping reports the one
committed first may have the higher id, and slot status and history then differ
(`ReadersAgree` excludes this). The same comment expects equal stamps; a camera message that names a spot
twice writes them, and history and heatmap then show whichever row the database puts first.
`CONTEXT.md` measures a dwell time from an occupied event to the next free event; the code
starts it again at every repeated occupied event, so it falls short where a camera repeats
itself (`DurationsTellParking` says that it never goes beyond). The counts of a camera's
message and its events are never compared, so live occupancy and free slots may differ for
good. The heatmap of a window that ends in the future
counts minutes that have not passed, and leaves out spots without an event in the
window. `seed.py` stores nobody: it passes `password_hash`, which `Admin` does not
have. The rate of a snapshot is a fraction when it comes with camera events and
whatever was sent otherwise (a percentage in the tests), and the utilisation averages
both. `docs/feature2-mcp-server.md` grants the quota per token; the limiter's
key is the first eight characters of one. A chat may block the event loop for twice its
deadline, and for a pool timeout per tool.

## 4. Theorems

Each is proved for every value of the constants under the module's named
assumption (bounds are naturals, sets are disjoint where the code has two kinds of
values, sequences list what they are said to list).

* `AlertPipelineProofs`, the detector. `DetectionTypeCorrect` first. `DetectorIdempotent`:
  `AtMostOneOpen` is inductive only with the facts that every row was detected no
  later than `latest` and that a row is identified by key and scan: a new row
  gets `latest + 1` and only for a key without an open row. `DetectorImplementsLog`
  maps `anomalies` to the incident log; every step is a log step or a stutter.
  The log has the acknowledgements too: a scan that loses a review would be no step of it.
* `AlertPipelineProofs`, the job. The invariant relates the stage of the dispatch to the
  delivery rows: while a push is under way its pair has no row, the local set
  `delivered` equals the table, and the pushes of a pair exceed one only by
  failures already counted. The mute bound needs what the cached state may be while a mute
  is pending. `JobImplementsDelivery` refines `AlertDelivery`;
  `PipelineDetectorIdempotent` lifts the detector's invariant into the job, whose
  steps are detector steps or leave its variables alone.
* `PlateRegistryProofs`. `OnePendingPerNumber` rests on the event loop: between the
  check and the insert of a registration no other registration runs, and no review
  makes a request pending. `RegistryTypeCorrect` includes that owners are stored and
  tracks which statements may assume one. `StatusMovesAllowed` is the action property: a review's
  target stays an allowed move from whatever status the row has by then, because
  the three statuses allow every move to "approved" and "rejected". `ReviewsCalm`
  needs what the only reviewer has still to do: a request is approved without its
  plate, or rejected with it, only while its review is between the two commits.
* `IngestionProofs`. `IngestionImplementsLog`: a row's lock is held exactly by the
  transaction that wrote it, what is inserted comes from its own ids, and all
  committed effects of a step are those of one transaction. `SnapshotsRepair` follows
  a snapshot from its read to its commit: ids are drawn ahead of every row there is, so
  that what it inserts comes after whatever it read (`RepairInv`: what a snapshot logs was
  simulated over the rows it saw, and its rows have ids above theirs), and at a commit that
  nobody overtook these rows decide the latest event of every spot they are about. The
  rest is counting: the spots that the simulation takes and frees bring the set of
  occupied ones to the target, or to all that are listed.
* `GateEventsProofs`. `RecordedOnce` needs that no two processes are between the
  insert and the commit of the same event (the unique index makes the second
  wait) and that an event with a row is not about to be committed. `DuplicateFound`:
  the look-up after a failed insert finds the row. `GapsExplained` needs that the events
  of a gate alternate and carry the hour at which they were sent, in order (`Alternate`,
  `Stamped`): then the opens and closes of a gate in one day or hour, both unbroken
  stretches of time, differ by one at most, and the recorded ones by as many more as are
  unrecorded. `SummariesAgree` cuts a week into its days and hours: whatever the offset
  from UTC, each row falls into exactly one of each, so the counts add up, and the peaks
  are the maxima of finite sets of hours.
* `WeeklyReportProofs`. `RecordedOncePerLot`: a run about to commit an INSERT holds the
  row, and found missing what is still missing, because nobody else can commit
  the row while it is held. `ReportImplementsLedger` adds that the lots a run quotes
  are recorded. `RaceLeavesNobodyOut`: a run that loses the race for a row is
  broken for good, so one run must be shown to come through. The invariant names
  it: a run leads if it is not broken and the lots it has still to summarise have no row
  yet. It cannot lose for one of these; when another run commits one of them, that
  run leads; and a leader that mails reads nothing that could raise, while nobody
  is deleted. `Lots` has no duplicates (`LOT_IDS`), which this proof needs.
* `AdminAccessProofs`. `OneAccountPerPerson` follows from the unique indexes
  in every step that inserts or renames. `ApprovalTriesMail` needs that a review about to
  commit an approval has tried to send the mail, and that a creation sets a
  password, which no edit removes. `DeletedStayDeleted` is the action property:
  ids are drawn once and every other step keeps the ids of the rows there are.
  `AccessImplementsStreams` needs, for every token, a login on record with the
  same account and way that the token does not outlive: exchanges keep it
  because the new expiry is at most the old one.
* `LineBotsProofs`. `ConnectionsComeBack`: what is free plus what is held is the pool,
  and a connection is held only by a delivery that has not ended, a worker, or the one
  tool that keeps the loop. `QuestionsKeepTheDeadline`: a model call ends
  by the age it was given, which is at most `Phases` deadlines after the message was
  taken. `WindowIsHonest`: the ages in the window decrease, at most `Limit` of
  them count, and there are as many of each age as calls were admitted then, which
  needs that the pop leaves no age past the window (`OnlyLiveCount`).

* `ParkingAnalyticsProofs`. The readers are functions of the tables, so their theorems
  follow from one invariant about the tables and from lemmas about the functions. The
  invariant: nothing is stamped in the future (`Past`); an id is drawn once (`Drawn`); and
  every event came with a snapshot of its lot and stamp (`Accompanied`). Nothing else
  relates the tables, since counts are what payloads say. All lemmas about rows are for an
  arbitrary order of equal stamps (`TieRanks`, `EarlierTotal`: with a rank of the tied rows
  the order by spot and time is total).
  `DurationsTell`: what `FollowEvent` has after any prefix of the rows is said without the
  fold (`After`: since when each spot is occupied by the last of its rows so far, and a stay
  per car followed by its leaving); each stay then ends with a car of `Cars` and begins no
  earlier (`StayOfCar`), no two stays end with the same car (`StaysApart`), and each car
  of a spot without equal stamps has one (`CarHasStay`). Stays of a spot do not overlap
  (`StaysInTurn`), and their minutes are ticks within them, which the reference
  counts one by one. `ReadersTellTheSame`: in order, the row with the highest id
  is the newest; the pass over the hours keeps the first that no other is ahead of
  (`Leads`), where averages are compared across without dividing; and a sum is at most
  the highest term times their number. `HealthTells`: a camera without a stream or a row
  of its own has the status and the age of the board, so the scores of all devices have
  the same bounds, and so have their sums.

Folds and recursive definitions. The library's induction theorems take an operator as a
parameter and cannot be used here. `LeastElement` is proved instead from `WFMin`, which
takes a set (the naturals are well-founded, so a set of them has a least element), and
`SubsetInduction` from it: a set of subsets of a finite set that has the empty set, and a
set whenever it has it less one member, has all of them. With it every `FoldSet` and
`FoldLeft` of the modules is reasoned about: first a function that satisfies the
recursive equation is shown to exist, so that the fold's `CHOOSE` is one, then its value is
described. `GateEventsProofs` and `ParkingAnalyticsProofs` both have the two lemmas, since
neither module uses the other. Sorting operators of the community modules mean nothing to the prover;
`ParkingAnalytics` states `ORDER BY` as `Ordered`, which gives each member of a finite
set the rank of how many come before it.

Assumptions on constants are as weak as the code: what a table or a configuration
lists is finite (`Gate`, `Spot`, `Camera` and the like), spots are ordered by their ids,
`Board` is no camera, limits are positive. No theorem bounds how many there are.

Only model-checked: the liveness properties (`Converges`, `BacklogDrains`,
`EveryMessageEnds`, `EveryEventRecorded`, `EveryRunEnds`, `EveryDeliveryEnds`), since
fairness is `ENABLED`, which is beyond the prover, and the three violations. Every invariant,
action property and refinement that a run checks has a theorem.

## 5. Not modelled, and why

Pure input and output (rendering CSV and PDF, HTTP and signature handling,
S3 transport, MCP transport), request validation, pagination, and the texts of
messages. Severity and wording of anomalies, photographs and names are data no
property distinguishes. `ANOMALY_*` and `ANOMALY_DISPATCH_*` settings are
constants. Leases, replication and failover of PostgreSQL are outside: its
transactions, locks and unique indexes are as documented.

Of admin access: `revoked_at` (written, never read), display names and their
unique index (a refused name is a request that dies), an e-mail set to null,
the strength of passwords, and `GET /auth/verify-camera`, which reads what
`Stream` reads. Of reports: which week a run covers (runs of different
weeks share no row) and the numbers in a summary.

Of analytics: vehicle counts, which count the rows of `entry_records` in a window, those
of the lot if any row names a lot (`test/license` messages may, `mqtt/handler.py:62-67`)
and all of them otherwise: one query after another over a table nothing else here writes;
the utilisation, a mean of rates as they were sent; negative counts; and camera events of
lots other than the two with snapshot tables, which are stored without a snapshot. Of the
bots: the texts of the answers, with the forecast of `calculate_eta`, a heuristic about
which no document promises anything that the data could contradict; the effect of
`/link`, `/mute` and `/unmute`, which is in `AlertPipeline`; the in-process mode of
the MCP client, used by tests; and a model that sends its answer byte by byte, which
`requests` never times out. The calls of other MCP clients, which have windows of
their own, appear only as connections taken (`Borrow`); their time on the loop does not.
The cookie of a stream is decoded and its account looked up in one step (`Stream`): in the
code a cookie may expire between the two.

`login_rate_limit` of `helpers/rate_limit.py` is attached to no route: `POST /api/login` is
limited by a library.

Entry records: each handler changes the bucket and then commits a row, and
nothing couples the two. Nothing is promised about them either: an upload that fails returns its
error text, which is stored as the URL, and `delete_file` is called with the last part
of the URL, without the prefix `entry-records/` of the key, so that no object is ever
deleted. A row can therefore never lose its picture, whatever is interleaved, and
pictures without a row are never removed; a model would say no more than this.

The edge proxy forwards requests to the edge board and reads the latest snapshot;
wiring, schema and scripts have no behaviour of their own, and the constraints of
`db/models.py` are in the modules of the tables.

## 6. Plan

Done, most important first: `AnomalyDetection`, `AlertPipeline` (composes it),
`PlateRegistry`, `Ingestion`, `GateEvents`, `WeeklyReport`, `AdminAccess`,
`ParkingAnalytics` and `LineBots`, with abstract specifications and proofs. What
could follow if the code changes:

1. If object storage gets a working deletion, `EntryRecords`: rows and objects changed by
   one request without a common transaction.
2. If the forecast of `calculate_eta` gets a specification, the forecast as an operator of
   `ParkingAnalytics`.
3. If a second scheduler is started, `AnomalyDetection` with two scans at once:
   `AtMostOneOpen` rests on `max_instances=1` alone.
