----------------------------- MODULE GateEvents -----------------------------
(***************************************************************************)
(* Gate events: the gates publish "open" and "close" on test/gate, the     *)
(* broker hands each message to the subscribed processes at least once,    *)
(* and every process records it unless its event_id is already there.      *)
(* The counts of an hour, a day and a week are read from the recorded rows.*)
(*                                                                         *)
(* An event is its event_id: its place in the sequence of what was sent.   *)
(* Time is counted in hours, UTC; days and weeks are those of Bangkok.     *)
(***************************************************************************)
EXTENDS Integers, FiniteSets, Sequences, Functions

CONSTANTS
  Gate,         \* gates; each opens and closes by turns
  Subscriber,   \* processes that subscribe (client ids are random, so several may)
  HoursPerDay, DaysPerWeek, UtcOffset,
  MaxHour,      \* bound: hours that pass
  MaxEvents,    \* bound: events the gates send
  MaxCopies,    \* bound: messages sent again
  MaxFaults     \* bound: failures, crashes and lost connections

ASSUME GateAssumption ==
  /\ HoursPerDay \in Nat \ {0} /\ DaysPerWeek \in Nat \ {0} /\ UtcOffset \in Nat
  /\ IsFiniteSet(Gate)
  /\ MaxHour \in Nat /\ MaxEvents \in Nat /\ MaxCopies \in Nat /\ MaxFaults \in Nat

VARIABLES
  hour,      \* now
  sent,      \* the events sent
  online,    \* the processes connected to the broker
  queue,     \* per process, the messages on their way to it
  task,      \* per process, where on_message is, and with which event
  recorded,  \* gate_events: the number of rows of each event
  copies, faults

vars == <<hour, sent, online, queue, task, recorded, copies, faults>>
broker == <<hour, sent, copies>>

EventId == 1..MaxEvents
Sent == [event : {"open", "close"}, gate : Gate, time : 0..MaxHour]
Message == [id : EventId, retain : BOOLEAN]
Idle == [pc |-> "idle", id |-> 0]

Working(s) == task[s].pc # "idle"
Go(s, pc) == task' = [task EXCEPT ![s].pc = pc]
Done(s) == task' = [task EXCEPT ![s] = Idle]

(***************************************************************************)
(* Gates and broker.                                                       *)
(***************************************************************************)
Tick ==
  /\ hour < MaxHour
  /\ hour' = hour + 1
  /\ UNCHANGED <<sent, online, queue, task, recorded, copies, faults>>

Deliver(id) ==
  queue' = [s \in Subscriber |-> IF s \in online THEN Append(queue[s], [id |-> id, retain |-> FALSE])
                                                 ELSE queue[s]]

OpenNext(g) == Cardinality({i \in DOMAIN sent : sent[i].gate = g}) % 2 = 0

Publish(g) ==
  /\ Len(sent) < MaxEvents
  /\ sent' = Append(sent, [event |-> IF OpenNext(g) THEN "open" ELSE "close", gate |-> g, time |-> hour])
  /\ Deliver(Len(sent) + 1)
  /\ UNCHANGED <<hour, online, task, recorded, copies, faults>>

\* QoS 1: a message whose acknowledgement got lost is sent again.
SendAgain(i) ==
  /\ copies < MaxCopies
  /\ copies' = copies + 1
  /\ Deliver(i)
  /\ UNCHANGED <<hour, sent, online, task, recorded, faults>>

\* Mutant of Connect: the retained message is not flagged.
ConnectUnflagged(s) ==
  /\ s \notin online
  /\ online' = online \cup {s}
  /\ queue' = [queue EXCEPT ![s] = <<[id |-> Len(sent), retain |-> Len(sent) > 0]>>]
  /\ UNCHANGED <<hour, sent, task, recorded, copies, faults>>

\* on_connect subscribes; the broker may hold the last message as a retained one.
Connect(s) ==
  /\ s \notin online
  /\ online' = online \cup {s}
  /\ queue' \in {queue} \cup {[queue EXCEPT ![s] = <<[id |-> i, retain |-> TRUE]>>] : i \in {Len(sent)} \ {0}}
  /\ UNCHANGED <<hour, sent, task, recorded, copies, faults>>

\* clean_session: what was queued for a connection that is lost is gone.
Disconnect(s) ==
  /\ s \in online /\ faults < MaxFaults
  /\ faults' = faults + 1
  /\ online' = online \ {s}
  /\ queue' = [queue EXCEPT ![s] = <<>>]
  /\ UNCHANGED <<hour, sent, task, recorded, copies>>

(***************************************************************************)
(* on_message, and record_event of GateService.                            *)
(***************************************************************************)
Take(s) ==
  /\ ~Working(s) /\ queue[s] # <<>>
  /\ queue' = [queue EXCEPT ![s] = Tail(@)]
  /\ task' = IF Head(queue[s]).retain THEN task
             ELSE [task EXCEPT ![s] = [pc |-> "insert", id |-> Head(queue[s]).id]]
  /\ UNCHANGED <<hour, sent, online, recorded, copies, faults>>

\* Another transaction has inserted the same event_id and not committed yet.
Held(s) == \E t \in Subscriber \ {s} : task[t].pc = "commit" /\ task[t].id = task[s].id

\* Mutant of Insert: event_id is not unique.
InsertUnchecked(s) ==
  /\ task[s].pc = "insert"
  /\ Go(s, "commit")
  /\ UNCHANGED <<broker, online, queue, recorded, faults>>

\* Mutant of Insert: a row that is not committed yet does not hold its event_id.
InsertUnheld(s) ==
  /\ task[s].pc = "insert"
  /\ Go(s, IF recorded[task[s].id] > 0 THEN "lookup" ELSE "commit")
  /\ UNCHANGED <<broker, online, queue, recorded, faults>>

\* The flush of the commit; event_id is unique, so a second row raises
\* IntegrityError, and the transaction is rolled back.
Insert(s) ==
  /\ task[s].pc = "insert" /\ ~Held(s)
  /\ Go(s, IF recorded[task[s].id] > 0 THEN "lookup" ELSE "commit")
  /\ UNCHANGED <<broker, online, queue, recorded, faults>>

Commit(s) ==
  /\ task[s].pc = "commit"
  /\ recorded' = [recorded EXCEPT ![task[s].id] = @ + 1]
  /\ Done(s)
  /\ UNCHANGED <<broker, online, queue, faults>>

\* Mutant of Lookup: a duplicate is tried again.
LookupRetries(s) ==
  /\ task[s].pc = "lookup"
  /\ Go(s, "insert")
  /\ UNCHANGED <<broker, online, queue, recorded, faults>>

\* "duplicate_ignored", or the error is raised again and on_message drops it.
Lookup(s) ==
  /\ task[s].pc = "lookup"
  /\ Done(s)
  /\ UNCHANGED <<broker, online, queue, recorded, faults>>

\* A statement fails: on_message rolls back and the message is gone.
Fail(s) ==
  /\ Working(s) /\ faults < MaxFaults
  /\ faults' = faults + 1
  /\ Done(s)
  /\ UNCHANGED <<broker, online, queue, recorded>>

\* The process dies, and comes back when it connects.
Crash(s) ==
  /\ s \in online /\ faults < MaxFaults
  /\ faults' = faults + 1
  /\ Done(s)
  /\ online' = online \ {s}
  /\ queue' = [queue EXCEPT ![s] = <<>>]
  /\ UNCHANGED <<broker, recorded>>

-----------------------------------------------------------------------------
Init ==
  /\ hour = 0
  /\ sent = <<>>
  /\ online = Subscriber
  /\ queue = [s \in Subscriber |-> <<>>]
  /\ task = [s \in Subscriber |-> Idle]
  /\ recorded = [i \in EventId |-> 0]
  /\ copies = 0
  /\ faults = 0

Handle(s) == Take(s) \/ Insert(s) \/ Commit(s) \/ Lookup(s)

Next ==
  \/ Tick
  \/ \E g \in Gate : Publish(g)
  \/ \E i \in DOMAIN sent : SendAgain(i)
  \/ \E s \in Subscriber : Handle(s) \/ Connect(s) \/ Disconnect(s) \/ Fail(s) \/ Crash(s)

\* The network loop of paho keeps handling what arrives.
Spec == Init /\ [][Next]_vars /\ \A s \in Subscriber : WF_vars(Handle(s))

(***************************************************************************)
(* The counts, from the rows.                                              *)
(***************************************************************************)
Rows == UNION {{i} \X (1..recorded[i]) : i \in DOMAIN sent}
TimeOf(r) == sent[r[1]].time

Tally(rws) == [open |-> Cardinality({r \in rws : sent[r[1]].event = "open"}),
               close |-> Cardinality({r \in rws : sent[r[1]].event = "close"})]
Gap(count) == count.open - count.close
HasMissing(count) == Gap(count) > 1 \/ Gap(count) < -1

Between(start, end) == {r \in Rows : start <= TimeOf(r) /\ TimeOf(r) < end}
GetCount(start, end) == Tally(Between(start, end))

\* Midnight in Bangkok, in UTC.
DayStart(day) == day * HoursPerDay - UtcOffset
DailyCount(day) == GetCount(DayStart(day), DayStart(day + 1))
HourlyCount(day, h) == GetCount(DayStart(day) + h, DayStart(day) + h + 1)

\* Mutant of LocalDay: the day is read off the UTC timestamp.
LocalDayUtc(t) == t \div HoursPerDay
LocalDay(t) == (t + UtcOffset) \div HoursPerDay
LocalHour(t) == (t + UtcOffset) % HoursPerDay

\* get_weekly_summary: the rows of the week, grouped by local day and local hour.
WeekOf(week) == (week * DaysPerWeek)..((week + 1) * DaysPerWeek - 1)
WeekRows(week) == Between(DayStart(week * DaysPerWeek), DayStart((week + 1) * DaysPerWeek))
WeeklyDaily(week) == [day \in WeekOf(week) |-> Tally({r \in WeekRows(week) : LocalDay(TimeOf(r)) = day})]
WeeklyHourly(week) ==
  [h \in {LocalHour(TimeOf(r)) : r \in WeekRows(week)} |->
     Tally({r \in WeekRows(week) : LocalHour(TimeOf(r)) = h})]
WeeklyTotal(week) ==
  LET daily == WeeklyDaily(week)
  IN  [open |-> FoldFunction(LAMBDA a, b : a.open + b, 0, daily),
       close |-> FoldFunction(LAMBDA a, b : a.close + b, 0, daily)]

\* The busiest hour of a function from hours to counts, the earliest of equals.
Peak(counts) ==
  IF counts = <<>> THEN [hour |-> -1, count |-> 0]
  ELSE LET busiest == CHOOSE h \in DOMAIN counts :
                        \A k \in DOMAIN counts : counts[h] > counts[k] \/ (counts[h] = counts[k] /\ h <= k)
       IN  [hour |-> busiest, count |-> counts[busiest]]
Opens(hourly) == [h \in DOMAIN hourly |-> hourly[h].open]
Closes(hourly) == [h \in DOMAIN hourly |-> hourly[h].close]
Totals(hourly) == [h \in DOMAIN hourly |-> hourly[h].open + hourly[h].close]
PeakOpen(week) == Peak(Opens(WeeklyHourly(week)))
PeakClose(week) == Peak(Closes(WeeklyHourly(week)))
PeakTotal(week) == Peak(Totals(WeeklyHourly(week)))

-----------------------------------------------------------------------------
GateTypeOK ==
  /\ hour \in 0..MaxHour
  /\ sent \in Seq(Sent) /\ Len(sent) <= MaxEvents
  /\ online \in SUBSET Subscriber
  /\ queue \in [Subscriber -> Seq(Message)]
  /\ task \in [Subscriber -> [pc : {"idle", "insert", "commit", "lookup"}, id : EventId \cup {0}]]
  /\ \A s \in Subscriber : Working(s) => task[s].id \in EventId
  /\ recorded \in [EventId -> Nat]
  /\ copies \in Nat /\ faults \in Nat

\* record_event: a message that is delivered again, or to two processes at the
\* same time, makes no second row.
OneRowPerEvent == \A i \in EventId : recorded[i] <= 1

\* get_count: when opens and closes of a day or an hour differ by more than one,
\* gates left open and unrecorded messages of that time account for the gap.
Unrecorded(times) == {i \in DOMAIN sent : sent[i].time \in times /\ recorded[i] = 0}
Explained(count, times) ==
  LET slack == Cardinality(Gate) + Cardinality(Unrecorded(times))
  IN  HasMissing(count) => Gap(count) \in -slack..slack
Days == LocalDay(0)..LocalDay(MaxHour)
GapExplained ==
  \A day \in Days :
    /\ Explained(DailyCount(day), {t \in 0..MaxHour : LocalDay(t) = day})
    /\ \A h \in 0..(HoursPerDay - 1) :
         Explained(HourlyCount(day, h), {t \in 0..MaxHour : LocalDay(t) = day /\ LocalHour(t) = h})

\* get_weekly_summary agrees with the counts of its week, of its days and of
\* their hours: no row is counted twice or left out at midnight.
WeeklyAgrees ==
  \A week \in {day \div DaysPerWeek : day \in Days} :
    LET daily == WeeklyDaily(week)
        open == PeakOpen(week).count
        close == PeakClose(week).count
        total == PeakTotal(week).count
    IN  /\ WeeklyTotal(week) = GetCount(DayStart(week * DaysPerWeek), DayStart((week + 1) * DaysPerWeek))
        /\ \A day \in WeekOf(week) :
             /\ daily[day] = DailyCount(day)
             /\ \A h \in 0..(HoursPerDay - 1) :
                  LET count == HourlyCount(day, h)
                  IN  count.open <= open /\ count.close <= close /\ count.open + count.close <= total

\* While nothing fails, the table catches up with what the gates sent, over and over.
EveryEventRecorded == []<>(\A i \in DOMAIN sent : recorded[i] > 0 \/ faults > 0)
=============================================================================
