---------------------------- MODULE WeeklyReport ----------------------------
(***************************************************************************)
(* The weekly report of one week (report_scheduler._run_weekly_reports):   *)
(* the summary of every lot is upserted and committed, then every approved *)
(* admin gets a mail with the lots that succeeded.                         *)
(*                                                                         *)
(* The cron job and POST /api/reports/trigger may run it at the same time, *)
(* each run with one session to its end, while admins are approved,        *)
(* revoked and deleted.  Runs of different weeks write different rows, so  *)
(* one week is enough.                                                     *)
(***************************************************************************)
EXTENDS Naturals, FiniteSets, Sequences

CONSTANTS
  Account,     \* admin accounts
  Lots,        \* LOT_IDS
  Runner,      \* the scheduler thread and the worker threads
  MaxRuns,     \* bound: runs started
  MaxChanges,  \* bound: accounts approved, revoked or deleted
  MaxFaults,   \* bound: statements and calls that fail, and crashes
  Free,        \* the lock of a row nobody writes
  Nobody       \* no admin is being mailed

Lot == {Lots[i] : i \in 1..Len(Lots)}

ASSUME ReportAssumption ==
  /\ Lots \in Seq(Lot) /\ Lots # <<>>
  /\ \A i, j \in 1..Len(Lots) : Lots[i] = Lots[j] => i = j
  /\ Free \notin Runner /\ Nobody \notin Account
  /\ MaxRuns \in Nat /\ MaxChanges \in Nat /\ MaxFaults \in Nat

VARIABLES
  accounts,  \* admins: per account "pending" (or anything not approved), "approved", "deleted"
  rows,      \* weekly_lot_metrics: the committed rows of a lot for this week
  lock,      \* per lot, the run whose transaction has written the row
  run,       \* per runner, the run it executes
  mails,     \* the lots quoted in the mails an account received
  owed,      \* history: approved when the first run started, and untouched since
  runs, changes, faults

vars == <<accounts, rows, lock, run, mails, owed, runs, changes, faults>>

(***************************************************************************)
(* A run.  at: the lot it is on; missing: it found no row of that lot;     *)
(* metrics: lot_metrics, the lots to quote; todo: the admins still to be   *)
(* mailed; fresh: those whose attributes the session holds, the others     *)
(* being expired; broken: every statement of the session raises, because   *)
(* one has failed and nobody rolls back.                                   *)
(***************************************************************************)
Pc == {"idle", "build", "find", "write", "commit", "address", "export", "send"}

NewRun(pc, admins) ==
  [pc |-> pc, at |-> 1, missing |-> FALSE, metrics |-> {}, todo |-> admins, fresh |-> admins,
   broken |-> FALSE, to |-> Nobody]
Idle == NewRun("idle", {})

At(r, pc) == run[r].pc = pc
Set(r, new) == run' = [run EXCEPT ![r] = new]
LotOf(r) == Lots[run[r].at]
Approved == {a \in Account : accounts[a] = "approved"}

Faulty == faults < MaxFaults /\ faults' = faults + 1

\* Mutant of Start: the lots are counted from 0.
StartAtZero(r) ==
  /\ At(r, "idle")
  /\ runs < MaxRuns
  /\ runs' = runs + 1
  /\ Set(r, [NewRun("build", Approved) EXCEPT !.at = 0])
  /\ owed' = IF runs = 0 THEN Approved ELSE owed
  /\ UNCHANGED <<accounts, rows, lock, mails, changes, faults>>

\* The cron job or the trigger: the approved admins are loaded.
Start(r) ==
  /\ At(r, "idle")
  /\ runs < MaxRuns
  /\ runs' = runs + 1
  /\ Set(r, NewRun("build", Approved))
  /\ owed' = IF runs = 0 THEN Approved ELSE owed
  /\ UNCHANGED <<accounts, rows, lock, mails, changes, faults>>

(***************************************************************************)
(* The summaries of the lots.                                              *)
(***************************************************************************)
\* The loop goes on to the next lot, and after the last one to the mails.
NextLot(state) ==
  IF state.at < Len(Lots) THEN [state EXCEPT !.at = @ + 1, !.pc = "build"]
                          ELSE [state EXCEPT !.pc = "address"]

\* build_lot_metrics; on a broken session its first query raises.
Build(r) ==
  /\ At(r, "build")
  /\ Set(r, IF run[r].broken THEN NextLot(run[r]) ELSE [run[r] EXCEPT !.pc = "find"])
  /\ UNCHANGED <<accounts, rows, lock, mails, owed, runs, changes, faults>>

\* An error in the computation, or a query the database refuses.
BuildRaises(r) ==
  /\ \/ At(r, "build") /\ ~run[r].broken /\ Set(r, NextLot(run[r]))
     \/ run[r].pc \in {"build", "find"} /\ Set(r, NextLot([run[r] EXCEPT !.broken = TRUE]))
  /\ Faulty
  /\ UNCHANGED <<accounts, rows, lock, mails, owed, runs, changes>>

\* record_weekly_metrics looks for the row of the lot and the week.
Find(r) ==
  /\ At(r, "find")
  /\ Set(r, [run[r] EXCEPT !.pc = "write", !.missing = rows[LotOf(r)] = 0])
  /\ UNCHANGED <<accounts, rows, lock, mails, owed, runs, changes, faults>>

\* A failed flush rolls back by itself, expires everything the session holds and
\* leaves the session unusable.
FailedFlush(state) == NextLot([state EXCEPT !.broken = TRUE, !.fresh = {}])

\* Mutant of Write: (lot_id, week_start) is not unique.
WriteUnchecked(r) ==
  /\ At(r, "write")
  /\ lock[LotOf(r)] = Free
  /\ Set(r, [run[r] EXCEPT !.pc = "commit"])
  /\ lock' = [lock EXCEPT ![LotOf(r)] = r]
  /\ UNCHANGED <<accounts, rows, mails, owed, runs, changes, faults>>

\* The flush of the commit, once no other transaction holds the row.  An INSERT
\* of a row that was committed meanwhile raises IntegrityError.
Write(r) ==
  /\ At(r, "write")
  /\ lock[LotOf(r)] = Free
  /\ IF run[r].missing /\ rows[LotOf(r)] > 0
       THEN Set(r, FailedFlush(run[r])) /\ UNCHANGED lock
       ELSE /\ Set(r, [run[r] EXCEPT !.pc = "commit"])
            /\ lock' = [lock EXCEPT ![LotOf(r)] = r]
  /\ UNCHANGED <<accounts, rows, mails, owed, runs, changes, faults>>

WriteRaises(r) ==
  /\ At(r, "write")
  /\ Faulty
  /\ Set(r, FailedFlush(run[r]))
  /\ UNCHANGED <<accounts, rows, lock, mails, owed, runs, changes>>

\* Mutant of Committed: the row is flushed and not committed.
NeverCommitted(r) ==
  /\ At(r, "commit")
  /\ UNCHANGED <<accounts, rows, lock, mails, owed, runs, changes>>

\* The row is committed, and every object of the session expires.
Committed(r) ==
  /\ At(r, "commit")
  /\ rows' = IF run[r].missing THEN [rows EXCEPT ![LotOf(r)] = @ + 1] ELSE rows
  /\ lock' = [lock EXCEPT ![LotOf(r)] = Free]
  /\ UNCHANGED <<accounts, mails, owed, runs, changes>>

Commit(r) ==
  /\ Committed(r)
  /\ Set(r, NextLot([run[r] EXCEPT !.fresh = {}, !.metrics = @ \cup {LotOf(r)}]))
  /\ UNCHANGED faults

\* db.refresh raises after the commit: the row is there, the lot is not quoted.
RefreshRaises(r) ==
  /\ Committed(r)
  /\ Faulty
  /\ Set(r, NextLot([run[r] EXCEPT !.fresh = {}, !.broken = TRUE]))

(***************************************************************************)
(* The mails.                                                              *)
(***************************************************************************)
Done(state, a) == [state EXCEPT !.pc = "address", !.todo = @ \ {a}, !.to = Nobody]

\* Mutant of EmailRaises: the session no longer reads what has expired.
EmailRaisesExpired(r, a) == a \notin run[r].fresh

\* admin.email, outside the try block: an expired attribute is read again, which
\* raises if the session is broken or the account is gone.
EmailRaises(r, a) == a \notin run[r].fresh /\ (run[r].broken \/ accounts[a] = "deleted")

\* The next admin, in the order of a query without ORDER BY.  The run ends when
\* the e-mail cannot be read; without any lot it counts the mail as failed.
Address(r) ==
  /\ At(r, "address")
  /\ \E a \in run[r].todo :
       Set(r, IF EmailRaises(r, a) THEN Idle
              ELSE IF run[r].metrics = {} THEN Done([run[r] EXCEPT !.fresh = @ \cup {a}], a)
              ELSE [run[r] EXCEPT !.pc = "export", !.to = a, !.fresh = @ \cup {a}])
  /\ UNCHANGED <<accounts, rows, lock, mails, owed, runs, changes, faults>>

Finish(r) ==
  /\ At(r, "address") /\ run[r].todo = {}
  /\ Set(r, Idle)
  /\ UNCHANGED <<accounts, rows, lock, mails, owed, runs, changes, faults>>

\* export_combined_analytics queries the trends and heatmaps of the lots.
Export(r) ==
  /\ At(r, "export")
  /\ Set(r, IF run[r].broken THEN Done(run[r], run[r].to) ELSE [run[r] EXCEPT !.pc = "send"])
  /\ UNCHANGED <<accounts, rows, lock, mails, owed, runs, changes, faults>>

ExportRaises(r) ==
  /\ At(r, "export") /\ ~run[r].broken
  /\ Faulty
  /\ \E broken \in BOOLEAN : Set(r, Done([run[r] EXCEPT !.broken = broken], run[r].to))
  /\ UNCHANGED <<accounts, rows, lock, mails, owed, runs, changes>>

Delivered(r) == mails' = [mails EXCEPT ![run[r].to] = @ \cup {run[r].metrics}]

Send(r) ==
  /\ At(r, "send")
  /\ Delivered(r)
  /\ Set(r, Done(run[r], run[r].to))
  /\ UNCHANGED <<accounts, rows, lock, owed, runs, changes, faults>>

\* _send_email returns False: the server refused, or accepted and the answer was lost.
SendFails(r) ==
  /\ At(r, "send")
  /\ Faulty
  /\ Delivered(r) \/ UNCHANGED mails
  /\ Set(r, Done(run[r], run[r].to))
  /\ UNCHANGED <<accounts, rows, lock, owed, runs, changes>>

\* The process dies; the database rolls back every transaction.
Crash ==
  /\ Faulty
  /\ run' = [r \in Runner |-> Idle]
  /\ lock' = [l \in Lot |-> Free]
  /\ UNCHANGED <<accounts, rows, mails, owed, runs, changes>>

(***************************************************************************)
(* Other requests approve, revoke and delete accounts.                     *)
(***************************************************************************)
Change(a, before, after) ==
  /\ changes < MaxChanges
  /\ accounts[a] \in before
  /\ changes' = changes + 1
  /\ accounts' = [accounts EXCEPT ![a] = after]
  /\ owed' = owed \ {a}
  /\ UNCHANGED <<rows, lock, run, mails, runs, faults>>

Approve(a) == Change(a, {"pending"}, "approved")
Revoke(a) == Change(a, {"approved"}, "pending")
Delete(a) == Change(a, {"pending", "approved"}, "deleted")

-----------------------------------------------------------------------------
Init ==
  /\ accounts \in [Account -> {"pending", "approved"}]
  /\ rows = [l \in Lot |-> 0]
  /\ lock = [l \in Lot |-> Free]
  /\ run = [r \in Runner |-> Idle]
  /\ mails = [a \in Account |-> {}]
  /\ owed = {}
  /\ runs = 0
  /\ changes = 0
  /\ faults = 0

Step(r) ==
  \/ Build(r) \/ Find(r) \/ Write(r) \/ Commit(r)
  \/ Address(r) \/ Finish(r) \/ Export(r) \/ Send(r)

Fault(r) == BuildRaises(r) \/ WriteRaises(r) \/ RefreshRaises(r) \/ ExportRaises(r) \/ SendFails(r)

Admins == \E a \in Account : Approve(a) \/ Revoke(a) \/ Delete(a)

Next == Admins \/ Crash \/ \E r \in Runner : Start(r) \/ Step(r) \/ Fault(r)

\* A run that has started keeps running; nobody has to start one.
Spec == Init /\ [][Next]_vars /\ \A r \in Runner : WF_vars(Step(r))

-----------------------------------------------------------------------------
ReportTypeOK ==
  /\ accounts \in [Account -> {"pending", "approved", "deleted"}]
  /\ rows \in [Lot -> Nat]
  /\ lock \in [Lot -> Runner \cup {Free}]
  /\ run \in [Runner -> [pc : Pc, at : 1..Len(Lots), missing : BOOLEAN, metrics : SUBSET Lot,
                         todo : SUBSET Account, fresh : SUBSET Account, broken : BOOLEAN,
                         to : Account \cup {Nobody}]]
  /\ mails \in [Account -> SUBSET (SUBSET Lot)]
  /\ owed \in SUBSET Account
  /\ runs \in Nat /\ changes \in Nat /\ faults \in Nat

\* "Triggering again or retrying makes no duplicates": whatever runs overlap, a
\* lot has one row for the week.
OneRowPerLot == \A l \in Lot : rows[l] <= 1

\* The summary of a lot is on record, in a single row, before any mail quotes
\* it, across failed commits, lost races and crashes.
Ledger == INSTANCE MailLedger
LedgerSpec == Ledger!Spec

\* Of runs that race for the rows at least one comes through: unless a call fails
\* or an account is deleted under way, every admin who stayed approved is mailed.
Undisturbed == faults = 0 /\ \A a \in Account : accounts[a] # "deleted"
EveryApprovedMailed ==
  (\A r \in Runner : run[r] = Idle) /\ Undisturbed => \A a \in owed : mails[a] # {}

\* No run waits for ever for a row that another one has written.
EveryRunEnds == \A r \in Runner : []<>(run[r] = Idle)
=============================================================================
