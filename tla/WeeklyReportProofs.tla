------------------------ MODULE WeeklyReportProofs --------------------------
(***************************************************************************)
(* Proofs about the weekly report, for any lots, accounts and runners: the *)
(* state keeps its type, a lot has one row, no mail quotes a lot that is   *)
(* not on record, and overlapping runs leave no approved admin out.        *)
(***************************************************************************)
EXTENDS WeeklyReport, TLAPS

RunType == [pc : Pc, at : 1..Len(Lots), missing : BOOLEAN, metrics : SUBSET Lot,
            todo : SUBSET Account, fresh : SUBSET Account, broken : BOOLEAN,
            to : Account \cup {Nobody}]

\* What a run knows of the rows is still true when it relies on it.
RunOK(s, rws) ==
  /\ s.pc \in {"write", "commit"} /\ ~s.missing => rws[Lots[s.at]] > 0
  /\ \A l \in s.metrics : rws[l] > 0
  /\ s.pc \in {"export", "send"} => s.metrics # {} /\ s.to \in Account

\* The run at its commit, and no other, has the lock of its row, and the row it
\* inserts is still missing.
Holds(r) ==
  /\ At(r, "commit") => lock[LotOf(r)] = r
  /\ At(r, "commit") /\ run[r].missing => rows[LotOf(r)] = 0
  /\ \A l \in Lot : lock[l] = r => At(r, "commit") /\ LotOf(r) = l

ReportInv ==
  /\ ReportTypeOK
  /\ OneRowPerLot
  /\ \A r \in Runner : RunOK(run[r], rows)
  /\ \A r \in Runner : Holds(r)

-----------------------------------------------------------------------------
LEMMA FirstLot == 1 \in 1..Len(Lots)
BY ReportAssumption

LEMMA LotsAreLots == \A i \in 1..Len(Lots) : Lots[i] \in Lot
BY DEF Lot

LEMMA RunTypeOK == ReportTypeOK => \A r \in Runner : run[r] \in RunType /\ LotOf(r) \in Lot
BY LotsAreLots DEF ReportTypeOK, RunType, LotOf

LEMMA IdleType == Idle \in RunType /\ \A rws : RunOK(Idle, rws)
BY FirstLot, ReportAssumption DEF Idle, NewRun, RunType, Pc, RunOK

LEMMA NewRunType ==
  ASSUME NEW A \in SUBSET Account
  PROVE  NewRun("build", A) \in RunType /\ \A rws : RunOK(NewRun("build", A), rws)
BY FirstLot, ReportAssumption DEF NewRun, RunType, Pc, RunOK

LEMMA NextLotType ==
  ASSUME NEW s \in RunType
  PROVE  NextLot(s) \in RunType /\ NextLot(s).pc \in {"build", "address"} /\ NextLot(s).metrics = s.metrics
<1>1. CASE s.at < Len(Lots)
  <2>1. s.at + 1 \in 1..Len(Lots)
    BY <1>1, ReportAssumption DEF RunType
  <2> QED
    BY <1>1, <2>1 DEF RunType, NextLot, Pc
<1>2. CASE ~(s.at < Len(Lots))
  BY <1>2 DEF RunType, NextLot, Pc
<1> QED
  BY <1>1, <1>2

LEMMA NextLotOK ==
  ASSUME NEW s \in RunType, NEW rws, RunOK(s, rws)
  PROVE  RunOK(NextLot(s), rws)
BY NextLotType DEF RunOK

\* The goal of every action of one run: the run's new record is of its type and
\* keeps what RunOK says, the rows only grow, and the locks fit.
LEMMA RunMoves ==
  ASSUME ReportInv, NEW r \in Runner, NEW s \in RunType, run' = [run EXCEPT ![r] = s],
         UNCHANGED <<rows, lock>>, RunOK(s, rows), ~At(r, "commit"), s.pc # "commit"
  PROVE  /\ run' \in [Runner -> RunType]
         /\ OneRowPerLot'
         /\ \A q \in Runner : RunOK(run[q], rows)'
         /\ \A q \in Runner : Holds(q)'
<1>1. run \in [Runner -> RunType]
  BY DEF ReportInv, ReportTypeOK, RunType
<1>2. run' \in [Runner -> RunType]
  BY <1>1
<1>3. OneRowPerLot'
  BY DEF ReportInv, OneRowPerLot
<1>4. ASSUME NEW q \in Runner
      PROVE  RunOK(run[q], rows)' /\ Holds(q)'
  <2>1. run'[q] = IF q = r THEN s ELSE run[q]
    BY <1>1
  <2>2. RunOK(run[q], rows)'
    BY <2>1 DEF ReportInv, RunOK
  <2>3. Holds(q)'
    BY <2>1 DEF ReportInv, Holds, At, LotOf
  <2> QED
    BY <2>2, <2>3
<1> QED
  BY <1>2, <1>3, <1>4

\* The two ends of a commit.
LEMMA CommitMoves ==
  ASSUME ReportInv, NEW r \in Runner, NEW s \in RunType, run' = [run EXCEPT ![r] = s],
         Committed(r), s.pc \in {"build", "address"},
         s.metrics \subseteq run[r].metrics \cup {LotOf(r)}
  PROVE  /\ run' \in [Runner -> RunType]
         /\ rows' \in [Lot -> Nat] /\ lock' \in [Lot -> Runner \cup {Free}]
         /\ OneRowPerLot'
         /\ \A q \in Runner : RunOK(run[q], rows)'
         /\ \A q \in Runner : Holds(q)'
         /\ \A l \in Lot : rows'[l] > 0 <=> rows[l] > 0 \/ l = LotOf(r)
<1>1. /\ run \in [Runner -> RunType] /\ rows \in [Lot -> Nat] /\ lock \in [Lot -> Runner \cup {Free}]
      /\ LotOf(r) \in Lot /\ \A q \in Runner : run[q] \in RunType /\ LotOf(q) \in Lot
  BY RunTypeOK DEF ReportInv, ReportTypeOK, RunType
<1>2. run' \in [Runner -> RunType]
  BY <1>1
<1>3. At(r, "commit") /\ lock[LotOf(r)] = r
  BY DEF Committed, ReportInv, Holds
<1>4. run[r].missing => rows[LotOf(r)] = 0
  BY <1>3 DEF ReportInv, Holds
<1>5. ~run[r].missing => rows[LotOf(r)] > 0
  BY <1>3 DEF ReportInv, RunOK, At, LotOf
<1>6. /\ rows' \in [Lot -> Nat]
      /\ \A l \in Lot : l # LotOf(r) => rows'[l] = rows[l]
      /\ rows'[LotOf(r)] = IF run[r].missing THEN 1 ELSE rows[LotOf(r)]
  BY <1>1, <1>4 DEF Committed
<1>7. \A l \in Lot : rows'[l] > 0 <=> rows[l] > 0 \/ l = LotOf(r)
  BY <1>1, <1>5, <1>6
<1>8. OneRowPerLot'
  BY <1>1, <1>6 DEF ReportInv, OneRowPerLot
<1>9. /\ lock' \in [Lot -> Runner \cup {Free}]
      /\ \A l \in Lot : lock'[l] = IF l = LotOf(r) THEN Free ELSE lock[l]
  BY <1>1 DEF Committed
<1>10. ASSUME NEW q \in Runner
       PROVE  RunOK(run[q], rows)' /\ Holds(q)'
  <2>1. run'[q] = IF q = r THEN s ELSE run[q]
    BY <1>1
  <2>2. CASE q = r
    <3>1. RunOK(run[q], rows)'
      BY <1>1, <1>7, <2>1, <2>2 DEF ReportInv, RunOK, RunType
    <3>2. \A l \in Lot : lock'[l] # r
      BY <1>9, ReportAssumption DEF ReportInv, Holds
    <3>3. Holds(q)'
      BY <2>1, <2>2, <3>2 DEF Holds, At
    <3> QED
      BY <3>1, <3>3
  <2>3. CASE q # r
    <3>1. run'[q] = run[q]
      BY <2>1, <2>3
    <3>2. Lots[run[q].at] \in Lot /\ run[q].metrics \subseteq Lot
      BY <1>1 DEF RunType, LotOf
    <3>3. RunOK(run[q], rows)'
      BY <1>7, <3>1, <3>2 DEF ReportInv, RunOK
    <3>4. At(q, "commit") => LotOf(q) # LotOf(r)
      BY <1>1, <1>3, <2>3 DEF ReportInv, Holds
    <3>5. Holds(q)'
      BY <1>1, <1>6, <1>9, <3>1, <3>4, <2>3, ReportAssumption DEF ReportInv, Holds, At, LotOf
    <3> QED
      BY <3>3, <3>5
  <2> QED
    BY <2>2, <2>3
<1> QED
  BY <1>2, <1>6, <1>7, <1>8, <1>9, <1>10

-----------------------------------------------------------------------------
LEMMA InitInv == Init => ReportInv
<1> SUFFICES ASSUME Init PROVE ReportInv
  OBVIOUS
<1>1. ReportTypeOK
  BY IdleType DEF Init, ReportTypeOK, RunType
<1>2. OneRowPerLot
  BY DEF Init, OneRowPerLot
<1>3. \A r \in Runner : RunOK(run[r], rows)
  BY IdleType DEF Init
<1>4. \A r \in Runner : Holds(r)
  BY ReportAssumption DEF Init, Holds, At, Idle, NewRun
<1> QED
  BY <1>1, <1>2, <1>3, <1>4 DEF ReportInv

\* Type correctness of everything but the runs, their rows and their locks.
Rest ==
  /\ accounts \in [Account -> {"pending", "approved", "deleted"}]
  /\ mails \in [Account -> SUBSET (SUBSET Lot)]
  /\ owed \in SUBSET Account
  /\ runs \in Nat /\ changes \in Nat /\ faults \in Nat

LEMMA StartInv ==
  ASSUME ReportInv, NEW r \in Runner, Start(r)
  PROVE  ReportInv'
<1>1. Approved \in SUBSET Account
  BY DEF Approved
<1>2. NewRun("build", Approved) \in RunType /\ RunOK(NewRun("build", Approved), rows)
      /\ NewRun("build", Approved).pc # "commit"
  BY <1>1, NewRunType DEF NewRun
<1>3. Rest'
  BY <1>1 DEF ReportInv, ReportTypeOK, Start, Rest
<1> QED
  BY <1>2, <1>3, RunMoves DEF ReportInv, ReportTypeOK, Start, Set, At, Rest, RunType

LEMMA BuildInv ==
  ASSUME ReportInv, NEW r \in Runner, Build(r) \/ BuildRaises(r)
  PROVE  ReportInv'
<1>1. PICK s : Set(r, s) /\ s \in {NextLot(run[r]), [run[r] EXCEPT !.pc = "find"],
                                  NextLot([run[r] EXCEPT !.broken = TRUE])}
  BY DEF Build, BuildRaises
<1>2. run[r] \in RunType /\ [run[r] EXCEPT !.broken = TRUE] \in RunType
      /\ [run[r] EXCEPT !.pc = "find"] \in RunType
  BY RunTypeOK DEF ReportInv, RunType, Pc
<1>3. /\ RunOK(run[r], rows) /\ RunOK([run[r] EXCEPT !.broken = TRUE], rows)
      /\ RunOK([run[r] EXCEPT !.pc = "find"], rows)
  BY <1>2 DEF ReportInv, RunOK, RunType
<1>4. s \in RunType /\ RunOK(s, rows) /\ s.pc # "commit"
  <2>1. CASE s = [run[r] EXCEPT !.pc = "find"]
    BY <2>1, <1>2, <1>3 DEF RunType
  <2>2. CASE s = NextLot(run[r])
    BY <2>2, <1>2, <1>3, NextLotType, NextLotOK
  <2>3. CASE s = NextLot([run[r] EXCEPT !.broken = TRUE])
    BY <2>3, <1>2, <1>3, NextLotType, NextLotOK
  <2> QED
    BY <1>1, <2>1, <2>2, <2>3
<1>5. UNCHANGED <<rows, lock>> /\ ~At(r, "commit")
  BY DEF Build, BuildRaises, At
<1>6. Rest'
  BY DEF ReportInv, ReportTypeOK, Build, BuildRaises, Faulty, Rest
<1> QED
  BY <1>1, <1>4, <1>5, <1>6, RunMoves DEF ReportInv, ReportTypeOK, Set, Rest, RunType

LEMMA FindInv ==
  ASSUME ReportInv, NEW r \in Runner, Find(r)
  PROVE  ReportInv'
<1> DEFINE s == [run[r] EXCEPT !.pc = "write", !.missing = rows[LotOf(r)] = 0]
<1>1. run[r] \in RunType /\ LotOf(r) \in Lot /\ rows[LotOf(r)] \in Nat
  BY RunTypeOK DEF ReportInv, ReportTypeOK
<1>2. s \in RunType /\ s.pc # "commit"
  BY <1>1 DEF RunType, Pc
<1>3. RunOK(s, rows)
  <2>1. /\ s.pc = "write" /\ s.at = run[r].at /\ s.metrics = run[r].metrics
        /\ s.missing <=> rows[LotOf(r)] = 0
    BY <1>1 DEF RunType
  <2> HIDE DEF s
  <2> QED
    BY <1>1, <2>1 DEF ReportInv, RunOK, LotOf
<1>4. Rest'
  BY DEF ReportInv, ReportTypeOK, Find, Rest
<1> HIDE DEF s
<1>5. run' = [run EXCEPT ![r] = s] /\ UNCHANGED <<rows, lock>> /\ ~At(r, "commit")
  BY DEF Find, Set, At, s
<1> QED
  BY <1>2, <1>3, <1>4, <1>5, RunMoves DEF ReportInv, ReportTypeOK, Rest, RunType

LEMMA FailedFlushOK ==
  ASSUME ReportInv, NEW r \in Runner
  PROVE  /\ FailedFlush(run[r]) \in RunType /\ FailedFlush(run[r]).pc # "commit"
         /\ RunOK(FailedFlush(run[r]), rows)
<1> DEFINE s == [run[r] EXCEPT !.broken = TRUE, !.fresh = {}]
<1>1. run[r] \in RunType
  BY RunTypeOK DEF ReportInv
<1>2. s \in RunType /\ RunOK(s, rows)
  BY <1>1 DEF ReportInv, RunOK, RunType
<1>3. FailedFlush(run[r]) = NextLot(s)
  BY DEF FailedFlush
<1> HIDE DEF s
<1> QED
  BY <1>2, <1>3, NextLotType, NextLotOK

LEMMA WriteInv ==
  ASSUME ReportInv, NEW r \in Runner, Write(r) \/ WriteRaises(r)
  PROVE  ReportInv'
<1>1. Rest' /\ rows' = rows
  BY DEF ReportInv, ReportTypeOK, Write, WriteRaises, Faulty, Rest
<1>2. CASE Set(r, FailedFlush(run[r])) /\ UNCHANGED lock
  BY <1>1, <1>2, FailedFlushOK, RunMoves
     DEF ReportInv, ReportTypeOK, Set, Rest, RunType, Write, WriteRaises, At
<1>3. CASE /\ At(r, "write") /\ lock[LotOf(r)] = Free
           /\ ~(run[r].missing /\ rows[LotOf(r)] > 0)
           /\ Set(r, [run[r] EXCEPT !.pc = "commit"])
           /\ lock' = [lock EXCEPT ![LotOf(r)] = r]
  <2> DEFINE s == [run[r] EXCEPT !.pc = "commit"]
  <2>1. /\ run \in [Runner -> RunType] /\ rows \in [Lot -> Nat]
        /\ lock \in [Lot -> Runner \cup {Free}]
        /\ LotOf(r) \in Lot /\ \A q \in Runner : run[q] \in RunType /\ LotOf(q) \in Lot
    BY RunTypeOK DEF ReportInv, ReportTypeOK, RunType
  <2>2. s \in RunType /\ RunOK(s, rows) /\ s.pc = "commit" /\ s.at = run[r].at
        /\ s.missing = run[r].missing
    BY <1>3, <2>1 DEF RunType, Pc, ReportInv, RunOK, At
  <2> HIDE DEF s
  <2>3. run' = [run EXCEPT ![r] = s]
    BY <1>3 DEF Set, s
  <2>4. run' \in [Runner -> RunType] /\ lock' \in [Lot -> Runner \cup {Free}]
    BY <1>3, <2>1, <2>2, <2>3
  <2>5. run[r].missing => rows[LotOf(r)] = 0
    BY <1>3, <2>1
  <2>6. ASSUME NEW q \in Runner
        PROVE  RunOK(run[q], rows)' /\ Holds(q)'
    <3>1. run'[q] = IF q = r THEN s ELSE run[q]
      BY <2>1, <2>3
    <3>2. RunOK(run[q], rows)'
      BY <1>1, <2>2, <3>1 DEF ReportInv, RunOK
    <3>3. \A l \in Lot : lock'[l] = IF l = LotOf(r) THEN r ELSE lock[l]
      BY <1>3, <2>1
    <3>4. CASE q = r
      <4>1. \A l \in Lot : lock[l] # r
        BY <1>3 DEF ReportInv, Holds, At
      <4> QED
        BY <1>1, <2>1, <2>2, <2>5, <3>1, <3>3, <3>4, <4>1 DEF Holds, At, LotOf
    <3>5. CASE q # r
      <4>1. At(q, "commit") => LotOf(q) # LotOf(r)
        BY <1>3, <3>5, ReportAssumption DEF ReportInv, Holds
      <4> QED
        BY <1>1, <2>1, <3>1, <3>3, <3>5, <4>1 DEF ReportInv, Holds, At, LotOf
    <3> QED
      BY <3>2, <3>4, <3>5
  <2> QED
    BY <1>1, <2>1, <2>4, <2>6 DEF ReportInv, ReportTypeOK, Rest, RunType, OneRowPerLot
<1> QED
  BY <1>2, <1>3 DEF Write, WriteRaises

LEMMA CommitInv ==
  ASSUME ReportInv, NEW r \in Runner, Commit(r) \/ RefreshRaises(r)
  PROVE  ReportInv' /\ \A l \in Lot : rows'[l] > 0 <=> rows[l] > 0 \/ l = LotOf(r)
<1> DEFINE t == [run[r] EXCEPT !.fresh = {}, !.metrics = @ \cup {LotOf(r)}]
           u == [run[r] EXCEPT !.fresh = {}, !.broken = TRUE]
<1>1. run[r] \in RunType /\ LotOf(r) \in Lot
  BY RunTypeOK DEF ReportInv
<1>2. t \in RunType /\ t.metrics \subseteq run[r].metrics \cup {LotOf(r)}
  BY <1>1 DEF RunType
<1>3. u \in RunType /\ u.metrics \subseteq run[r].metrics \cup {LotOf(r)}
  BY <1>1 DEF RunType
<1>4. Rest' /\ Committed(r)
  BY DEF ReportInv, ReportTypeOK, Commit, RefreshRaises, Committed, Faulty, Rest
<1>5. run' = [run EXCEPT ![r] = NextLot(t)] \/ run' = [run EXCEPT ![r] = NextLot(u)]
  BY DEF Commit, RefreshRaises, Set
<1> HIDE DEF t, u
<1>6. PICK s \in RunType : /\ run' = [run EXCEPT ![r] = s] /\ s.pc \in {"build", "address"}
                           /\ s.metrics \subseteq run[r].metrics \cup {LotOf(r)}
  <2>1. CASE run' = [run EXCEPT ![r] = NextLot(t)]
    BY <2>1, <1>2, NextLotType
  <2>2. CASE run' = [run EXCEPT ![r] = NextLot(u)]
    BY <2>2, <1>3, NextLotType
  <2> QED
    BY <1>5, <2>1, <2>2
<1> QED
  BY <1>4, <1>6, CommitMoves DEF ReportInv, ReportTypeOK, Rest, RunType

LEMMA AddressInv ==
  ASSUME ReportInv, NEW r \in Runner, Address(r) \/ Finish(r)
  PROVE  ReportInv'
<1>1. run[r] \in RunType /\ RunOK(run[r], rows) /\ At(r, "address")
  BY RunTypeOK DEF ReportInv, Address, Finish
<1>2. PICK s \in RunType : run' = [run EXCEPT ![r] = s] /\ RunOK(s, rows) /\ s.pc # "commit"
  <2>1. CASE Set(r, Idle)
    BY <2>1, IdleType DEF Set, Idle, NewRun
  <2>2. CASE ~Set(r, Idle)
    <3>1. PICK a \in run[r].todo :
            Set(r, IF run[r].metrics = {} THEN Done([run[r] EXCEPT !.fresh = @ \cup {a}], a)
                   ELSE [run[r] EXCEPT !.pc = "export", !.to = a, !.fresh = @ \cup {a}])
      BY <2>2 DEF Address, Finish
    <3>2. a \in Account
      BY <1>1 DEF RunType
    <3>3. CASE run[r].metrics = {}
      <4> DEFINE s == Done([run[r] EXCEPT !.fresh = @ \cup {a}], a)
      <4>1. s \in RunType /\ s.pc = "address" /\ RunOK(s, rows)
        BY <1>1, <3>2, <3>3 DEF Done, RunType, Pc, RunOK
      <4> QED
        BY <3>1, <3>3, <4>1 DEF Set
    <3>4. CASE run[r].metrics # {}
      <4> DEFINE s == [run[r] EXCEPT !.pc = "export", !.to = a, !.fresh = @ \cup {a}]
      <4>1. s \in RunType /\ s.pc = "export" /\ RunOK(s, rows)
        BY <1>1, <3>2, <3>4 DEF RunType, Pc, RunOK
      <4> QED
        BY <3>1, <3>4, <4>1 DEF Set
    <3> QED
      BY <3>3, <3>4
  <2> QED
    BY <2>1, <2>2
<1>3. UNCHANGED <<rows, lock>> /\ ~At(r, "commit") /\ Rest'
  BY DEF ReportInv, ReportTypeOK, Address, Finish, At, Rest
<1> QED
  BY <1>2, <1>3, RunMoves DEF ReportInv, ReportTypeOK, Rest, RunType

LEMMA MailInv ==
  ASSUME ReportInv, NEW r \in Runner, Export(r) \/ ExportRaises(r) \/ Send(r) \/ SendFails(r)
  PROVE  ReportInv'
<1>1. /\ run[r] \in RunType /\ RunOK(run[r], rows) /\ run[r].pc \in {"export", "send"}
      /\ run[r].to \in Account
  BY RunTypeOK DEF ReportInv, Export, ExportRaises, Send, SendFails, At, RunOK
<1>2. PICK s \in RunType : run' = [run EXCEPT ![r] = s] /\ RunOK(s, rows) /\ s.pc # "commit"
  <2>1. CASE Set(r, [run[r] EXCEPT !.pc = "send"])
    <3>1. [run[r] EXCEPT !.pc = "send"] \in RunType /\ RunOK([run[r] EXCEPT !.pc = "send"], rows)
      BY <1>1 DEF RunType, Pc, RunOK
    <3> QED
      BY <2>1, <3>1 DEF Set, RunType
  <2>2. ASSUME NEW broken \in BOOLEAN, Set(r, Done([run[r] EXCEPT !.broken = broken], run[r].to))
        PROVE  \E s \in RunType : run' = [run EXCEPT ![r] = s] /\ RunOK(s, rows) /\ s.pc # "commit"
    <3> DEFINE s == Done([run[r] EXCEPT !.broken = broken], run[r].to)
    <3>1. s \in RunType /\ s.pc = "address" /\ RunOK(s, rows)
      BY <1>1 DEF Done, RunType, Pc, RunOK
    <3> QED
      BY <2>2, <3>1 DEF Set
  <2>3. [run[r] EXCEPT !.broken = run[r].broken] = run[r] /\ run[r].broken \in BOOLEAN
    BY <1>1 DEF RunType
  <2> QED
    BY <2>1, <2>2, <2>3 DEF Export, ExportRaises, Send, SendFails
<1>3. UNCHANGED <<rows, lock>> /\ ~At(r, "commit")
  BY DEF Export, ExportRaises, Send, SendFails, At
<1>4. mails' \in [Account -> SUBSET (SUBSET Lot)]
  <2>1. CASE UNCHANGED mails
    BY <2>1 DEF ReportInv, ReportTypeOK
  <2>2. CASE Delivered(r)
    <3>1. mails[run[r].to] \cup {run[r].metrics} \in SUBSET (SUBSET Lot)
      BY <1>1 DEF ReportInv, ReportTypeOK, RunType
    <3> QED
      BY <1>1, <2>2, <3>1 DEF ReportInv, ReportTypeOK, Delivered
  <2> QED
    BY <2>1, <2>2 DEF Export, ExportRaises, Send, SendFails
<1>5. Rest'
  BY <1>4 DEF ReportInv, ReportTypeOK, Export, ExportRaises, Send, SendFails, Faulty, Rest
<1> QED
  BY <1>2, <1>3, <1>5, RunMoves DEF ReportInv, ReportTypeOK, Rest, RunType

LEMMA CrashInv == ReportInv /\ Crash => ReportInv'
<1> SUFFICES ASSUME ReportInv, Crash PROVE ReportInv'
  OBVIOUS
<1>1. \A q \in Runner : run'[q] = Idle
  BY DEF Crash
<1>2. \A l \in Lot : lock'[l] = Free
  BY DEF Crash
<1>3. Rest' /\ rows' = rows
  BY DEF ReportInv, ReportTypeOK, Crash, Faulty, Rest
<1>4. run' \in [Runner -> RunType] /\ lock' \in [Lot -> Runner \cup {Free}]
  BY IdleType DEF Crash
<1>5. \A q \in Runner : RunOK(run[q], rows)'
  BY <1>1, <1>3, IdleType
<1>6. \A q \in Runner : Holds(q)'
  BY <1>1, <1>2, ReportAssumption DEF Holds, At, Idle, NewRun
<1> QED
  BY <1>3, <1>4, <1>5, <1>6 DEF ReportInv, ReportTypeOK, Rest, RunType, OneRowPerLot

LEMMA AdminsInv == ReportInv /\ Admins => ReportInv'
<1> SUFFICES ASSUME ReportInv, Admins PROVE ReportInv'
  OBVIOUS
<1>1. PICK a \in Account, after \in {"pending", "approved", "deleted"} :
        /\ accounts' = [accounts EXCEPT ![a] = after]
        /\ owed' = owed \ {a} /\ changes' = changes + 1
        /\ UNCHANGED <<rows, lock, run, mails, runs, faults>>
  BY DEF Admins, Approve, Revoke, Delete, Change
<1>2. Rest'
  BY <1>1 DEF ReportInv, ReportTypeOK, Rest
<1> QED
  BY <1>1, <1>2 DEF ReportInv, ReportTypeOK, Rest, OneRowPerLot, RunOK, Holds, At, LotOf

LEMMA NextInv == ReportInv /\ [Next]_vars => ReportInv'
<1> SUFFICES ASSUME ReportInv, [Next]_vars PROVE ReportInv'
  OBVIOUS
<1>1. CASE UNCHANGED vars
  BY <1>1 DEF vars, ReportInv, ReportTypeOK, OneRowPerLot, RunOK, Holds, At, LotOf
<1>2. CASE Admins
  BY <1>2, AdminsInv
<1>3. CASE Crash
  BY <1>3, CrashInv
<1>4. ASSUME NEW r \in Runner, Start(r) \/ Step(r) \/ Fault(r)
      PROVE  ReportInv'
  BY <1>4, StartInv, BuildInv, FindInv, WriteInv, CommitInv, AddressInv, MailInv DEF Step, Fault
<1> QED
  BY <1>1, <1>2, <1>3, <1>4 DEF Next

LEMMA AlwaysInv == Spec => []ReportInv
BY InitInv, NextInv, PTL DEF Spec

\* Type correctness of the accounts, rows, locks, runs and mails
\* (report_scheduler._run_weekly_reports, models.WeeklyLotMetric).
THEOREM ReportTypeCorrect == Spec => []ReportTypeOK
BY AlwaysInv, PTL DEF ReportInv

\* record_weekly_metrics may run for the same lot and week at any number of places:
\* there is never a second row, whoever found none.
THEOREM RecordedOncePerLot == Spec => []OneRowPerLot
BY AlwaysInv, PTL DEF ReportInv

-----------------------------------------------------------------------------
LEMMA StepRefines == ReportInv /\ [Next]_vars => [Ledger!Next]_<<rows, mails>>
<1> SUFFICES ASSUME ReportInv, [Next]_vars
             PROVE  Ledger!Next \/ UNCHANGED <<rows, mails>>
  OBVIOUS
<1>1. CASE UNCHANGED <<rows, mails>>
  BY <1>1
<1>2. ASSUME NEW r \in Runner, Commit(r) \/ RefreshRaises(r)
      PROVE  Ledger!Next \/ UNCHANGED <<rows, mails>>
  <2>1. LotOf(r) \in Lot /\ rows \in [Lot -> Nat] /\ UNCHANGED mails
    BY <1>2, RunTypeOK DEF ReportInv, ReportTypeOK, Commit, RefreshRaises, Committed
  <2>2. CASE UNCHANGED rows
    BY <2>1, <2>2
  <2>3. CASE rows' = [rows EXCEPT ![LotOf(r)] = @ + 1]
    <3>1. \A l \in Lot : rows'[l] <= 1
      BY <1>2, CommitInv DEF ReportInv, OneRowPerLot
    <3>2. rows'[LotOf(r)] = rows[LotOf(r)] + 1 /\ rows[LotOf(r)] \in Nat
      BY <2>1, <2>3
    <3>3. rows[LotOf(r)] = 0
      BY <2>1, <3>1, <3>2
    <3>4. rows' = [rows EXCEPT ![LotOf(r)] = 1]
      BY <2>1, <2>3, <3>3
    <3>5. Ledger!Record(LotOf(r))
      BY <2>1, <3>3, <3>4 DEF Ledger!Record
    <3> QED
      BY <2>1, <3>5 DEF Ledger!Next
  <2> QED
    BY <1>2, <2>2, <2>3 DEF Commit, RefreshRaises, Committed
<1>3. ASSUME NEW r \in Runner, At(r, "send"), Delivered(r), UNCHANGED rows
      PROVE  \E a \in Account, lots \in SUBSET Lot : Ledger!Mail(a, lots)
  <2>1. run[r].to \in Account /\ run[r].metrics # {} /\ run[r].metrics \subseteq Lot
    BY <1>3, RunTypeOK DEF ReportInv, RunOK, At, RunType
  <2>2. \A l \in run[r].metrics : rows[l] = 1
    BY <1>3, <2>1 DEF ReportInv, ReportTypeOK, RunOK, OneRowPerLot
  <2>3. Ledger!Mail(run[r].to, run[r].metrics)
    BY <1>3, <2>1, <2>2 DEF Ledger!Mail, Delivered
  <2> QED
    BY <2>1, <2>3
<1>4. CASE Admins \/ Crash
  BY <1>1, <1>4 DEF Admins, Approve, Revoke, Delete, Change, Crash
<1>5. ASSUME NEW r \in Runner, Start(r) \/ Step(r) \/ Fault(r)
      PROVE  Ledger!Next \/ UNCHANGED <<rows, mails>>
  <2>1. CASE Commit(r) \/ RefreshRaises(r)
    BY <1>2, <2>1
  <2>2. CASE Send(r) \/ SendFails(r)
    BY <1>1, <1>3, <2>2 DEF Ledger!Next, Send, SendFails
  <2>3. CASE UNCHANGED <<rows, mails>>
    BY <1>1, <2>3
  <2> QED
    BY <1>5, <2>1, <2>2, <2>3
       DEF Start, Step, Fault, Build, BuildRaises, Find, Write, WriteRaises, Address, Finish, Export, ExportRaises
<1> QED
  BY <1>1, <1>4, <1>5 DEF Next, vars

\* The summary of a lot is committed once, before any mail quotes it, and never taken
\* back, and no mail goes out without a lot, through races, errors and crashes.
THEOREM ReportImplementsLedger == Spec => LedgerSpec
<1>1. Init => Ledger!Init
  BY DEF Init, Ledger!Init
<1> QED
  BY <1>1, AlwaysInv, StepRefines, PTL DEF Spec, LedgerSpec, Ledger!Spec
-----------------------------------------------------------------------------
(***************************************************************************)
(* Every approved admin is mailed.  Of the runs under way one leads: it is *)
(* not broken, and the lots it has not summarised have no row yet.  It     *)
(* cannot lose the race for one of them, unless the other run has become   *)
(* the leader; and once it mails, nothing can break it.                    *)
(***************************************************************************)
Summing(r) == run[r].pc \in {"build", "find", "write", "commit"}
Unmailed == {a \in owed : mails[a] = {}}

Leads(r) ==
  /\ run[r].pc # "idle" /\ ~run[r].broken
  /\ Unmailed \subseteq run[r].todo
  /\ IF Summing(r)
       THEN /\ run[r].at = 1 \/ run[r].metrics # {}
            /\ \A i \in 1..Len(Lots) : i >= run[r].at => rows[Lots[i]] = 0
       ELSE run[r].metrics # {}

\* A run that writes is not broken, and one that has still to mail owes what is owed.
Willing(r) ==
  /\ run[r].pc \in {"find", "write", "commit"} => ~run[r].broken
  /\ Summing(r) => owed \subseteq run[r].todo

LeadInv ==
  Undisturbed =>
    /\ owed \subseteq Approved
    /\ \A r \in Runner : Willing(r)
    /\ runs = 0 => owed = {} /\ (\A l \in Lot : rows[l] = 0) /\ \A r \in Runner : run[r] = Idle
    /\ Unmailed # {} => \E r \in Runner : Leads(r)

LEMMA InitLeads == Init => LeadInv
<1> SUFFICES ASSUME Init PROVE LeadInv
  OBVIOUS
<1>1. owed = {} /\ Unmailed = {} /\ \A l \in Lot : rows[l] = 0
  BY DEF Init, Unmailed
<1>2. \A r \in Runner : run[r] = Idle
  BY DEF Init
<1>3. \A r \in Runner : Willing(r)
  BY <1>2 DEF Willing, Summing, Idle, NewRun
<1> QED
  BY <1>1, <1>2, <1>3 DEF LeadInv

\* Nobody undoes a failure or a deletion.
LEMMA CalmBefore ==
  ASSUME ReportInv, [Next]_vars, Undisturbed'
  PROVE  Undisturbed /\ faults' = faults
<1>1. faults' \in {faults, faults + 1} /\ faults \in Nat
  BY DEF ReportInv, ReportTypeOK, Next, vars, Admins, Approve, Revoke, Delete, Change, Crash, Start,
         Step, Fault, Faulty, Build, BuildRaises, Find, Write, WriteRaises, Commit, RefreshRaises,
         Address, Finish, Export, ExportRaises, Send, SendFails, Committed
<1>2. \A a \in Account : accounts[a] = "deleted" => accounts'[a] = "deleted"
  BY DEF ReportInv, ReportTypeOK, Next, vars, Admins, Approve, Revoke, Delete, Change, Crash, Start,
         Step, Fault, Build, BuildRaises, Find, Write, WriteRaises, Commit, RefreshRaises,
         Address, Finish, Export, ExportRaises, Send, SendFails, Committed
<1> QED
  BY <1>1, <1>2 DEF Undisturbed

\* A request changes an account: whoever leads goes on leading.
LEMMA AdminsLead ==
  ASSUME ReportInv, LeadInv, Admins
  PROVE  LeadInv'
<1> SUFFICES ASSUME Undisturbed' PROVE LeadInv'
  BY DEF LeadInv
<1>1. PICK a \in Account, after \in {"pending", "approved", "deleted"} :
        /\ accounts' = [accounts EXCEPT ![a] = after]
        /\ owed' = owed \ {a}
        /\ UNCHANGED <<rows, lock, run, mails, runs, faults>>
  BY DEF Admins, Approve, Revoke, Delete, Change
<1>2. Undisturbed
  BY CalmBefore DEF Next
<1>3. owed' \subseteq Approved' /\ Unmailed' \subseteq Unmailed
  BY <1>1, <1>2 DEF LeadInv, Approved, Unmailed, ReportInv, ReportTypeOK
<1>4. \A r \in Runner : Willing(r)'
  BY <1>1, <1>2 DEF LeadInv, Willing, Summing
<1>5. \A r \in Runner : Leads(r) => Leads(r)'
  BY <1>1, <1>3 DEF Leads, Summing
<1> QED
  BY <1>1, <1>2, <1>3, <1>4, <1>5 DEF LeadInv

\* The first run leads from its start; a later one leaves the lead where it is.
LEMMA StartLeads ==
  ASSUME ReportInv, LeadInv, NEW r \in Runner, Start(r)
  PROVE  LeadInv'
<1> SUFFICES ASSUME Undisturbed' PROVE LeadInv'
  BY DEF LeadInv
<1>1. Undisturbed
  BY CalmBefore DEF Next
<1>2. /\ run \in [Runner -> RunType] /\ rows' = rows /\ mails' = mails /\ accounts' = accounts
      /\ run' = [run EXCEPT ![r] = NewRun("build", Approved)]
      /\ runs' = runs + 1 /\ runs \in Nat
      /\ owed' = IF runs = 0 THEN Approved ELSE owed
  BY DEF Start, Set, ReportInv, ReportTypeOK, RunType
<1>3. owed' \subseteq Approved /\ Approved' = Approved
  BY <1>1, <1>2 DEF LeadInv, Approved
<1>4. \A q \in Runner : run'[q] = IF q = r THEN NewRun("build", Approved) ELSE run[q]
  BY <1>2
<1>5. ASSUME NEW q \in Runner
      PROVE  Willing(q)'
  <2>1. CASE q = r
    BY <1>3, <1>4, <2>1 DEF Willing, Summing, NewRun
  <2>2. CASE q # r /\ runs = 0
    BY <1>1, <1>4, <2>2 DEF LeadInv, Willing, Summing, Idle, NewRun
  <2>3. CASE q # r /\ runs # 0
    BY <1>1, <1>2, <1>4, <2>3 DEF LeadInv, Willing, Summing
  <2> QED
    BY <2>1, <2>2, <2>3
<1>6. Unmailed' # {} => \E q \in Runner : Leads(q)'
  <2>1. CASE runs = 0
    <3>1. \A i \in 1..Len(Lots) : rows[Lots[i]] = 0
      BY <1>1, <2>1, LotsAreLots DEF LeadInv
    <3>2. Unmailed' \subseteq Approved
      BY <1>3 DEF Unmailed
    <3> QED
      BY <1>2, <1>4, <3>1, <3>2 DEF Leads, Summing, NewRun
  <2>2. CASE runs # 0
    <3>1. Unmailed' = Unmailed
      BY <1>2, <2>2 DEF Unmailed
    <3>2. ASSUME NEW q \in Runner, Leads(q)
          PROVE  Leads(q)'
      <4>1. q # r
        BY <3>2 DEF Leads, Start, At
      <4> QED
        BY <1>2, <1>4, <3>1, <3>2, <4>1 DEF Leads, Summing
    <3> QED
      BY <1>1, <3>1, <3>2 DEF LeadInv
  <2> QED
    BY <2>1, <2>2
<1>7. runs' # 0
  BY <1>2
<1> QED
  BY <1>3, <1>5, <1>6, <1>7 DEF LeadInv

\* What every step of a run leaves alone, and that mails are never taken back.
LEMMA StepKeeps ==
  ASSUME ReportInv, NEW q \in Runner, Step(q)
  PROVE  /\ UNCHANGED <<accounts, owed, runs, faults>>
         /\ Unmailed' \subseteq Unmailed
         /\ run[q] \in RunType /\ run'[q] \in RunType /\ run[q] # Idle
         /\ \A r \in Runner : r # q => run'[r] = run[r]
<1>1. UNCHANGED <<accounts, owed, runs, faults>>
  BY DEF Step, Build, Find, Write, Commit, Committed, Address, Finish, Export, Send
<1>2. ReportInv'
  BY NextInv DEF Next
<1>3. run \in [Runner -> RunType] /\ run' \in [Runner -> RunType]
  BY <1>2 DEF ReportInv, ReportTypeOK, RunType
<1>4. PICK s : run' = [run EXCEPT ![q] = s]
  BY DEF Step, Build, Find, Write, Commit, Address, Finish, Export, Send, Set
<1>5. run[q] # Idle
  <2>1. run[q].pc # "idle"
    BY DEF Step, Build, Find, Write, Commit, Committed, Address, Finish, Export, Send, At
  <2> QED
    BY <2>1 DEF Idle, NewRun
<1>6. Unmailed' \subseteq Unmailed
  <2>1. CASE UNCHANGED mails
    BY <1>1, <2>1 DEF Unmailed
  <2>2. CASE Delivered(q)
    BY <1>1, <2>2 DEF Unmailed, Delivered, ReportInv, ReportTypeOK
  <2> QED
    BY <2>1, <2>2 DEF Step, Build, Find, Write, Commit, Committed, Address, Finish, Export, Send
<1> QED
  BY <1>1, <1>3, <1>4, <1>5, <1>6

\* The loop over the lots keeps what a run owes.
LEMMA NextLotKeeps ==
  ASSUME NEW s \in RunType
  PROVE  /\ NextLot(s).todo = s.todo /\ NextLot(s).broken = s.broken
         /\ \/ s.at < Len(Lots) /\ NextLot(s).pc = "build" /\ NextLot(s).at = s.at + 1
            \/ NextLot(s).pc = "address"
BY DEF NextLot, RunType

LEMMA StepWilling ==
  ASSUME ReportInv, NEW q \in Runner, Step(q), Willing(q)
  PROVE  Willing(q)'
<1>1. run \in [Runner -> RunType] /\ run[q] \in RunType /\ UNCHANGED owed
  BY StepKeeps DEF ReportInv, ReportTypeOK, RunType
<1>2. CASE Build(q)
  BY <1>1, <1>2, NextLotKeeps DEF Build, Set, At, Willing, Summing, RunType
<1>3. CASE Find(q)
  BY <1>1, <1>3 DEF Find, Set, At, Willing, Summing, RunType
<1>4. CASE Write(q)
  <2> DEFINE s == [run[q] EXCEPT !.broken = TRUE, !.fresh = {}]
  <2>1. s \in RunType /\ s.todo = run[q].todo /\ FailedFlush(run[q]) = NextLot(s)
    BY <1>1 DEF RunType, FailedFlush
  <2>2. NextLot(s).todo = run[q].todo /\ NextLot(s).pc \in {"build", "address"}
    BY <2>1, NextLotKeeps
  <2>3. run'[q] = NextLot(s) \/ run'[q] = [run[q] EXCEPT !.pc = "commit"]
    BY <1>1, <1>4, <2>1 DEF Write, Set
  <2> HIDE DEF s
  <2> QED
    BY <1>1, <1>4, <2>2, <2>3 DEF Write, At, Willing, Summing, RunType
<1>5. CASE Commit(q)
  <2> DEFINE s == [run[q] EXCEPT !.fresh = {}, !.metrics = @ \cup {LotOf(q)}]
  <2>1. s \in RunType /\ s.todo = run[q].todo
    BY <1>1, RunTypeOK DEF RunType, ReportInv
  <2>2. run'[q] = NextLot(s)
    BY <1>1, <1>5 DEF Commit, Set
  <2> HIDE DEF s
  <2> QED
    BY <1>1, <1>5, <2>1, <2>2, NextLotKeeps DEF Commit, Committed, At, Willing, Summing
<1>6. CASE Address(q) \/ Finish(q) \/ Export(q) \/ Send(q)
  <2>1. PICK s : run' = [run EXCEPT ![q] = s] /\ s.pc \in {"idle", "address", "export", "send"}
    <3>1. Idle.pc = "idle"
      BY DEF Idle, NewRun
    <3>2. \A s \in RunType : \A a : Done(s, a).pc = "address"
      BY DEF Done, RunType
    <3>3. CASE Address(q)
      <4>1. PICK a \in run[q].todo :
              Set(q, IF EmailRaises(q, a) THEN Idle
                     ELSE IF run[q].metrics = {} THEN Done([run[q] EXCEPT !.fresh = @ \cup {a}], a)
                     ELSE [run[q] EXCEPT !.pc = "export", !.to = a, !.fresh = @ \cup {a}])
        BY <3>3 DEF Address
      <4>2. [run[q] EXCEPT !.fresh = @ \cup {a}] \in RunType
        BY <1>1 DEF RunType
      <4>3. [run[q] EXCEPT !.pc = "export", !.to = a, !.fresh = @ \cup {a}].pc = "export"
        BY <1>1 DEF RunType
      <4> QED
        BY <3>1, <3>2, <4>1, <4>2, <4>3 DEF Set
    <3>4. CASE Finish(q)
      BY <3>1, <3>4 DEF Finish, Set
    <3>5. CASE Export(q)
      <4>1. [run[q] EXCEPT !.pc = "send"].pc = "send"
        BY <1>1 DEF RunType
      <4> QED
        BY <1>1, <3>2, <3>5, <4>1 DEF Export, Set
    <3>6. CASE Send(q)
      BY <1>1, <3>2, <3>6 DEF Send, Set
    <3> QED
      BY <1>6, <3>3, <3>4, <3>5, <3>6
  <2> QED
    BY <1>1, <2>1 DEF Willing, Summing
<1> QED
  BY <1>2, <1>3, <1>4, <1>5, <1>6 DEF Step

\* A leader writes the rows it is about to write, and then mails every admin.
LEMMA LeaderStep ==
  ASSUME ReportInv, NEW q \in Runner, Step(q), Leads(q), Undisturbed, Unmailed' # {}
  PROVE  Leads(q)'
<1>1. /\ run \in [Runner -> RunType] /\ run[q] \in RunType /\ Unmailed' \subseteq Unmailed
      /\ owed \subseteq Account /\ rows \in [Lot -> Nat] /\ LotOf(q) \in Lot
  BY StepKeeps, RunTypeOK DEF ReportInv, ReportTypeOK, RunType
<1>2. CASE Build(q)
  <2>1. run'[q] = [run[q] EXCEPT !.pc = "find"] /\ rows' = rows
    BY <1>1, <1>2 DEF Build, Set, Leads
  <2> QED
    BY <1>1, <1>2, <2>1 DEF Build, At, Leads, Summing, RunType
<1>3. CASE Find(q)
  <2> DEFINE s == [run[q] EXCEPT !.pc = "write", !.missing = rows[LotOf(q)] = 0]
  <2>1. s.pc = "write" /\ s.todo = run[q].todo /\ s.broken = run[q].broken /\ s.at = run[q].at
        /\ s.metrics = run[q].metrics
    BY <1>1 DEF RunType
  <2>2. run'[q] = s /\ rows' = rows /\ At(q, "find")
    BY <1>1, <1>3 DEF Find, Set
  <2> HIDE DEF s
  <2> QED
    BY <1>1, <2>1, <2>2 DEF At, Leads, Summing
<1>4. CASE Write(q)
  <2>1. rows[LotOf(q)] = 0
    BY <1>1, <1>4 DEF Write, At, Leads, Summing, LotOf, RunType
  <2>2. run'[q] = [run[q] EXCEPT !.pc = "commit"] /\ rows' = rows
    BY <1>1, <1>4, <2>1 DEF Write, Set
  <2> QED
    BY <1>1, <1>4, <2>2 DEF Write, At, Leads, Summing, RunType
<1>5. CASE Commit(q)
  <2> DEFINE s == [run[q] EXCEPT !.fresh = {}, !.metrics = @ \cup {LotOf(q)}]
  <2>1. s \in RunType /\ s.todo = run[q].todo /\ s.broken = run[q].broken /\ s.at = run[q].at
        /\ s.metrics # {}
    BY <1>1 DEF RunType
  <2>2. run'[q] = NextLot(s)
    BY <1>1, <1>5 DEF Commit, Set
  <2>3. \A l \in Lot : l # LotOf(q) => rows'[l] = rows[l]
    BY <1>1, <1>5 DEF Commit, Committed
  <2>4. \A i \in 1..Len(Lots) : i >= run[q].at + 1 => rows'[Lots[i]] = 0
    <3>1. ASSUME NEW i \in 1..Len(Lots), i >= run[q].at + 1
          PROVE  rows'[Lots[i]] = 0
      <4>1. run[q].at \in 1..Len(Lots) /\ i # run[q].at /\ Lots[i] \in Lot
        BY <1>1, <3>1, LotsAreLots DEF RunType
      <4>2. Lots[i] # LotOf(q)
        BY <4>1, ReportAssumption DEF LotOf
      <4>3. rows[Lots[i]] = 0
        BY <1>5, <3>1, <4>1 DEF Commit, Committed, At, Leads, Summing
      <4> QED
        BY <2>3, <4>1, <4>2, <4>3
    <3> QED
      BY <3>1
  <2> HIDE DEF s
  <2>5. NextLot(s).metrics # {} /\ NextLot(s).pc \in {"build", "address"}
    BY <2>1, NextLotType
  <2> QED
    BY <1>1, <2>1, <2>2, <2>4, <2>5, NextLotKeeps DEF Leads, Summing
<1>6. CASE Address(q)
  <2>1. PICK a \in run[q].todo :
          Set(q, IF EmailRaises(q, a) THEN Idle
                 ELSE IF run[q].metrics = {} THEN Done([run[q] EXCEPT !.fresh = @ \cup {a}], a)
                 ELSE [run[q] EXCEPT !.pc = "export", !.to = a, !.fresh = @ \cup {a}])
    BY <1>6 DEF Address
  <2>2. ~EmailRaises(q, a) /\ run[q].metrics # {}
    BY <1>1, <1>6 DEF EmailRaises, Leads, Summing, Address, At, Undisturbed, RunType
  <2>3. run'[q] = [run[q] EXCEPT !.pc = "export", !.to = a, !.fresh = @ \cup {a}]
    BY <1>1, <2>1, <2>2 DEF Set
  <2> QED
    BY <1>1, <2>2, <2>3 DEF Leads, Summing, RunType
<1>7. CASE Finish(q)
  BY <1>1, <1>7 DEF Finish, Leads
<1>8. CASE Export(q)
  <2>1. run'[q] = [run[q] EXCEPT !.pc = "send"] /\ At(q, "export")
    BY <1>1, <1>8 DEF Export, Set, Leads
  <2> QED
    BY <1>1, <2>1 DEF At, Leads, Summing, RunType
<1>9. CASE Send(q)
  <2>1. run'[q] = Done(run[q], run[q].to) /\ At(q, "send") /\ run[q].to \in Account
    BY <1>1, <1>9 DEF Send, Set, ReportInv, RunOK, At
  <2>2. run[q].to \notin Unmailed'
    BY <1>1, <1>9, <2>1 DEF Send, Delivered, Unmailed, ReportInv, ReportTypeOK
  <2>3. /\ run'[q].pc = "address" /\ run'[q].todo = run[q].todo \ {run[q].to}
        /\ run'[q].broken = run[q].broken /\ run'[q].metrics = run[q].metrics
    BY <1>1, <2>1 DEF Done, RunType
  <2> QED
    BY <1>1, <2>1, <2>2, <2>3 DEF At, Leads, Summing
<1> QED
  BY <1>2, <1>3, <1>4, <1>5, <1>6, <1>7, <1>8, <1>9 DEF Step

\* When another run commits a row, it takes the lead or leaves it where it is.
LEMMA OtherStep ==
  ASSUME ReportInv, NEW q \in Runner, Step(q), Willing(q), NEW r \in Runner, r # q, Leads(r)
  PROVE  Leads(r)' \/ Leads(q)'
<1>1. /\ run \in [Runner -> RunType] /\ run[q] \in RunType /\ Unmailed' \subseteq Unmailed
      /\ rows \in [Lot -> Nat] /\ LotOf(q) \in Lot /\ run'[r] = run[r] /\ run[r] \in RunType
  BY StepKeeps, RunTypeOK DEF ReportInv, ReportTypeOK, RunType
<1>2. CASE UNCHANGED rows \/ ~Summing(r)
  BY <1>1, <1>2 DEF Leads, Summing
<1>3. CASE ~(UNCHANGED rows) /\ Summing(r)
  <2>1. Commit(q) /\ At(q, "commit")
    BY <1>3 DEF Step, Build, Find, Write, Commit, Committed, Address, Finish, Export, Send
  <2> DEFINE s == [run[q] EXCEPT !.fresh = {}, !.metrics = @ \cup {LotOf(q)}]
  <2>2. s \in RunType /\ s.todo = run[q].todo /\ s.broken = run[q].broken /\ s.at = run[q].at
        /\ s.metrics # {}
    BY <1>1 DEF RunType
  <2>3. run'[q] = NextLot(s)
    BY <1>1, <2>1 DEF Commit, Set
  <2>4. \A l \in Lot : l # LotOf(q) => rows'[l] = rows[l]
    BY <1>1, <2>1 DEF Commit, Committed
  <2>5. \A i \in 1..Len(Lots) : i # run[q].at => rows'[Lots[i]] = rows[Lots[i]]
    BY <1>1, <2>4, LotsAreLots, ReportAssumption DEF LotOf, RunType
  <2>6. \A i \in 1..Len(Lots) : i >= run[r].at => rows[Lots[i]] = 0
    BY <1>3 DEF Leads
  <2>7. run[q].at \in 1..Len(Lots) /\ run[r].at \in 1..Len(Lots)
    BY <1>1 DEF RunType
  <2>8. CASE run[q].at < run[r].at
    <3>1. \A i \in 1..Len(Lots) : i >= run[r].at => rows'[Lots[i]] = 0
      BY <2>5, <2>6, <2>7, <2>8
    <3> QED
      BY <1>1, <3>1 DEF Leads, Summing
  <2>9. CASE run[q].at >= run[r].at
    <3>1. \A i \in 1..Len(Lots) : i >= run[q].at + 1 => rows'[Lots[i]] = 0
      BY <2>5, <2>6, <2>7, <2>9
    <3>2. ~run[q].broken /\ Unmailed \subseteq run[q].todo
      BY <2>1 DEF Willing, At, Summing, Unmailed
    <3>3. NextLot(s).metrics # {} /\ NextLot(s).pc \in {"build", "address"}
      BY <2>2, NextLotType
    <3> HIDE DEF s
    <3> QED
      BY <1>1, <2>2, <2>3, <3>1, <3>2, <3>3, NextLotKeeps DEF Leads, Summing
  <2> QED
    BY <2>7, <2>8, <2>9
<1> QED
  BY <1>2, <1>3

LEMMA StepLeads ==
  ASSUME ReportInv, LeadInv, NEW q \in Runner, Step(q)
  PROVE  LeadInv'
<1> SUFFICES ASSUME Undisturbed' PROVE LeadInv'
  BY DEF LeadInv
<1>1. Undisturbed
  BY CalmBefore DEF Next
<1>2. /\ UNCHANGED <<accounts, owed, runs>> /\ Unmailed' \subseteq Unmailed /\ run[q] # Idle
      /\ \A r \in Runner : r # q => run'[r] = run[r]
  BY StepKeeps
<1>3. runs # 0
  BY <1>1, <1>2 DEF LeadInv
<1>4. \A r \in Runner : Willing(r)'
  BY <1>1, <1>2, StepWilling DEF LeadInv, Willing, Summing
<1>5. ASSUME Unmailed' # {}
      PROVE  \E r \in Runner : Leads(r)'
  <2>1. PICK r \in Runner : Leads(r)
    BY <1>1, <1>2, <1>5 DEF LeadInv
  <2>2. CASE r = q
    BY <1>1, <1>5, <2>1, <2>2, LeaderStep
  <2>3. CASE r # q
    BY <1>1, <2>1, <2>3, OtherStep DEF LeadInv
  <2> QED
    BY <2>2, <2>3
<1>6. owed' \subseteq Approved'
  BY <1>1, <1>2 DEF LeadInv, Approved
<1> QED
  BY <1>2, <1>3, <1>4, <1>5, <1>6 DEF LeadInv

LEMMA NextLeads == ReportInv /\ LeadInv /\ [Next]_vars => LeadInv'
<1> SUFFICES ASSUME ReportInv, LeadInv, [Next]_vars PROVE LeadInv'
  OBVIOUS
<1>1. CASE UNCHANGED vars
  BY <1>1 DEF vars, LeadInv, Undisturbed, Approved, Willing, Summing, Unmailed, Leads
<1>2. CASE Admins
  BY <1>2, AdminsLead
<1>3. ASSUME NEW r \in Runner, Start(r) \/ Step(r)
      PROVE  LeadInv'
  BY <1>3, StartLeads, StepLeads
<1>4. CASE Crash \/ \E r \in Runner : Fault(r)
  <2>1. faults' = faults + 1 /\ faults \in Nat
    BY <1>4 DEF ReportInv, ReportTypeOK, Crash, Fault, Faulty, BuildRaises, WriteRaises, RefreshRaises,
                ExportRaises, SendFails
  <2> QED
    BY <2>1 DEF LeadInv, Undisturbed
<1> QED
  BY <1>1, <1>2, <1>3, <1>4 DEF Next

LEMMA LeadTells == LeadInv => EveryApprovedMailed
<1> SUFFICES ASSUME LeadInv, \A r \in Runner : run[r] = Idle, Undisturbed
             PROVE  \A a \in owed : mails[a] # {}
  BY DEF EveryApprovedMailed
<1>1. \A r \in Runner : ~Leads(r)
  BY DEF Leads, Idle, NewRun
<1> QED
  BY <1>1 DEF LeadInv, Unmailed

\* Overlapping runs break each other's sessions in the race for the rows, but while
\* no call fails and no account is deleted the leader comes through, and whoever
\* was approved when the first run started has a mail when all have ended
\* (report_scheduler._run_weekly_reports).
THEOREM RaceLeavesNobodyOut == Spec => []EveryApprovedMailed
<1>1. Init => ReportInv /\ LeadInv
  BY InitInv, InitLeads
<1>2. ReportInv /\ LeadInv /\ [Next]_vars => (ReportInv /\ LeadInv)'
  BY NextInv, NextLeads
<1> QED
  BY <1>1, <1>2, LeadTells, PTL DEF Spec

=============================================================================
