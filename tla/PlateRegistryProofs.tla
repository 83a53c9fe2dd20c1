------------------------ MODULE PlateRegistryProofs ------------------------
(***************************************************************************)
(* Proofs about the registry, for any numbers, users and threads: one      *)
(* pending request per number, no forbidden status change, and no row      *)
(* without its user.                                                       *)
(***************************************************************************)
EXTENDS PlateRegistry, TLAPS

\* What the handler of actor a relies on from one statement to the next.
TaskOK(a) ==
  /\ task[a].op = "register" => a = Loop
  /\ task[a].op \in {"register", "create"} => task[a].number \in Number /\ task[a].email \in Email
  /\ task[a].op = "register" /\ task[a].pc \in {"user", "adduser", "write"}
       => PendingFor(task[a].number) = {}
  /\ task[a].op = "update" /\ task[a].pc \in {"user", "adduser"} => task[a].email \in Email
  /\ task[a].op = "review" => task[a].pc \notin {"user", "adduser"}
  /\ task[a].op = "review" /\ task[a].pc \in {"clash", "write", "settle"}
       => task[a].target \in {"approved", "rejected"}
  /\ task[a].op = "review" /\ task[a].pc # "remove" => task[a].id \in DOMAIN requests
  /\ task[a].op # "review" /\ task[a].pc = "write" => task[a].email \in users \cup {Unchanged}

RegistryInv ==
  /\ ColumnsTyped
  /\ AtMostOnePending
  /\ OwnersKnown
  /\ \A a \in Actor : TaskOK(a)

-----------------------------------------------------------------------------
LEMMA IdleTask == Idle \in Task /\ Idle.op = "idle" /\ Idle.pc = "start"
BY DEF Idle, Handler, Task, Op, Pc, RequestStatus

\* The tables as every statement leaves them: they grow, and only a
\* registration on the event loop makes a request pending.
TablesKept ==
  /\ requests' \in Seq(Request) /\ plates' \in SUBSET Plate /\ users' \in SUBSET Email
  /\ plateId' \in Nat /\ edits' \in Nat /\ faults' \in Nat /\ copied' \in SUBSET Nat
  /\ disturbed' \in BOOLEAN
  /\ users \subseteq users'
  /\ DOMAIN requests \subseteq DOMAIN requests'

NothingNewPending == \A n \in Number : PendingFor(n)' \subseteq PendingFor(n)

\* Actor a took a step: it is enough to look at its own handler.
LEMMA OwnStep ==
  ASSUME RegistryInv, NEW a \in Actor, TablesKept, AtMostOnePending', OwnersKnown',
         NothingNewPending \/ a = Loop,
         task' \in [Actor -> Task],
         \A b \in Actor : b # a => task'[b] = task[b],
         TaskOK(a)'
  PROVE  RegistryInv'
<1>1. ASSUME NEW b \in Actor, b # a PROVE TaskOK(b)'
  <2>1. TaskOK(b) /\ task'[b] = task[b]
    BY <1>1 DEF RegistryInv
  <2>2. CASE task[b].op = "register"
    <3>1. NothingNewPending
      BY <1>1, <2>1, <2>2 DEF TaskOK
    <3>2. PendingFor(task[b].number)' \subseteq PendingFor(task[b].number)
      BY <2>1, <2>2, <3>1 DEF TaskOK, NothingNewPending, PendingFor
    <3> QED
      BY <2>1, <2>2, <3>2 DEF TaskOK, TablesKept, PendingFor
  <2>3. CASE task[b].op # "register"
    BY <2>1, <2>3 DEF TaskOK, TablesKept
  <2> QED
    BY <2>2, <2>3
<1>2. \A b \in Actor : TaskOK(b)'
  BY <1>1
<1>3. ColumnsTyped'
  BY <1>2 DEF ColumnsTyped, TablesKept, TaskOK
<1> QED
  BY <1>2, <1>3 DEF RegistryInv

\* A statement that reads, or a failure: no table changes.
LEMMA ReadStep ==
  ASSUME RegistryInv, NEW a \in Actor, UNCHANGED tableVars, edits' \in Nat, faults' \in Nat,
         disturbed' \in BOOLEAN,
         task' \in [Actor -> Task],
         \A b \in Actor : b # a => task'[b] = task[b],
         TaskOK(a)'
  PROVE  RegistryInv'
<1>1. TablesKept /\ AtMostOnePending' /\ OwnersKnown'
  BY DEF RegistryInv, ColumnsTyped, TablesKept, AtMostOnePending, OwnersKnown, tableVars
<1>2. NothingNewPending
  BY DEF NothingNewPending, PendingFor, tableVars
<1> QED
  BY <1>1, <1>2, OwnStep

\* What Goto and Finish do to the handlers.
LEMMA GotoFacts ==
  ASSUME ColumnsTyped, NEW a \in Actor, NEW pc \in Pc, Goto(a, pc)
  PROVE  /\ task' \in [Actor -> Task]
         /\ \A b \in Actor : b # a => task'[b] = task[b]
         /\ task'[a].pc = pc
         /\ task'[a].op = task[a].op /\ task'[a].number = task[a].number
         /\ task'[a].email = task[a].email /\ task'[a].id = task[a].id
         /\ task'[a].target = task[a].target
<1>1. task \in [Actor -> Task] /\ task' = [task EXCEPT ![a].pc = pc]
  BY DEF ColumnsTyped, Goto
<1>2. task[a] \in Task
  BY <1>1
<1>3. [task[a] EXCEPT !.pc = pc] \in Task
  BY <1>2 DEF Task
<1> QED
  BY <1>1, <1>2, <1>3 DEF Task

LEMMA FinishFacts ==
  ASSUME ColumnsTyped, NEW a \in Actor, Finish(a)
  PROVE  /\ task' \in [Actor -> Task]
         /\ \A b \in Actor : b # a => task'[b] = task[b]
         /\ task'[a] = Idle /\ TaskOK(a)'
<1>1. task \in [Actor -> Task] /\ task' = [task EXCEPT ![a] = Idle]
  BY DEF ColumnsTyped, Finish
<1>2. task'[a] = Idle
  BY <1>1
<1>3. TaskOK(a)'
  BY <1>2, IdleTask DEF TaskOK
<1> QED
  BY <1>1, <1>2, <1>3, IdleTask

(***************************************************************************)
(* One lemma per group of actions.                                         *)
(***************************************************************************)
LEMMA BeginStep ==
  ASSUME RegistryInv, Requests
  PROVE  RegistryInv'
<1>1. ASSUME NEW a \in Actor, NEW h \in Task, Begin(a, h), edits' \in Nat, h.pc = "start",
             h.op = "register" => a = Loop,
             h.op \in {"register", "create"} => h.number \in Number /\ h.email \in Email,
             h.op = "review" => h.id \in DOMAIN requests
      PROVE  RegistryInv'
  <2>1. task \in [Actor -> Task] /\ task' = [task EXCEPT ![a] = h] /\ UNCHANGED <<tableVars, faults>>
    BY <1>1 DEF Begin, RegistryInv, ColumnsTyped
  <2>2. task'[a] = h /\ task' \in [Actor -> Task] /\ \A b \in Actor : b # a => task'[b] = task[b]
    BY <2>1
  <2>3. TaskOK(a)'
    BY <1>1, <2>1, <2>2 DEF TaskOK, tableVars
  <2>4. faults' \in Nat /\ disturbed' \in BOOLEAN
    BY <1>1, <2>1 DEF Begin, RegistryInv, ColumnsTyped
  <2> QED
    BY <1>1, <2>1, <2>2, <2>3, <2>4, ReadStep
<1>2. edits \in Nat /\ plateId \in Nat /\ requests \in Seq(Request)
  BY DEF RegistryInv, ColumnsTyped
<1>3. ASSUME NEW n \in Number, NEW e \in Sender, BeginRegister(n, e) PROVE RegistryInv'
  <2>1. Handler("register", n, e, 0, "pending") \in Task
    BY RegistryAssumption DEF Handler, Task, Op, Pc, RequestStatus
  <2> QED
    BY <1>1, <1>2, <1>3, <2>1, RegistryAssumption DEF BeginRegister, Handler, Actor
<1>4. ASSUME NEW t \in Thread, NEW r \in DOMAIN requests, NEW s \in RequestStatus, BeginReview(t, r, s)
      PROVE  RegistryInv'
  <2>1. Handler("review", Unchanged, Unchanged, r, s) \in Task
    BY <1>2 DEF Handler, Task, Op, Pc, RequestStatus
  <2> QED
    BY <1>1, <1>2, <1>4, <2>1 DEF BeginReview, Handler, Actor
<1>5. ASSUME NEW t \in Thread, NEW n \in Number, NEW e \in Sender, BeginCreate(t, n, e)
      PROVE  RegistryInv'
  <2>1. Handler("create", n, e, 0, "pending") \in Task
    BY RegistryAssumption DEF Handler, Task, Op, Pc, RequestStatus
  <2>2. edits' \in Nat /\ Begin(t, Handler("create", n, e, 0, "pending")) /\ t \in Actor
    BY <1>2, <1>5 DEF BeginCreate, BeginEdit, Actor
  <2> QED
    BY <1>1, <2>1, <2>2, RegistryAssumption DEF Handler
<1>6. ASSUME NEW i \in 1..plateId, NEW n \in Number \cup {Unchanged}, NEW e \in Email \cup {Unchanged},
             BeginUpdate(i, n, e)
      PROVE  RegistryInv'
  <2>1. Handler("update", n, e, i, "pending") \in Task
    BY <1>2 DEF Handler, Task, Op, Pc, RequestStatus
  <2>2. /\ Handler("update", n, e, i, "pending").op = "update"
        /\ Handler("update", n, e, i, "pending").pc = "start"
    BY DEF Handler
  <2>3. edits' \in Nat /\ Begin(Loop, Handler("update", n, e, i, "pending")) /\ Loop \in Actor
    BY <1>2, <1>6 DEF BeginUpdate, BeginEdit, Actor
  <2> QED
    BY <1>1, <2>1, <2>2, <2>3
<1>7. ASSUME NEW i \in 1..plateId, BeginDelete(i) PROVE RegistryInv'
  <2>1. Handler("delete", Unchanged, Unchanged, i, "pending") \in Task
    BY <1>2 DEF Handler, Task, Op, Pc, RequestStatus
  <2>2. /\ edits' \in Nat /\ Loop \in Actor
        /\ Begin(Loop, Handler("delete", Unchanged, Unchanged, i, "pending"))
    BY <1>2, <1>7 DEF BeginDelete, BeginEdit, Actor
  <2> QED
    BY <1>1, <2>1, <2>2 DEF Handler
<1> QED
  BY <1>3, <1>4, <1>5, <1>6, <1>7 DEF Requests

\* Statements that only read and either end the handler or move it on.
LEMMA ReadGoto ==
  ASSUME RegistryInv, NEW a \in Actor, NEW pc \in Pc, Goto(a, pc), UNCHANGED <<tableVars, edits, faults, disturbed>>,
         task[a].op = "register" /\ pc \in {"user", "adduser", "write"}
           => PendingFor(task[a].number) = {},
         task[a].op = "update" /\ pc \in {"user", "adduser"} => task[a].email \in Email,
         task[a].op = "review" => pc \notin {"user", "adduser", "remove"} /\ task[a].pc # "remove",
         task[a].op = "review" /\ pc \in {"clash", "write", "settle"}
           => task[a].target \in {"approved", "rejected"},
         task[a].op # "review" /\ pc = "write" => task[a].email \in users \cup {Unchanged}
  PROVE  RegistryInv'
<1>1. /\ task' \in [Actor -> Task]
      /\ \A b \in Actor : b # a => task'[b] = task[b]
      /\ task'[a].pc = pc
      /\ task'[a].op = task[a].op /\ task'[a].number = task[a].number
      /\ task'[a].email = task[a].email /\ task'[a].id = task[a].id
      /\ task'[a].target = task[a].target
  BY GotoFacts DEF RegistryInv
<1>2. TaskOK(a)
  BY DEF RegistryInv
<1>3. UNCHANGED <<requests, users>>
  BY DEF tableVars
<1>4. TaskOK(a)'
  <2>1. task[a].op = "register" /\ pc \in {"user", "adduser", "write"}
          => PendingFor(task[a].number)' = {}
    BY <1>1, <1>3 DEF PendingFor
  <2> QED
    BY <1>1, <1>2, <1>3, <2>1 DEF TaskOK
<1>5. edits' \in Nat /\ faults' \in Nat /\ disturbed' \in BOOLEAN
  BY DEF RegistryInv, ColumnsTyped
<1> QED
  BY <1>1, <1>4, <1>5, ReadStep

LEMMA ReadFinish ==
  ASSUME RegistryInv, NEW a \in Actor, Finish(a), UNCHANGED <<tableVars, edits, disturbed>>, faults' \in Nat
  PROVE  RegistryInv'
<1>1. /\ task' \in [Actor -> Task]
      /\ \A b \in Actor : b # a => task'[b] = task[b]
      /\ TaskOK(a)'
  BY FinishFacts DEF RegistryInv
<1>2. edits' \in Nat /\ disturbed' \in BOOLEAN
  BY DEF RegistryInv, ColumnsTyped
<1> QED
  BY <1>1, <1>2, ReadStep

LEMMA ReadingStep ==
  ASSUME RegistryInv, NEW a \in Actor,
         \/ CheckRegistered(a) \/ CheckPending(a) \/ LoadRequest(a) \/ CheckClash(a)
         \/ FindUser(a) \/ CheckNumber(a) \/ CheckUpdateClash(a) \/ FindForDelete(a)
  PROVE  RegistryInv'
<1> USE DEF RegistryInv, At, Pc
<1>1. TaskOK(a) /\ faults \in Nat /\ task[a] \in Task
  BY DEF ColumnsTyped
<1>2. CASE CheckRegistered(a)
  BY <1>1, <1>2, ReadGoto, ReadFinish DEF CheckRegistered
<1>3. CASE CheckPending(a)
  BY <1>1, <1>3, ReadGoto, ReadFinish DEF CheckPending
<1>4. CASE LoadRequest(a)
  <2>1. <<requests[task[a].id].status, task[a].target>> \in AllowedTransitions
          => task[a].target \in {"approved", "rejected"}
    BY DEF AllowedTransitions
  <2> QED
    BY <1>1, <1>4, <2>1, ReadGoto, ReadFinish DEF LoadRequest
<1>5. CASE CheckClash(a)
  BY <1>1, <1>5, ReadGoto, ReadFinish DEF CheckClash, TaskOK
<1>6. CASE FindUser(a)
  <2>1. task[a].op # "review" /\ (task[a].op = "update" => task[a].email \in Email)
    BY <1>1, <1>6 DEF FindUser, TaskOK
  <2>2. task[a].op = "register" => PendingFor(task[a].number) = {}
    BY <1>1, <1>6 DEF FindUser, TaskOK
  <2> QED
    BY <1>1, <1>6, <2>1, <2>2, ReadGoto DEF FindUser
<1>7. CASE CheckNumber(a)
  BY <1>1, <1>7, ReadGoto, ReadFinish DEF CheckNumber
<1>8. CASE CheckUpdateClash(a)
  <2>1. task[a].op = "update" /\ task[a].email \in Email \cup {Unchanged}
    BY <1>1, <1>8 DEF CheckUpdateClash, Task
  <2>2. CASE Finish(a)
    BY <1>1, <1>8, <2>2, ReadFinish DEF CheckUpdateClash
  <2>3. CASE task[a].email = Unchanged /\ Goto(a, "write")
    BY <1>1, <1>8, <2>1, <2>3, ReadGoto DEF CheckUpdateClash
  <2>4. CASE task[a].email # Unchanged /\ Goto(a, "user")
    BY <1>1, <1>8, <2>1, <2>4, ReadGoto DEF CheckUpdateClash
  <2> QED
    BY <1>8, <2>2, <2>3, <2>4 DEF CheckUpdateClash
<1>9. CASE FindForDelete(a)
  BY <1>1, <1>9, ReadGoto, ReadFinish DEF FindForDelete
<1> QED
  BY <1>2, <1>3, <1>4, <1>5, <1>6, <1>7, <1>8, <1>9

LEMMA InsertRequestStep ==
  ASSUME RegistryInv, NEW a \in Actor, InsertRequest(a)
  PROVE  RegistryInv'
<1> USE DEF RegistryInv
<1>1. TaskOK(a) /\ ColumnsTyped
  OBVIOUS
<1>2. /\ At(a, "register", "write") /\ Finish(a)
      /\ requests' = Append(requests, [number |-> task[a].number, email |-> task[a].email,
                                       status |-> "pending"])
      /\ UNCHANGED <<plates, users, plateId, edits, faults, copied, disturbed>>
  BY DEF InsertRequest
<1>3. /\ a = Loop /\ task[a].number \in Number /\ task[a].email \in Email
      /\ PendingFor(task[a].number) = {} /\ task[a].email \in users
  BY <1>1, <1>2, RegistryAssumption DEF TaskOK, At
<1>4. requests \in Seq(Request) /\ Len(requests) \in Nat
  BY <1>1 DEF ColumnsTyped
<1>5. [number |-> task[a].number, email |-> task[a].email, status |-> "pending"] \in Request
  BY <1>3 DEF Request, RequestStatus
<1>6. /\ requests' \in Seq(Request)
      /\ DOMAIN requests' = DOMAIN requests \cup {Len(requests) + 1}
      /\ \A r \in DOMAIN requests : requests'[r] = requests[r]
      /\ requests'[Len(requests) + 1].number = task[a].number
      /\ requests'[Len(requests) + 1].email = task[a].email
      /\ requests'[Len(requests) + 1].status = "pending"
      /\ Len(requests) + 1 \notin DOMAIN requests
  BY <1>2, <1>4, <1>5
<1>7. TablesKept
  BY <1>1, <1>2, <1>6 DEF TablesKept, ColumnsTyped
<1>8. \A r \in DOMAIN requests : requests[r].status = "pending" => requests[r].number # task[a].number
  BY <1>3 DEF PendingFor
<1>9. AtMostOnePending'
  <2> SUFFICES ASSUME NEW r \in DOMAIN requests', NEW s \in DOMAIN requests',
                      requests'[r].number = requests'[s].number,
                      requests'[r].status = "pending", requests'[s].status = "pending"
               PROVE  r = s
    BY DEF AtMostOnePending
  <2>1. CASE r \in DOMAIN requests /\ s \in DOMAIN requests
    BY <1>6, <2>1 DEF AtMostOnePending
  <2>2. CASE r = Len(requests) + 1 \/ s = Len(requests) + 1
    BY <1>6, <1>8, <2>2
  <2> QED
    BY <1>6, <2>1, <2>2
<1>10. OwnersKnown'
  BY <1>2, <1>3, <1>6 DEF OwnersKnown
<1>11. /\ task' \in [Actor -> Task]
       /\ \A b \in Actor : b # a => task'[b] = task[b]
       /\ TaskOK(a)'
  BY <1>2, FinishFacts
<1> QED
  BY <1>3, <1>7, <1>9, <1>10, <1>11, OwnStep

LEMMA WriteStatusStep ==
  ASSUME RegistryInv, NEW a \in Actor, WriteStatus(a)
  PROVE  /\ RegistryInv'
         /\ task[a].id \in DOMAIN requests /\ task[a].target \in {"approved", "rejected"}
<1> USE DEF RegistryInv
<1>1. TaskOK(a) /\ ColumnsTyped
  OBVIOUS
<1>2. /\ At(a, "review", "write") /\ Goto(a, "settle")
      /\ requests' = [requests EXCEPT ![task[a].id].status = task[a].target]
      /\ copied' = copied \ {task[a].id}
      /\ UNCHANGED <<plates, users, plateId, edits, faults, disturbed>>
  BY DEF WriteStatus
<1>3. task[a].id \in DOMAIN requests /\ task[a].target \in {"approved", "rejected"}
  BY <1>1, <1>2 DEF TaskOK, At
<1>4. requests \in Seq(Request) /\ requests[task[a].id] \in Request
  BY <1>1, <1>3 DEF ColumnsTyped
<1>5. [requests[task[a].id] EXCEPT !.status = task[a].target] \in Request
  BY <1>3, <1>4 DEF Request, RequestStatus
<1>6. requests' = [requests EXCEPT ![task[a].id] = [requests[task[a].id] EXCEPT !.status = task[a].target]]
  BY <1>2, <1>3, <1>4
<1>7. /\ requests' \in Seq(Request)
      /\ DOMAIN requests' = DOMAIN requests
      /\ \A r \in DOMAIN requests : r # task[a].id => requests'[r] = requests[r]
      /\ requests'[task[a].id].number = requests[task[a].id].number
      /\ requests'[task[a].id].email = requests[task[a].id].email
      /\ requests'[task[a].id].status = task[a].target
  BY <1>3, <1>4, <1>5, <1>6 DEF Request
<1>8. TablesKept
  BY <1>1, <1>2, <1>7 DEF TablesKept, ColumnsTyped
<1>9. \A r \in DOMAIN requests : /\ requests'[r].number = requests[r].number
                                 /\ requests'[r].email = requests[r].email
                                 /\ requests'[r].status = "pending" => requests[r].status = "pending"
  BY <1>3, <1>7
<1>10. AtMostOnePending' /\ OwnersKnown'
  BY <1>2, <1>7, <1>9 DEF AtMostOnePending, OwnersKnown
<1>11. NothingNewPending
  BY <1>7, <1>9 DEF NothingNewPending, PendingFor
<1>12. /\ task' \in [Actor -> Task]
       /\ \A b \in Actor : b # a => task'[b] = task[b]
       /\ task'[a].pc = "settle" /\ task'[a].op = "review"
       /\ task'[a].id = task[a].id /\ task'[a].target = task[a].target
  BY <1>1, <1>2, GotoFacts DEF Pc, At
<1>13. TaskOK(a)'
  BY <1>3, <1>7, <1>12 DEF TaskOK
<1> QED
  BY <1>3, <1>8, <1>10, <1>11, <1>12, <1>13, OwnStep

\* Handlers that write no request.
LEMMA PlateWriteStep ==
  ASSUME RegistryInv, NEW a \in Actor, plates' \in SUBSET Plate, users' \in SUBSET Email,
         plateId' \in Nat, copied' \in SUBSET Nat, users \subseteq users',
         \A p \in plates' : p.email \in users',
         UNCHANGED <<requests, edits, faults, disturbed>>,
         task' \in [Actor -> Task],
         \A b \in Actor : b # a => task'[b] = task[b],
         TaskOK(a)'
  PROVE  RegistryInv'
<1>1. TablesKept
  BY DEF RegistryInv, ColumnsTyped, TablesKept
<1>2. AtMostOnePending' /\ OwnersKnown'
  BY DEF RegistryInv, AtMostOnePending, OwnersKnown
<1>3. NothingNewPending
  BY DEF NothingNewPending, PendingFor
<1> QED
  BY <1>1, <1>2, <1>3, OwnStep

LEMMA InsertPlateStep ==
  ASSUME RegistryInv, NEW a \in Actor, NEW n \in Number, NEW e \in users, NEW source \in Nat,
         InsertPlate(a, n, e, source)
  PROVE  RegistryInv'
<1> USE DEF RegistryInv
<1>1. /\ users \subseteq Email /\ plates \in SUBSET Plate /\ plateId \in Nat /\ copied \in SUBSET Nat
  BY DEF ColumnsTyped
<1>2. NewPlate(n, e, source) \in Plate /\ NewPlate(n, e, source).email = e
  BY <1>1 DEF NewPlate, Plate
<1>3. /\ plateId' \in {plateId, plateId + 1} /\ Finish(a) /\ UNCHANGED <<requests, users, edits, faults, disturbed>>
      /\ \/ plates' = plates \cup {NewPlate(n, e, source)} /\ copied' = copied \cup {source}
         \/ UNCHANGED <<plates, copied>>
  BY DEF InsertPlate
<1>4. plates' \in SUBSET Plate /\ copied' \in SUBSET Nat /\ plateId' \in Nat
  <2>1. plates' \subseteq plates \cup {NewPlate(n, e, source)} /\ copied' \subseteq copied \cup {source}
    BY <1>3
  <2>2. plates' \subseteq Plate
    BY <1>1, <1>2, <2>1
  <2>3. copied' \subseteq Nat
    BY <1>1, <2>1
  <2> QED
    BY <1>1, <1>3, <2>2, <2>3
<1>5. \A p \in plates' : p.email \in users'
  BY <1>2, <1>3 DEF OwnersKnown
<1>6. /\ task' \in [Actor -> Task]
      /\ \A b \in Actor : b # a => task'[b] = task[b]
      /\ TaskOK(a)'
  BY <1>3, FinishFacts
<1> QED
  BY <1>1, <1>3, <1>4, <1>5, <1>6, PlateWriteStep

LEMMA PlateInsertions ==
  ASSUME RegistryInv, NEW a \in Actor, AddPlate(a) \/ CreatePlate(a)
  PROVE  RegistryInv'
<1> USE DEF RegistryInv
<1>1. TaskOK(a)
  OBVIOUS
<1>2. CASE AddPlate(a)
  <2>1. task[a].id \in DOMAIN requests
    BY <1>1, <1>2 DEF AddPlate, At, TaskOK
  <2>2. requests[task[a].id] \in Request /\ task[a].id \in Nat
    BY <2>1 DEF ColumnsTyped
  <2>3. requests[task[a].id].number \in Number /\ requests[task[a].id].email \in users
    BY <2>1, <2>2 DEF Request, OwnersKnown
  <2> QED
    BY <1>2, <2>2, <2>3, InsertPlateStep DEF AddPlate
<1>3. CASE CreatePlate(a)
  <2>1. task[a].number \in Number /\ task[a].email \in users
    BY <1>1, <1>3, RegistryAssumption DEF CreatePlate, At, TaskOK
  <2> QED
    BY <1>3, <2>1, InsertPlateStep DEF CreatePlate
<1> QED
  BY <1>2, <1>3

LEMMA RemovalStep ==
  ASSUME RegistryInv, NEW a \in Actor, FindPlate(a) \/ RemovePlate(a)
  PROVE  RegistryInv'
<1> USE DEF RegistryInv
<1>1. CASE FindPlate(a)
  <2>1. task[a].op = "review" /\ UNCHANGED <<tableVars, edits, faults, disturbed>>
    BY <1>1 DEF FindPlate, At
  <2>2. CASE Finish(a)
    <3>1. faults' \in Nat
      BY <2>1 DEF ColumnsTyped
    <3> QED
      BY <2>1, <2>2, <3>1, ReadFinish
  <2>3. CASE ~Finish(a)
    <3>1. PICK p \in plates : task' = [task EXCEPT ![a].id = p.id, ![a].pc = "remove"]
      BY <1>1, <2>3 DEF FindPlate, PlatesNumbered
    <3>2. p.id \in Nat /\ task \in [Actor -> Task] /\ task[a] \in Task
      BY DEF ColumnsTyped, Plate
    <3>3. [task[a] EXCEPT !.id = p.id, !.pc = "remove"] \in Task
      BY <3>2 DEF Task, Pc
    <3>4. task' = [task EXCEPT ![a] = [task[a] EXCEPT !.id = p.id, !.pc = "remove"]]
      BY <3>1, <3>2
    <3>5. /\ task' \in [Actor -> Task]
          /\ \A b \in Actor : b # a => task'[b] = task[b]
          /\ task'[a].op = "review" /\ task'[a].pc = "remove"
      BY <2>1, <3>2, <3>3, <3>4 DEF Task
    <3>6. TaskOK(a)'
      BY <3>5 DEF TaskOK
    <3>7. edits' \in Nat /\ faults' \in Nat /\ disturbed' \in BOOLEAN
      BY <2>1 DEF ColumnsTyped
    <3> QED
      BY <2>1, <3>5, <3>6, <3>7, ReadStep
  <2> QED
    BY <2>2, <2>3
<1>2. CASE RemovePlate(a)
  <2>1. /\ plates' \subseteq plates /\ Finish(a)
        /\ UNCHANGED <<requests, users, plateId, edits, faults, copied, disturbed>>
    BY <1>2 DEF RemovePlate
  <2>2. /\ plates' \in SUBSET Plate /\ users' \in SUBSET Email /\ plateId' \in Nat
        /\ copied' \in SUBSET Nat /\ \A p \in plates' : p.email \in users'
    BY <2>1 DEF ColumnsTyped, OwnersKnown
  <2>3. /\ task' \in [Actor -> Task]
        /\ \A b \in Actor : b # a => task'[b] = task[b]
        /\ TaskOK(a)'
    BY <2>1, FinishFacts
  <2> QED
    BY <2>1, <2>2, <2>3, PlateWriteStep
<1> QED
  BY <1>1, <1>2

LEMMA AddUserStep ==
  ASSUME RegistryInv, NEW a \in Actor, AddUser(a)
  PROVE  RegistryInv'
<1> USE DEF RegistryInv
<1>1. TaskOK(a) /\ ColumnsTyped
  OBVIOUS
<1>2. /\ task[a].op \in {"register", "create"} /\ task[a].pc = "adduser"
      /\ users' = users \cup {task[a].email}
      /\ UNCHANGED <<requests, plates, plateId, edits, faults, copied, disturbed>>
      /\ Finish(a) \/ Goto(a, "write")
  BY DEF AddUser
<1>3. task[a].email \in Email /\ task[a].number \in Number
  BY <1>1, <1>2 DEF TaskOK
<1>4. /\ plates' \in SUBSET Plate /\ users' \in SUBSET Email /\ plateId' \in Nat
      /\ copied' \in SUBSET Nat /\ users \subseteq users'
      /\ \A p \in plates' : p.email \in users'
  BY <1>2, <1>3 DEF ColumnsTyped, OwnersKnown
<1>5. CASE Finish(a)
  <2>1. /\ task' \in [Actor -> Task]
        /\ \A b \in Actor : b # a => task'[b] = task[b]
        /\ TaskOK(a)'
    BY <1>5, FinishFacts
  <2> QED
    BY <1>2, <1>4, <2>1, PlateWriteStep
<1>6. CASE Goto(a, "write")
  <2>1. /\ task' \in [Actor -> Task]
        /\ \A b \in Actor : b # a => task'[b] = task[b]
        /\ task'[a].pc = "write" /\ task'[a].op = task[a].op
        /\ task'[a].number = task[a].number /\ task'[a].email = task[a].email
    BY <1>1, <1>6, GotoFacts DEF Pc
  <2>2. task[a].op = "register" => PendingFor(task[a].number)' = {}
    <3>1. task[a].op = "register" => PendingFor(task[a].number) = {}
      BY <1>1, <1>2 DEF TaskOK
    <3> QED
      BY <1>2, <2>1, <3>1 DEF PendingFor
  <2>3. TaskOK(a)'
    BY <1>1, <1>2, <1>3, <2>1, <2>2 DEF TaskOK
  <2> QED
    BY <1>2, <1>4, <2>1, <2>3, PlateWriteStep
<1> QED
  BY <1>2, <1>5, <1>6

\* A plate keeps its type when its number or owner is edited.
LEMMA EditedPlate ==
  ASSUME NEW p \in Plate, NEW n \in Number \cup {Unchanged}, NEW e \in Email \cup {Unchanged}
  PROVE  /\ Renumbered(p, n) \in Plate /\ Renumbered(p, n).email = p.email
         /\ Reassigned(Renumbered(p, n), e) \in Plate
         /\ Reassigned(Renumbered(p, n), e).email \in {p.email, e} \cap Email
         /\ e = Unchanged => Reassigned(Renumbered(p, n), e).email = p.email
<1>1. Renumbered(p, n) \in Plate /\ Renumbered(p, n).email = p.email
  BY DEF Renumbered, Plate
<1> DEFINE q == Renumbered(p, n)
<1>2. q \in Plate => /\ Reassigned(q, e) \in Plate /\ Reassigned(q, e).email \in {q.email, e}
                     /\ Reassigned(q, e).email \in Email
                     /\ e = Unchanged => Reassigned(q, e).email = q.email
  <2> HIDE DEF q
  <2> QED
    BY DEF Reassigned, Plate
<1> QED
  BY <1>1, <1>2

LEMMA AddUserAndNumberStep ==
  ASSUME RegistryInv, NEW a \in Actor, AddUserAndNumber(a)
  PROVE  RegistryInv'
<1> USE DEF RegistryInv
<1>1. TaskOK(a) /\ ColumnsTyped /\ task[a] \in Task /\ faults \in Nat
  BY DEF ColumnsTyped
<1>2. /\ task[a].op = "update" /\ task[a].pc = "adduser"
      /\ UNCHANGED <<requests, plateId, edits, faults, copied, disturbed>>
      /\ \/ Finish(a) /\ UNCHANGED <<plates, users>>
         \/ /\ users' = users \cup {task[a].email}
            /\ plates' = {IF p.id = task[a].id THEN Renumbered(p, task[a].number) ELSE p : p \in plates}
            /\ Goto(a, "write")
  BY DEF AddUserAndNumber, At
<1>3. task[a].email \in Email /\ task[a].number \in Number \cup {Unchanged}
  BY <1>1, <1>2 DEF TaskOK, Task
<1>4. CASE Finish(a) /\ UNCHANGED <<plates, users>>
  BY <1>1, <1>2, <1>4, ReadFinish DEF tableVars
<1>5. CASE /\ users' = users \cup {task[a].email}
           /\ plates' = {IF p.id = task[a].id THEN Renumbered(p, task[a].number) ELSE p : p \in plates}
           /\ Goto(a, "write")
  <2>1. plates \subseteq Plate /\ \A p \in plates : p.email \in users
    BY <1>1 DEF ColumnsTyped, OwnersKnown
  <2>2. \A q \in plates' : q \in Plate /\ q.email \in users
    <3> SUFFICES ASSUME NEW q \in plates' PROVE q \in Plate /\ q.email \in users
      OBVIOUS
    <3>1. PICK p \in plates : q = IF p.id = task[a].id THEN Renumbered(p, task[a].number) ELSE p
      BY <1>5
    <3>2. p \in Plate /\ p.email \in users
      BY <2>1
    <3> QED
      BY <1>3, <3>1, <3>2, EditedPlate
  <2>3. /\ plates' \in SUBSET Plate /\ users' \in SUBSET Email /\ plateId' \in Nat
        /\ copied' \in SUBSET Nat /\ users \subseteq users'
        /\ \A p \in plates' : p.email \in users'
    BY <1>2, <1>3, <1>5, <2>2 DEF ColumnsTyped
  <2>4. /\ task' \in [Actor -> Task]
        /\ \A b \in Actor : b # a => task'[b] = task[b]
        /\ task'[a].pc = "write" /\ task'[a].op = "update" /\ task'[a].email = task[a].email
    BY <1>1, <1>2, <1>5, GotoFacts DEF Pc
  <2>5. TaskOK(a)'
    BY <1>5, <2>4 DEF TaskOK
  <2> QED
    BY <1>2, <2>3, <2>4, <2>5, PlateWriteStep
<1> QED
  BY <1>2, <1>4, <1>5

LEMMA UpdatePlateStep ==
  ASSUME RegistryInv, NEW a \in Actor, UpdatePlate(a)
  PROVE  RegistryInv'
<1> USE DEF RegistryInv
<1>1. TaskOK(a) /\ ColumnsTyped /\ task[a] \in Task
  BY DEF ColumnsTyped
<1>2. /\ task[a].op = "update" /\ task[a].pc = "write" /\ Finish(a)
      /\ UNCHANGED <<requests, users, plateId, edits, faults, copied, disturbed>>
      /\ \/ plates' = plates
         \/ plates' = {IF p.id = task[a].id
                         THEN Reassigned(Renumbered(p, task[a].number), task[a].email) ELSE p :
                         p \in plates}
  BY DEF UpdatePlate, At
<1>3. /\ task[a].email \in Email \cup {Unchanged} /\ task[a].number \in Number \cup {Unchanged}
      /\ task[a].email \in users \cup {Unchanged}
  BY <1>1, <1>2 DEF TaskOK, Task
<1>4. plates \subseteq Plate /\ \A p \in plates : p.email \in users
  BY <1>1 DEF ColumnsTyped, OwnersKnown
<1>5. \A q \in plates' : q \in Plate /\ q.email \in users
  <2> SUFFICES ASSUME NEW q \in plates', q \notin plates PROVE q \in Plate /\ q.email \in users
    BY <1>4
  <2>1. PICK p \in plates : q = Reassigned(Renumbered(p, task[a].number), task[a].email)
    BY <1>2
  <2>2. p \in Plate /\ p.email \in users
    BY <1>4
  <2> QED
    BY <1>3, <2>1, <2>2, EditedPlate
<1>6. /\ plates' \in SUBSET Plate /\ users' \in SUBSET Email /\ plateId' \in Nat
      /\ copied' \in SUBSET Nat /\ users \subseteq users'
      /\ \A p \in plates' : p.email \in users'
  BY <1>2, <1>5 DEF ColumnsTyped
<1>7. /\ task' \in [Actor -> Task]
      /\ \A b \in Actor : b # a => task'[b] = task[b]
      /\ TaskOK(a)'
  BY <1>2, FinishFacts
<1> QED
  BY <1>2, <1>6, <1>7, PlateWriteStep

LEMMA FindForUpdateStep ==
  ASSUME RegistryInv, NEW a \in Actor, FindForUpdate(a)
  PROVE  RegistryInv'
<1> USE DEF RegistryInv
<1>1. TaskOK(a) /\ ColumnsTyped /\ task[a] \in Task /\ task \in [Actor -> Task] /\ faults \in Nat
  BY DEF ColumnsTyped
<1>2. task[a].op = "update" /\ task[a].pc = "start" /\ UNCHANGED <<tableVars, edits, faults, disturbed>>
  BY DEF FindForUpdate, At
<1>3. CASE Finish(a)
  BY <1>1, <1>2, <1>3, ReadFinish
<1>4. CASE Goto(a, "clash")
  BY <1>1, <1>2, <1>4, ReadGoto DEF Pc
<1>5. CASE task' = [task EXCEPT ![a].number = Unchanged,
                                ![a].pc = IF task[a].email = Unchanged THEN "write" ELSE "user"]
  <2> DEFINE pc == IF task[a].email = Unchanged THEN "write" ELSE "user"
             t == [task[a] EXCEPT !.number = Unchanged, !.pc = pc]
  <2>1. pc \in Pc
    BY DEF Pc
  <2>2. t \in Task /\ t.op = "update" /\ t.pc = pc /\ t.email = task[a].email
    BY <1>1, <1>2, <2>1 DEF Task
  <2>3. task' = [task EXCEPT ![a] = t]
    BY <1>1, <1>5
  <2>4. /\ task' \in [Actor -> Task] /\ task'[a] = t
        /\ \A b \in Actor : b # a => task'[b] = task[b]
    <3> HIDE DEF t
    <3> QED
      BY <1>1, <2>2, <2>3
  <2>5. task[a].email \in Email \cup {Unchanged}
    BY <1>1 DEF Task
  <2>6. TaskOK(a)'
    <3> HIDE DEF t
    <3> QED
      BY <2>2, <2>4, <2>5 DEF TaskOK
  <2>7. edits' \in Nat /\ faults' \in Nat /\ disturbed' \in BOOLEAN
    BY <1>1, <1>2 DEF ColumnsTyped
  <2> QED
    BY <1>2, <2>4, <2>6, <2>7, ReadStep
<1> QED
  BY <1>3, <1>4, <1>5 DEF FindForUpdate

LEMMA FailureStep ==
  ASSUME RegistryInv, Crash \/ \E a \in Actor : HandlerFails(a)
  PROVE  RegistryInv'
<1> USE DEF RegistryInv
<1>1. ASSUME NEW a \in Actor, HandlerFails(a) PROVE RegistryInv'
  <2>1. faults' \in Nat /\ UNCHANGED <<tableVars, edits, disturbed>> /\ Finish(a)
    BY <1>1 DEF HandlerFails, ColumnsTyped
  <2> QED
    BY <2>1, ReadFinish
<1>2. CASE Crash
  <2>1. /\ task' = [a \in Actor |-> Idle] /\ faults' \in Nat /\ UNCHANGED <<tableVars, edits, disturbed>>
    BY <1>2 DEF Crash, ColumnsTyped
  <2>2. \A a \in Actor : TaskOK(a)'
    BY <2>1, IdleTask DEF TaskOK
  <2>3. ColumnsTyped'
    BY <2>1, IdleTask DEF ColumnsTyped, tableVars
  <2>4. AtMostOnePending' /\ OwnersKnown'
    BY <2>1 DEF AtMostOnePending, OwnersKnown, tableVars
  <2> QED
    BY <2>2, <2>3, <2>4
<1> QED
  BY <1>1, <1>2

-----------------------------------------------------------------------------
LEMMA RegistryInvStep == RegistryInv /\ [Next]_vars => RegistryInv'
<1> SUFFICES ASSUME RegistryInv, [Next]_vars PROVE RegistryInv'
  OBVIOUS
<1>1. CASE Requests
  BY <1>1, BeginStep
<1>2. ASSUME NEW a \in Actor, Handle(a) PROVE RegistryInv'
  BY <1>2, ReadingStep, InsertRequestStep, WriteStatusStep, PlateInsertions, RemovalStep,
     AddUserStep, AddUserAndNumberStep, UpdatePlateStep, FindForUpdateStep
     DEF Handle, Register, Review, Users, Direct
<1>3. CASE Crash \/ \E a \in Actor : HandlerFails(a)
  BY <1>3, FailureStep
<1>4. CASE UNCHANGED vars
  BY <1>4 DEF vars, RegistryInv, ColumnsTyped, AtMostOnePending, OwnersKnown, TaskOK, PendingFor
<1> QED
  BY <1>1, <1>2, <1>3, <1>4 DEF Next

LEMMA RegistryInvInit == Init => RegistryInv
<1> SUFFICES ASSUME Init PROVE RegistryInv
  OBVIOUS
<1>1. requests = <<>> /\ plates = {} /\ users = {} /\ task = [a \in Actor |-> Idle]
      /\ plateId = 0 /\ edits = 0 /\ faults = 0 /\ copied = {} /\ disturbed = FALSE
  BY DEF Init
<1>2. ColumnsTyped
  <2>1. disturbed \in BOOLEAN
    BY <1>1
  <2> QED
    BY <1>1, <2>1, IdleTask DEF ColumnsTyped
<1>3. AtMostOnePending /\ OwnersKnown
  BY <1>1 DEF AtMostOnePending, OwnersKnown
<1>4. \A a \in Actor : TaskOK(a)
  BY <1>1, IdleTask DEF TaskOK
<1> QED
  BY <1>2, <1>3, <1>4 DEF RegistryInv

LEMMA RegistryInvariant == Spec => []RegistryInv
BY RegistryInvInit, RegistryInvStep, PTL DEF Spec

\* Every reachable state of the registry has its types, and users are committed
\* before the rows that refer to them, in every handler.
THEOREM RegistryTypeCorrect == Spec => []RegistryTypeOK
<1>1. RegistryInv => RegistryTypeOK
  BY DEF RegistryInv, RegistryTypeOK
<1> QED
  BY <1>1, RegistryInvariant, PTL

\* create_plate_request never leaves two pending requests for a number, with any
\* number of workers, as long as registrations run on the event loop.
THEOREM OnePendingPerNumber == Spec => []AtMostOnePending
<1>1. RegistryInv => AtMostOnePending
  BY DEF RegistryInv
<1> QED
  BY <1>1, RegistryInvariant, PTL

\* What StatusMoves asks of a step.
Moved(r) ==
  /\ r \in DOMAIN requests'
  /\ requests'[r] # requests[r] =>
       /\ <<requests[r].status, requests'[r].status>> \in AllowedTransitions
       /\ requests'[r].number = requests[r].number
       /\ requests'[r].email = requests[r].email

LEMMA MovedStep == RegistryInv /\ [Next]_vars => \A r \in DOMAIN requests : Moved(r)
<1> SUFFICES ASSUME RegistryInv, [Next]_vars, NEW r \in DOMAIN requests PROVE Moved(r)
  OBVIOUS
<1>1. requests \in Seq(Request) /\ requests[r] \in Request
  BY DEF RegistryInv, ColumnsTyped
<1>2. CASE UNCHANGED requests
  BY <1>2 DEF Moved
<1>3. ASSUME NEW a \in Actor, InsertRequest(a) PROVE Moved(r)
  <2> DEFINE q == [number |-> task[a].number, email |-> task[a].email, status |-> "pending"]
  <2>1. requests' = Append(requests, q)
    BY <1>3 DEF InsertRequest
  <2>2. r \in DOMAIN requests' /\ requests'[r] = requests[r]
    <3> HIDE DEF q
    <3> QED
      BY <1>1, <2>1
  <2> QED
    BY <2>2 DEF Moved
<1>4. ASSUME NEW a \in Actor, WriteStatus(a) PROVE Moved(r)
  <2>1. /\ requests' = [requests EXCEPT ![task[a].id].status = task[a].target]
        /\ task[a].id \in DOMAIN requests /\ task[a].target \in {"approved", "rejected"}
    BY <1>4, WriteStatusStep DEF WriteStatus
  <2>2. CASE r # task[a].id
    BY <1>1, <2>1, <2>2 DEF Moved
  <2>3. CASE r = task[a].id
    <3>1. requests' = [requests EXCEPT ![r] = [requests[r] EXCEPT !.status = task[a].target]]
      BY <2>1, <2>3
    <3>2. requests'[r] = [requests[r] EXCEPT !.status = task[a].target] /\ r \in DOMAIN requests'
      BY <1>1, <3>1
    <3>3. /\ requests'[r].status = task[a].target
          /\ requests'[r].number = requests[r].number /\ requests'[r].email = requests[r].email
          /\ requests'[r].status = requests[r].status => requests'[r] = requests[r]
      BY <1>1, <3>2 DEF Request
    <3>4. requests[r].status \in {"pending", "approved", "rejected"}
      BY <1>1 DEF Request, RequestStatus
    <3> QED
      BY <2>1, <3>2, <3>3, <3>4 DEF Moved, AllowedTransitions
  <2> QED
    BY <2>2, <2>3
<1>5. CASE Requests
  BY <1>5, <1>2 DEF Requests, BeginRegister, BeginReview, BeginCreate, BeginUpdate, BeginDelete,
                    BeginEdit, Begin, tableVars
<1>6. ASSUME NEW a \in Actor,
             \/ CheckRegistered(a) \/ CheckPending(a) \/ LoadRequest(a) \/ CheckClash(a)
             \/ AddPlate(a) \/ FindPlate(a) \/ RemovePlate(a) \/ Users(a) \/ Direct(a)
             \/ HandlerFails(a)
      PROVE  UNCHANGED requests
  BY <1>6 DEF CheckRegistered, CheckPending, LoadRequest, CheckClash, AddPlate, FindPlate,
              RemovePlate, Users, FindUser, AddUser, AddUserAndNumber, Direct, CheckNumber,
              CreatePlate, InsertPlate, FindForUpdate, CheckUpdateClash, UpdatePlate,
              FindForDelete, HandlerFails, tableVars
<1>7. CASE Crash \/ UNCHANGED vars
  BY <1>7, <1>2 DEF Crash, tableVars, vars
<1> QED
  BY <1>2, <1>3, <1>4, <1>5, <1>6, <1>7 DEF Next, Handle, Register, Review

\* Reviews that race never commit a change the transition table forbids.
THEOREM StatusMovesAllowed == Spec => StatusMoves
<1>1. RegistryInv /\ [Next]_vars => [\A r \in DOMAIN requests : Moved(r)]_requests
  BY MovedStep
<1> QED
  BY <1>1, RegistryInvariant, PTL DEF Spec, StatusMoves, Moved

(***************************************************************************)
(* While worker threads work one at a time and nothing fails: between the  *)
(* clash check of an approval and its insert no plate with the number can  *)
(* appear, and a rejection finds the plate its request was copied to.      *)
(***************************************************************************)
Calm == faults = 0 /\ ~disturbed

WorkersCalm ==
  /\ \A t, u \in Thread : task[t] # Idle /\ task[u] # Idle => t = u
  /\ \A t \in Thread : \/ task[t] = Idle \/ task[t].op = "review"
                       \/ task[t].op = "create" /\ task[t].pc # "remove"
  /\ \/ task[Loop] = Idle
     \/ task[Loop].op = "register" /\ task[Loop].pc # "remove"

ReviewCalm(t) ==
  task[t].op = "review" =>
    /\ task[t].pc \in {"write", "settle"} /\ task[t].target = "approved"
         => PlatesNumbered(requests[task[t].id].number) = {}
    /\ task[t].pc = "settle" => requests[task[t].id].status = task[t].target

PlatesCalm ==
  /\ \A p, q \in plates : p.number = q.number => p = q
  /\ \A p \in plates : p.source # 0 =>
       p.source \in DOMAIN requests /\ requests[p.source].number = p.number

Settling(r, target) ==
  \E t \in Thread : /\ task[t].op = "review" /\ task[t].pc = "settle"
                    /\ task[t].id = r /\ task[t].target = target

ReviewsDone ==
  /\ \A r \in DOMAIN requests :
       requests[r].status = "approved" => r \in copied \/ Settling(r, "approved")
  /\ \A p \in plates :
       p.source # 0 /\ requests[p.source].status = "rejected"
         => Settling(p.source, "rejected") \/ Removing(p)

CalmOK == WorkersCalm /\ (\A t \in Thread : ReviewCalm(t)) /\ PlatesCalm /\ ReviewsDone

CalmInv == Calm => CalmOK

LEMMA CalmWorkersStep ==
  ASSUME WorkersCalm, NEW a \in Actor, task[a] # Idle,
         \A b \in Actor : b # a => task'[b] = task[b],
         \/ task'[a] = Idle
         \/ task'[a].op = task[a].op /\ (task'[a].op = "review" \/ task'[a].pc # "remove")
  PROVE  WorkersCalm'
<1>1. a \in Thread => a # Loop
  BY RegistryAssumption
<1>2. task[Loop] # task'[Loop] => a = Loop
  BY DEF Actor
<1>3. \A t \in Thread : t # a => task'[t] = task[t]
  BY DEF Actor
<1>4. ASSUME NEW t \in Thread, task'[t] # Idle PROVE task[t] # Idle
  BY <1>3, <1>4
<1>5. \A t, u \in Thread : task'[t] # Idle /\ task'[u] # Idle => t = u
  BY <1>4 DEF WorkersCalm
<1>6. \A t \in Thread : \/ task'[t] = Idle \/ task'[t].op = "review"
                        \/ task'[t].op = "create" /\ task'[t].pc # "remove"
  BY <1>3 DEF WorkersCalm
<1>7. \/ task'[Loop] = Idle
      \/ task'[Loop].op = "register" /\ task'[Loop].pc # "remove"
  <2>1. CASE a = Loop
    BY <2>1 DEF WorkersCalm
  <2>2. CASE a # Loop
    BY <1>2, <2>2 DEF WorkersCalm
  <2> QED
    BY <2>1, <2>2
<1> QED
  BY <1>5, <1>6, <1>7 DEF WorkersCalm

\* In calm times every other thread is idle.
LEMMA OthersIdle ==
  ASSUME WorkersCalm, NEW a \in Thread, task[a] # Idle, NEW t \in Thread, t # a
  PROVE  task[t] = Idle /\ task[t].op = "idle"
BY IdleTask DEF WorkersCalm

\* A statement that changes neither requests nor plates and neither starts nor
\* ends the second half of a review.
LEMMA QuietStep ==
  ASSUME CalmOK, NEW a \in Actor, task[a] # Idle,
         UNCHANGED <<requests, plates, copied>>,
         \A b \in Actor : b # a => task'[b] = task[b],
         task[a].op = "review" => task[a].pc \notin {"settle", "remove"},
         task[a].pc # "remove",
         \/ task'[a] = Idle
         \/ task'[a].op = task[a].op /\ task'[a].pc # "remove",
         a \in Thread => ReviewCalm(a)'
  PROVE  CalmOK'
<1>1. WorkersCalm'
  BY CalmWorkersStep DEF CalmOK
<1>2. \A t \in Thread : ReviewCalm(t)'
  BY DEF CalmOK, ReviewCalm, Actor, PlatesNumbered
<1>3. PlatesCalm'
  BY DEF CalmOK, PlatesCalm
<1>4. \A r, s : Settling(r, s) => Settling(r, s)'
  BY DEF Settling, Actor
<1>5. \A p : Removing(p) => Removing(p)'
  BY DEF Removing, Actor
<1>6. ReviewsDone'
  BY <1>4, <1>5 DEF CalmOK, ReviewsDone
<1> QED
  BY <1>1, <1>2, <1>3, <1>6 DEF CalmOK

LEMMA CalmBegin ==
  ASSUME RegistryInv, CalmOK, Requests, ~disturbed'
  PROVE  CalmOK'
<1>1. ASSUME NEW a \in Actor, NEW h \in Task, Begin(a, h), h.pc = "start",
             a = Loop => h.op \in {"register", "update", "delete"},
             a \in Thread => h.op \in {"review", "create"}
      PROVE  CalmOK'
  <2>1. /\ task \in [Actor -> Task] /\ task' = [task EXCEPT ![a] = h] /\ task[a] = Idle
        /\ UNCHANGED <<requests, plates, copied>>
        /\ a \in Thread => \A t \in Thread : task[t] = Idle
    BY <1>1 DEF Begin, tableVars, RegistryInv, ColumnsTyped
  <2>2. task'[a] = h /\ \A b \in Actor : b # a => task'[b] = task[b]
    BY <2>1
  <2>3. h.op \notin {"update", "delete"}
    BY <1>1 DEF Begin
  <2>4. a \in Thread => \A t \in Thread : task[t] = Idle
    BY <2>1, <2>3
  <2>5. WorkersCalm'
    BY <1>1, <2>1, <2>2, <2>3, <2>4, IdleTask, RegistryAssumption DEF CalmOK, WorkersCalm, Actor
  <2>6. \A t \in Thread : ReviewCalm(t)'
    BY <1>1, <2>1, <2>2 DEF CalmOK, ReviewCalm, Actor, PlatesNumbered
  <2>7. PlatesCalm'
    BY <2>1 DEF CalmOK, PlatesCalm
  <2>8. \A r, s : Settling(r, s) => Settling(r, s)'
    BY <2>1, <2>2, IdleTask DEF Settling, Actor
  <2>9. \A p : Removing(p) => Removing(p)'
    BY <2>1, <2>2, IdleTask DEF Removing, Actor
  <2>10. ReviewsDone'
    BY <2>1, <2>8, <2>9 DEF CalmOK, ReviewsDone
  <2> QED
    BY <2>5, <2>6, <2>7, <2>10 DEF CalmOK
<1>2. requests \in Seq(Request) /\ plateId \in Nat
  BY DEF RegistryInv, ColumnsTyped
<1>3. ASSUME NEW n \in Number, NEW e \in Sender, BeginRegister(n, e) PROVE CalmOK'
  <2>1. Handler("register", n, e, 0, "pending") \in Task
    BY RegistryAssumption DEF Handler, Task, Op, Pc, RequestStatus
  <2> QED
    BY <1>1, <1>3, <2>1, RegistryAssumption DEF BeginRegister, Handler, Actor
<1>4. ASSUME NEW t \in Thread, NEW r \in DOMAIN requests, NEW s \in RequestStatus, BeginReview(t, r, s)
      PROVE  CalmOK'
  <2>1. Handler("review", Unchanged, Unchanged, r, s) \in Task
    BY <1>2 DEF Handler, Task, Op, Pc, RequestStatus
  <2>2. Begin(t, Handler("review", Unchanged, Unchanged, r, s)) /\ t \in Actor /\ t # Loop
    BY <1>4, RegistryAssumption DEF BeginReview, Actor
  <2>3. /\ Handler("review", Unchanged, Unchanged, r, s).op = "review"
        /\ Handler("review", Unchanged, Unchanged, r, s).pc = "start"
    BY DEF Handler
  <2> QED
    BY <1>1, <2>1, <2>2, <2>3
<1>5. ASSUME NEW t \in Thread, NEW n \in Number, NEW e \in Sender, BeginCreate(t, n, e)
      PROVE  CalmOK'
  <2>1. Handler("create", n, e, 0, "pending") \in Task
    BY RegistryAssumption DEF Handler, Task, Op, Pc, RequestStatus
  <2> QED
    BY <1>1, <1>5, <2>1, RegistryAssumption DEF BeginCreate, BeginEdit, Handler, Actor
<1>6. ASSUME NEW i \in 1..plateId, NEW n \in Number \cup {Unchanged}, NEW e \in Email \cup {Unchanged},
             BeginUpdate(i, n, e) \/ BeginDelete(i)
      PROVE  FALSE
  BY <1>6 DEF BeginUpdate, BeginDelete, BeginEdit, Begin, Handler
<1> QED
  BY <1>3, <1>4, <1>5, <1>6 DEF Requests

\* Finish and Goto inside QuietStep.
LEMMA QuietGoto ==
  ASSUME RegistryInv, CalmOK, NEW a \in Actor, NEW pc \in Pc, pc # "remove",
         task[a].op # "idle", task[a].pc \notin {"settle", "remove"},
         Goto(a, pc) \/ Finish(a), UNCHANGED <<requests, plates, copied>>,
         Goto(a, pc) /\ task[a].op = "review"
           => /\ pc \in {"write", "settle"} /\ task[a].target = "approved"
                   => PlatesNumbered(requests[task[a].id].number) = {}
              /\ pc # "settle"
  PROVE  CalmOK'
<1>1. task[a] # Idle /\ ColumnsTyped
  BY IdleTask DEF RegistryInv
<1>2. CASE Finish(a)
  <2>1. task'[a] = Idle /\ \A b \in Actor : b # a => task'[b] = task[b]
    BY <1>1, <1>2, FinishFacts
  <2>2. ReviewCalm(a)'
    BY <2>1, IdleTask DEF ReviewCalm
  <2> QED
    BY <1>1, <2>1, <2>2, QuietStep
<1>3. CASE Goto(a, pc)
  <2>1. /\ \A b \in Actor : b # a => task'[b] = task[b]
        /\ task'[a].pc = pc /\ task'[a].op = task[a].op
        /\ task'[a].id = task[a].id /\ task'[a].target = task[a].target
    BY <1>1, <1>3, GotoFacts
  <2>2. ReviewCalm(a)'
    BY <1>3, <2>1 DEF ReviewCalm, PlatesNumbered
  <2> QED
    BY <1>1, <2>1, <2>2, QuietStep
<1> QED
  BY <1>2, <1>3

LEMMA CalmReads ==
  ASSUME RegistryInv, CalmOK, NEW a \in Actor,
         \/ CheckRegistered(a) \/ CheckPending(a) \/ LoadRequest(a) \/ CheckClash(a)
         \/ FindUser(a) \/ AddUser(a) \/ CheckNumber(a)
  PROVE  CalmOK'
<1> USE DEF At, Pc, tableVars
<1>1. TaskOK(a)
  BY DEF RegistryInv
<1>2. task[a].pc = "user" => task[a].op # "idle"
  BY IdleTask, RegistryAssumption DEF CalmOK, WorkersCalm, Actor
<1>3. CASE CheckRegistered(a)
  BY <1>3, QuietGoto DEF CheckRegistered
<1>4. CASE CheckPending(a)
  BY <1>4, QuietGoto DEF CheckPending
<1>5. CASE LoadRequest(a)
  <2>1. /\ task[a].op = "review" /\ task[a].pc = "start"
        /\ UNCHANGED <<requests, plates, copied>>
    BY <1>5 DEF LoadRequest
  <2>2. CASE Finish(a) \/ Goto(a, "clash")
    BY <2>1, <2>2, QuietGoto
  <2>3. CASE Goto(a, "write") /\ task[a].target # "approved"
    BY <2>1, <2>3, QuietGoto
  <2> QED
    BY <1>5, <2>2, <2>3 DEF LoadRequest
<1>6. CASE CheckClash(a)
  <2>1. /\ task[a].op = "review" /\ task[a].pc = "clash"
        /\ UNCHANGED <<requests, plates, copied>>
    BY <1>6 DEF CheckClash
  <2>2. CASE Finish(a)
    BY <2>1, <2>2, QuietGoto
  <2>3. CASE Goto(a, "write") /\ PlatesNumbered(requests[task[a].id].number) = {}
    BY <2>1, <2>3, QuietGoto
  <2> QED
    BY <1>6, <2>2, <2>3 DEF CheckClash
<1>7. CASE FindUser(a)
  BY <1>1, <1>2, <1>7, QuietGoto DEF FindUser, TaskOK
<1>8. CASE AddUser(a)
  BY <1>8, QuietGoto DEF AddUser
<1>9. CASE CheckNumber(a)
  BY <1>9, QuietGoto DEF CheckNumber
<1> QED
  BY <1>3, <1>4, <1>5, <1>6, <1>7, <1>8, <1>9

\* A registration is stored while a review may be half-way.
LEMMA CalmInsertRequest ==
  ASSUME RegistryInv, CalmOK, NEW a \in Actor, InsertRequest(a)
  PROVE  CalmOK'
<1>1. /\ task[a].op = "register" /\ Finish(a) /\ UNCHANGED <<plates, copied>>
      /\ requests' = Append(requests, [number |-> task[a].number, email |-> task[a].email,
                                       status |-> "pending"])
      /\ requests \in Seq(Request) /\ ColumnsTyped
  BY DEF InsertRequest, At, RegistryInv, ColumnsTyped
<1> DEFINE new == [number |-> task[a].number, email |-> task[a].email, status |-> "pending"]
<1>2. new.status = "pending"
  OBVIOUS
<1>3. /\ DOMAIN requests \subseteq DOMAIN requests'
      /\ \A r \in DOMAIN requests : requests'[r] = requests[r]
      /\ \A r \in DOMAIN requests' : r \notin DOMAIN requests => requests'[r].status = "pending"
  <2> HIDE DEF new
  <2> QED
    BY <1>1, <1>2 DEF new
<1>4. task'[a] = Idle /\ \A b \in Actor : b # a => task'[b] = task[b]
  BY <1>1, FinishFacts
<1>5. task[a] # Idle
  BY <1>1, IdleTask
<1>6. WorkersCalm'
  BY <1>4, <1>5, CalmWorkersStep DEF CalmOK
<1>7. \A t \in Thread : task[t].op = "review" /\ task[t].pc # "remove" => task[t].id \in DOMAIN requests
  BY <1>1 DEF ColumnsTyped, Actor
<1>8. \A t \in Thread : ReviewCalm(t)'
  <2> SUFFICES ASSUME NEW t \in Thread, task'[t].op = "review", task'[t].pc \in {"write", "settle"}
               PROVE  ReviewCalm(t)'
    BY DEF ReviewCalm
  <2>1. task'[t] = task[t]
    BY <1>4, IdleTask DEF Actor
  <2>2. task[t].id \in DOMAIN requests /\ requests'[task[t].id] = requests[task[t].id]
    BY <1>3, <1>7, <2>1
  <2> QED
    BY <1>1, <2>1, <2>2 DEF CalmOK, ReviewCalm, PlatesNumbered
<1>9. PlatesCalm'
  BY <1>1, <1>3 DEF CalmOK, PlatesCalm
<1>10. \A r, s : Settling(r, s) => Settling(r, s)'
  BY <1>1, <1>4 DEF Settling, Actor
<1>11. \A p : Removing(p) => Removing(p)'
  BY <1>1, <1>4, RegistryAssumption DEF Removing, Actor, CalmOK, WorkersCalm
<1>12. ReviewsDone'
  BY <1>1, <1>3, <1>10, <1>11 DEF CalmOK, ReviewsDone, PlatesCalm
<1> QED
  BY <1>6, <1>8, <1>9, <1>12 DEF CalmOK

\* The first commit of a review: from now on it is settling.
LEMMA CalmWriteStatus ==
  ASSUME RegistryInv, CalmOK, NEW a \in Actor, WriteStatus(a)
  PROVE  CalmOK'
<1>1. /\ task[a].op = "review" /\ task[a].pc = "write" /\ Goto(a, "settle")
      /\ requests' = [requests EXCEPT ![task[a].id].status = task[a].target]
      /\ copied' = copied \ {task[a].id} /\ UNCHANGED plates
      /\ requests \in Seq(Request) /\ ColumnsTyped
  BY DEF WriteStatus, At, RegistryInv, ColumnsTyped
<1>2. task[a].id \in DOMAIN requests /\ task[a].target \in {"approved", "rejected"}
  BY WriteStatusStep
<1>3. /\ DOMAIN requests' = DOMAIN requests
      /\ \A r \in DOMAIN requests : r # task[a].id => requests'[r] = requests[r]
      /\ requests'[task[a].id] = [requests[task[a].id] EXCEPT !.status = task[a].target]
  BY <1>1, <1>2
<1>4. /\ \A r \in DOMAIN requests : requests'[r].number = requests[r].number
      /\ requests'[task[a].id].status = task[a].target
  <2>1. \A r \in DOMAIN requests : requests[r] \in Request
    BY <1>1
  <2> QED
    BY <1>2, <1>3, <2>1 DEF Request
<1>5. /\ \A b \in Actor : b # a => task'[b] = task[b]
      /\ task'[a].pc = "settle" /\ task'[a].op = "review"
      /\ task'[a].id = task[a].id /\ task'[a].target = task[a].target
  BY <1>1, GotoFacts DEF Pc
<1>6. task[a] # Idle /\ a \in Thread
  BY <1>1, IdleTask DEF CalmOK, WorkersCalm, Actor
<1>7. WorkersCalm'
  BY <1>1, <1>5, <1>6, CalmWorkersStep DEF CalmOK
<1>8. \A t \in Thread : t # a => task'[t].op = "idle"
  BY <1>5, <1>6, OthersIdle DEF CalmOK, Actor
<1>9. \A t \in Thread : ReviewCalm(t)'
  <2>1. task[a].target = "approved" => PlatesNumbered(requests[task[a].id].number) = {}
    BY <1>1, <1>6 DEF CalmOK, ReviewCalm
  <2>2. task[a].target = "approved" => PlatesNumbered(requests[task[a].id].number)' = {}
    BY <1>1, <1>2, <1>4, <1>5, <2>1 DEF PlatesNumbered
  <2>3. ReviewCalm(a)'
    BY <1>4, <1>5, <2>2 DEF ReviewCalm, PlatesNumbered
  <2> QED
    BY <1>8, <2>3 DEF ReviewCalm
<1>10. PlatesCalm'
  BY <1>1, <1>3, <1>4 DEF CalmOK, PlatesCalm
<1>11. \A r, s : r = task[a].id /\ s = task[a].target => Settling(r, s)'
  BY <1>5, <1>6 DEF Settling
<1>12. \A r, s : ~Settling(r, s)
  BY <1>1, <1>6, OthersIdle DEF Settling, CalmOK
<1>13. \A p : ~Removing(p)
  BY <1>1, <1>6, OthersIdle, IdleTask DEF Removing, CalmOK
<1>14. ReviewsDone'
  <2>1. ASSUME NEW r \in DOMAIN requests', requests'[r].status = "approved"
        PROVE  r \in copied' \/ Settling(r, "approved")'
    <3>1. CASE r = task[a].id
      BY <1>4, <1>11, <2>1, <3>1
    <3>2. CASE r # task[a].id
      <4>1. r \in DOMAIN requests /\ requests[r].status = "approved"
        BY <1>3, <2>1, <3>2
      <4> QED
        BY <1>1, <1>12, <3>2, <4>1 DEF CalmOK, ReviewsDone
    <3> QED
      BY <3>1, <3>2
  <2>2. ASSUME NEW p \in plates', p.source # 0, requests'[p.source].status = "rejected"
        PROVE  Settling(p.source, "rejected")' \/ Removing(p)'
    <3>1. p \in plates /\ p.source \in DOMAIN requests
      BY <1>1, <2>2 DEF CalmOK, PlatesCalm
    <3>2. CASE p.source = task[a].id
      BY <1>4, <1>11, <2>2, <3>2
    <3>3. CASE p.source # task[a].id
      <4>1. requests[p.source].status = "rejected"
        BY <1>3, <2>2, <3>1, <3>3
      <4> QED
        BY <1>12, <1>13, <2>2, <3>1, <4>1 DEF CalmOK, ReviewsDone
    <3> QED
      BY <3>2, <3>3
  <2> QED
    BY <2>1, <2>2 DEF ReviewsDone
<1> QED
  BY <1>7, <1>9, <1>10, <1>14 DEF CalmOK

\* A worker that is not half-way through a review ends its handler with a plate
\* inserted, or with nothing changed when the number is taken.
LEMMA CalmCreatePlate ==
  ASSUME RegistryInv, CalmOK, NEW a \in Actor, CreatePlate(a)
  PROVE  CalmOK'
<1>1. /\ task[a].op = "create" /\ task[a].pc = "write" /\ Finish(a) /\ UNCHANGED requests
      /\ ColumnsTyped
      /\ \/ UNCHANGED <<plates, copied>>
         \/ /\ PlatesNumbered(task[a].number) = {}
            /\ plates' = plates \cup {NewPlate(task[a].number, task[a].email, 0)}
            /\ copied' = copied \cup {0}
  BY DEF CreatePlate, InsertPlate, At, RegistryInv
<1>2. CASE UNCHANGED <<plates, copied>>
  BY <1>1, <1>2, QuietGoto DEF Pc
<1>3. CASE /\ PlatesNumbered(task[a].number) = {}
           /\ plates' = plates \cup {NewPlate(task[a].number, task[a].email, 0)}
           /\ copied' = copied \cup {0}
  <2> DEFINE new == NewPlate(task[a].number, task[a].email, 0)
  <2>1. new.number = task[a].number /\ new.source = 0
    BY DEF NewPlate
  <2>2. task'[a] = Idle /\ \A b \in Actor : b # a => task'[b] = task[b]
    BY <1>1, FinishFacts
  <2>3. task[a] # Idle /\ a \in Thread
    BY <1>1, IdleTask DEF CalmOK, WorkersCalm, Actor
  <2>4. WorkersCalm'
    BY <2>2, <2>3, CalmWorkersStep DEF CalmOK
  <2>5. \A t \in Thread : task[t].op # "review" /\ task'[t].op # "review"
    BY <1>1, <2>2, <2>3, OthersIdle, IdleTask DEF CalmOK, Actor
  <2>6. \A t \in Thread : ReviewCalm(t)'
    BY <2>5 DEF ReviewCalm
  <2>7. PlatesCalm'
    <3> HIDE DEF new
    <3> QED
      BY <1>1, <1>3, <2>1 DEF CalmOK, PlatesCalm, PlatesNumbered, new
  <2>8. \A r, s : ~Settling(r, s)
    BY <2>5 DEF Settling
  <2>9. \A p : ~Removing(p)
    BY <1>1, <2>3, OthersIdle, IdleTask DEF CalmOK, Removing
  <2>10. ReviewsDone'
    <3> HIDE DEF new
    <3> QED
      BY <1>1, <1>3, <2>1, <2>8, <2>9 DEF CalmOK, ReviewsDone, new
  <2> QED
    BY <2>4, <2>6, <2>7, <2>10 DEF CalmOK
<1> QED
  BY <1>1, <1>2, <1>3

\* The second commit of an approval meets no plate with the number.
LEMMA CalmAddPlate ==
  ASSUME RegistryInv, CalmOK, NEW a \in Actor, AddPlate(a)
  PROVE  CalmOK'
<1> DEFINE r0 == task[a].id
           new == NewPlate(requests[r0].number, requests[r0].email, r0)
<1>1. /\ task[a].op = "review" /\ task[a].pc = "settle" /\ task[a].target = "approved"
      /\ InsertPlate(a, requests[r0].number, requests[r0].email, r0)
      /\ ColumnsTyped
  BY DEF AddPlate, At, RegistryInv
<1>2. task[a] # Idle /\ a \in Thread
  BY <1>1, IdleTask DEF CalmOK, WorkersCalm, Actor
<1>3. PlatesNumbered(requests[r0].number) = {} /\ requests[r0].status = "approved"
  BY <1>1, <1>2 DEF CalmOK, ReviewCalm
<1>4. Finish(a) /\ UNCHANGED requests /\ plates' = plates \cup {new} /\ copied' = copied \cup {r0}
  BY <1>1, <1>3 DEF InsertPlate
<1>5. new.number = requests[r0].number /\ new.source = r0 /\ r0 \in DOMAIN requests
  BY <1>1 DEF NewPlate, ColumnsTyped
<1>6. task'[a] = Idle /\ \A b \in Actor : b # a => task'[b] = task[b]
  BY <1>1, <1>4, FinishFacts
<1>7. WorkersCalm'
  BY <1>2, <1>6, CalmWorkersStep DEF CalmOK
<1>8. \A t \in Thread : t # a => task[t] = Idle /\ task[t].op = "idle"
  BY <1>2, OthersIdle DEF CalmOK
<1>9. \A t \in Thread : task'[t].op # "review"
  BY <1>6, <1>8, IdleTask DEF Actor
<1>10. \A t \in Thread : ReviewCalm(t)'
  BY <1>9 DEF ReviewCalm
<1> HIDE DEF new, r0
<1>11. PlatesCalm'
  BY <1>3, <1>4, <1>5 DEF CalmOK, PlatesCalm, PlatesNumbered
<1>12. \A r, s : Settling(r, s) => r = r0 /\ s = "approved"
  BY <1>1, <1>8 DEF Settling, r0
<1>13. \A p : ~Removing(p)
  BY <1>1, <1>8, IdleTask DEF Removing
<1>14. ReviewsDone'
  BY <1>3, <1>4, <1>5, <1>12, <1>13 DEF CalmOK, ReviewsDone
<1> QED
  BY <1>7, <1>10, <1>11, <1>14 DEF CalmOK

\* A rejection finds the plate its request was copied to, if there is one.
LEMMA CalmFindPlate ==
  ASSUME RegistryInv, CalmOK, NEW a \in Actor, FindPlate(a)
  PROVE  CalmOK'
<1>1. /\ task[a].op = "review" /\ task[a].pc = "settle" /\ task[a].target # "approved"
      /\ UNCHANGED <<requests, plates, copied>>
      /\ ColumnsTyped /\ task \in [Actor -> Task] /\ task[a] \in Task
  BY DEF FindPlate, At, tableVars, RegistryInv, ColumnsTyped
<1>2. task[a] # Idle /\ a \in Thread
  BY <1>1, IdleTask DEF CalmOK, WorkersCalm, Actor
<1>3. \A t \in Thread : t # a => task[t] = Idle /\ task[t].op = "idle"
  BY <1>2, OthersIdle DEF CalmOK
<1>4. \/ task'[a] = Idle /\ PlatesNumbered(requests[task[a].id].number) = {}
      \/ /\ task'[a].op = "review" /\ task'[a].pc = "remove"
         /\ \E p \in PlatesNumbered(requests[task[a].id].number) : task'[a].id = p.id
  <2>1. CASE PlatesNumbered(requests[task[a].id].number) = {} /\ Finish(a)
    BY <1>1, <2>1, FinishFacts
  <2>2. ASSUME NEW p \in PlatesNumbered(requests[task[a].id].number),
               task' = [task EXCEPT ![a].id = p.id, ![a].pc = "remove"]
        PROVE  task'[a].op = "review" /\ task'[a].pc = "remove" /\ task'[a].id = p.id
    BY <1>1, <2>2 DEF Task
  <2> QED
    BY <2>1, <2>2 DEF FindPlate
<1>5. \A b \in Actor : b # a => task'[b] = task[b]
  BY <1>1, FinishFacts DEF FindPlate
<1>6. WorkersCalm'
  BY <1>1, <1>2, <1>4, <1>5, CalmWorkersStep DEF CalmOK
<1>7. \A t \in Thread : ReviewCalm(t)'
  BY <1>3, <1>4, <1>5, IdleTask DEF ReviewCalm, Actor
<1>8. PlatesCalm'
  BY <1>1 DEF CalmOK, PlatesCalm
<1>9. \A r, s : Settling(r, s) => r = task[a].id /\ s # "approved"
  BY <1>1, <1>3 DEF Settling
<1>10. \A p : ~Removing(p)
  BY <1>1, <1>3, IdleTask DEF Removing
<1>11. ReviewsDone'
  <2>1. \A r \in DOMAIN requests : requests[r].status = "approved" => r \in copied
    BY <1>9 DEF CalmOK, ReviewsDone
  <2>2. ASSUME NEW p \in plates, p.source # 0, requests[p.source].status = "rejected"
        PROVE  Removing(p)'
    <3>1. p.source = task[a].id /\ requests[p.source].number = p.number
      BY <1>9, <1>10, <2>2 DEF CalmOK, ReviewsDone, PlatesCalm
    <3>2. p \in PlatesNumbered(requests[task[a].id].number)
      BY <3>1 DEF PlatesNumbered
    <3>3. \A q \in PlatesNumbered(requests[task[a].id].number) : q = p
      BY <3>2 DEF PlatesNumbered, CalmOK, PlatesCalm
    <3> QED
      BY <1>1, <1>2, <1>4, <3>2, <3>3 DEF Removing
  <2> QED
    BY <1>1, <2>1, <2>2 DEF ReviewsDone
<1> QED
  BY <1>6, <1>7, <1>8, <1>11 DEF CalmOK

LEMMA CalmRemovePlate ==
  ASSUME RegistryInv, CalmOK, NEW a \in Actor, RemovePlate(a)
  PROVE  CalmOK'
<1>1. /\ task[a].pc = "remove" /\ Finish(a) /\ UNCHANGED <<requests, copied>>
      /\ plates' = plates \ PlatesWithId(task[a].id) /\ ColumnsTyped
  BY DEF RemovePlate, RegistryInv
<1>2. task[a] # Idle /\ a \in Thread /\ task[a].op = "review"
  BY <1>1, IdleTask DEF CalmOK, WorkersCalm, Actor
<1>3. \A t \in Thread : t # a => task[t] = Idle /\ task[t].op = "idle"
  BY <1>2, OthersIdle DEF CalmOK
<1>4. task'[a] = Idle /\ \A b \in Actor : b # a => task'[b] = task[b]
  BY <1>1, FinishFacts
<1>5. WorkersCalm'
  BY <1>2, <1>4, CalmWorkersStep DEF CalmOK
<1>6. \A t \in Thread : ReviewCalm(t)'
  BY <1>3, <1>4, IdleTask DEF ReviewCalm, Actor
<1>7. PlatesCalm'
  BY <1>1 DEF CalmOK, PlatesCalm
<1>8. \A r, s : ~Settling(r, s)
  BY <1>1, <1>3 DEF Settling
<1>9. \A p : Removing(p) => task[a].id = p.id
  BY <1>3, IdleTask DEF Removing
<1>10. ReviewsDone'
  BY <1>1, <1>8, <1>9 DEF CalmOK, ReviewsDone, PlatesWithId
<1> QED
  BY <1>5, <1>6, <1>7, <1>10 DEF CalmOK

LEMMA CalmInvStep == RegistryInv /\ CalmInv /\ [Next]_vars => CalmInv'
<1> SUFFICES ASSUME RegistryInv, CalmInv, [Next]_vars, Calm' PROVE CalmOK'
  BY DEF CalmInv
<1>1. faults \in Nat /\ faults' = 0 /\ ~disturbed'
  BY DEF Calm, RegistryInv, ColumnsTyped
<1>2. CASE UNCHANGED vars
  BY <1>2 DEF Calm, CalmInv, CalmOK, vars, WorkersCalm, ReviewCalm, PlatesCalm, ReviewsDone, Settling,
              Removing, PlatesNumbered
<1>3. CASE Requests
  <2>1. Calm
    BY <1>1, <1>3 DEF Calm, Requests, BeginRegister, BeginReview, BeginCreate, BeginUpdate,
                      BeginDelete, BeginEdit, Begin
  <2> QED
    BY <1>1, <1>3, <2>1, CalmBegin DEF CalmInv
<1>4. ASSUME NEW a \in Actor, Handle(a) PROVE CalmOK'
  <2>1. UNCHANGED <<faults, disturbed>>
    BY <1>4 DEF Handle, Register, Review, Users, Direct, CheckRegistered, CheckPending, InsertRequest,
                LoadRequest, CheckClash, WriteStatus, AddPlate, InsertPlate, FindPlate, RemovePlate,
                FindUser, AddUser, AddUserAndNumber, CheckNumber, CreatePlate, FindForUpdate,
                CheckUpdateClash, UpdatePlate, FindForDelete
  <2>2. CalmOK
    BY <1>1, <2>1 DEF Calm, CalmInv
  <2>3. task[a].op \notin {"update", "delete"}
    BY <2>2, IdleTask DEF CalmOK, WorkersCalm, Actor
  <2>4. ~(\/ AddUserAndNumber(a) \/ FindForUpdate(a) \/ CheckUpdateClash(a) \/ UpdatePlate(a)
          \/ FindForDelete(a))
    BY <2>3 DEF AddUserAndNumber, FindForUpdate, CheckUpdateClash, UpdatePlate, FindForDelete, At
  <2> QED
    BY <1>4, <2>2, <2>4, CalmReads, CalmInsertRequest, CalmWriteStatus, CalmAddPlate,
       CalmCreatePlate, CalmFindPlate, CalmRemovePlate DEF Handle, Register, Review, Users, Direct
<1>5. CASE Crash \/ \E a \in Actor : HandlerFails(a)
  BY <1>1, <1>5 DEF Crash, HandlerFails
<1> QED
  BY <1>2, <1>3, <1>4, <1>5 DEF Next

\* An approval copies the plate and a rejection removes it, for any number of
\* registrations meanwhile, as long as no other worker, edit or failure disturbs.
THEOREM ReviewsCalm == Spec => []CalmReviews
<1>1. Init => CalmInv
  <2> SUFFICES ASSUME Init PROVE CalmOK
    BY DEF CalmInv
  <2>1. requests = <<>> /\ plates = {} /\ \A a \in Actor : task[a] = Idle
    BY DEF Init
  <2> QED
    BY <2>1, IdleTask DEF CalmOK, WorkersCalm, ReviewCalm, PlatesCalm, ReviewsDone, Actor
<1>2. CalmInv => CalmReviews
  <2> SUFFICES ASSUME CalmOK PROVE ApprovalCopies /\ RejectedHasNoPlate
    BY DEF CalmInv, Calm, CalmReviews
  <2>1. \A r, s : Settling(r, s) => UnderReview(r)
    BY DEF Settling, UnderReview
  <2> QED
    BY <2>1 DEF CalmOK, ReviewsDone, ApprovalCopies, RejectedHasNoPlate
<1> QED
  BY <1>1, <1>2, CalmInvStep, RegistryInvariant, PTL DEF Spec
=============================================================================
