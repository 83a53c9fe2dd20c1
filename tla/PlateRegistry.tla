--------------------------- MODULE PlateRegistry ---------------------------
(***************************************************************************)
(* License plates and the public requests for them: plate_request_service, *)
(* plate_service and their repositories, as the routes run them.           *)
(*                                                                         *)
(* `async def` routes that never await (register, update, delete) run one  *)
(* at a time on the event loop; `def` routes (review, create) run in a     *)
(* pool of threads.  Every handler has a session of its own and commits    *)
(* several times.  A step here is one statement or one commit: between two *)
(* of them the other handlers run (READ COMMITTED), or this one fails.     *)
(***************************************************************************)
EXTENDS Naturals, FiniteSets, Sequences

CONSTANTS
  Number,       \* plate numbers
  Email,        \* a user is known by the email, unique in users
  Sender,       \* bound: the emails that register or get a new plate
  Thread,       \* worker threads that run `def` routes
  Loop,         \* the event loop
  MaxRequests,  \* bound: registrations started
  MaxPlates,    \* bound: plates inserted
  MaxEdits,     \* bound: plates created, updated or deleted directly, as started
  MaxFaults,    \* bound: failing handlers and crashes
  Unchanged     \* a form field that was not sent

ASSUME RegistryAssumption ==
  /\ Loop \notin Thread
  /\ Sender \subseteq Email
  /\ Unchanged \notin Number \cup Email
  /\ MaxRequests \in Nat /\ MaxPlates \in Nat /\ MaxEdits \in Nat /\ MaxFaults \in Nat

VARIABLES
  requests,  \* license_plate_requests, by id
  plates,    \* license_plates
  users,     \* emails of users
  task,      \* per event loop or thread, the handler it runs
  plateId,   \* the last plate id given out
  edits,     \* direct changes of plates started
  faults,    \* failing handlers and crashes so far
  copied,    \* history: requests whose last approval inserted its plate
  disturbed  \* history: two threads worked at once, or a plate was edited directly

tableVars == <<requests, plates, users, plateId, copied>>
vars == <<requests, plates, users, task, plateId, edits, faults, copied, disturbed>>

Actor == Thread \cup {Loop}

RequestStatus == {"pending", "approved", "rejected"}
Request == [number : Number, email : Email, status : RequestStatus]

\* source: the request an approval copied the plate from, 0 for a direct create.
Plate == [id : Nat \ {0}, number : Number, email : Email, source : Nat]

\* op: the handler; pc: its next statement; id: the request or plate it works on.
Op == {"idle", "register", "review", "create", "update", "delete"}
Pc == {"start", "clash", "pending", "user", "adduser", "write", "settle", "remove"}
Task == [op : Op, pc : Pc, number : Number \cup {Unchanged}, email : Email \cup {Unchanged},
         id : Nat, target : RequestStatus]

Handler(op, number, email, id, target) ==
  [op |-> op, pc |-> "start", number |-> number, email |-> email, id |-> id, target |-> target]
Idle == Handler("idle", Unchanged, Unchanged, 0, "pending")

At(a, op, pc) == task[a].op = op /\ task[a].pc = pc
Goto(a, pc) == task' = [task EXCEPT ![a].pc = pc]
Finish(a) == task' = [task EXCEPT ![a] = Idle]

PlatesNumbered(n) == {p \in plates : p.number = n}
PlatesWithId(i) == {p \in plates : p.id = i}
PendingFor(n) == {r \in DOMAIN requests : requests[r].number = n /\ requests[r].status = "pending"}

\* _ALLOWED_TRANSITIONS
AllowedTransitions == {<<"pending", "approved">>, <<"pending", "rejected">>,
                       <<"approved", "rejected">>, <<"rejected", "approved">>}

(***************************************************************************)
(* A handler starts.                                                       *)
(***************************************************************************)
Begin(a, handler) ==
  /\ task[a] = Idle
  /\ task' = [task EXCEPT ![a] = handler]
  /\ disturbed' = \/ disturbed
                  \/ handler.op \in {"update", "delete"}
                  \/ a \in Thread /\ \E t \in Thread : task[t] # Idle
  /\ UNCHANGED <<tableVars, faults>>

BeginEdit(a, handler) ==
  /\ edits < MaxEdits
  /\ edits' = edits + 1
  /\ Begin(a, handler)

BeginRegister(n, e) ==
  /\ Len(requests) < MaxRequests
  /\ Begin(Loop, Handler("register", n, e, 0, "pending"))
  /\ UNCHANGED edits

\* Bound: the plates inserted and those the handlers at work may insert.
InsertsLeft ==
  plateId + Cardinality({t \in Thread : \/ task[t].op = "create"
                                        \/ task[t].op = "review" /\ task[t].target = "approved"})
    < MaxPlates

BeginReview(t, r, target) ==
  /\ target = "approved" => InsertsLeft
  /\ Begin(t, Handler("review", Unchanged, Unchanged, r, target))
  /\ UNCHANGED edits

BeginCreate(t, n, e) ==
  /\ InsertsLeft
  /\ BeginEdit(t, Handler("create", n, e, 0, "pending"))

BeginUpdate(i, n, e) ==
  /\ n # Unchanged \/ e # Unchanged
  /\ BeginEdit(Loop, Handler("update", n, e, i, "pending"))

BeginDelete(i) == BeginEdit(Loop, Handler("delete", Unchanged, Unchanged, i, "pending"))

(***************************************************************************)
(* create_plate_request: no plate with this number, no pending request for *)
(* it, then the user, then the request.                                    *)
(***************************************************************************)
CheckRegistered(a) ==
  /\ At(a, "register", "start")
  /\ IF PlatesNumbered(task[a].number) # {} THEN Finish(a) ELSE Goto(a, "pending")
  /\ UNCHANGED <<tableVars, edits, faults, disturbed>>

\* Mutant of CheckPending: the check is not made.
CheckPendingSkipped(a) ==
  /\ At(a, "register", "pending")
  /\ Goto(a, "user")
  /\ UNCHANGED <<tableVars, edits, faults, disturbed>>

CheckPending(a) ==
  /\ At(a, "register", "pending")
  /\ IF PendingFor(task[a].number) # {} THEN Finish(a) ELSE Goto(a, "user")
  /\ UNCHANGED <<tableVars, edits, faults, disturbed>>

InsertRequest(a) ==
  /\ At(a, "register", "write")
  /\ requests' = Append(requests, [number |-> task[a].number, email |-> task[a].email,
                                   status |-> "pending"])
  /\ Finish(a)
  /\ UNCHANGED <<plates, users, plateId, edits, faults, copied, disturbed>>

(***************************************************************************)
(* update_plate_status.                                                    *)
(***************************************************************************)
\* Mutant of LoadRequest: the transition table is not consulted.
LoadRequestUnchecked(a) ==
  /\ At(a, "review", "start")
  /\ Goto(a, IF task[a].target = "approved" THEN "clash" ELSE "write")
  /\ UNCHANGED <<tableVars, edits, faults, disturbed>>

LoadRequest(a) ==
  /\ At(a, "review", "start")
  /\ IF <<requests[task[a].id].status, task[a].target>> \in AllowedTransitions
       THEN Goto(a, IF task[a].target = "approved" THEN "clash" ELSE "write")
       ELSE Finish(a)
  /\ UNCHANGED <<tableVars, edits, faults, disturbed>>

\* Mutant of CheckClash: an active plate with the number is not looked for.
CheckClashSkipped(a) ==
  /\ At(a, "review", "clash")
  /\ Goto(a, "write")
  /\ UNCHANGED <<tableVars, edits, faults, disturbed>>

CheckClash(a) ==
  /\ At(a, "review", "clash")
  /\ IF PlatesNumbered(requests[task[a].id].number) # {} THEN Finish(a) ELSE Goto(a, "write")
  /\ UNCHANGED <<tableVars, edits, faults, disturbed>>

\* update_req_status: the first commit.  The status it replaces may no longer be
\* the one that was checked.
WriteStatus(a) ==
  /\ At(a, "review", "write")
  /\ requests' = [requests EXCEPT ![task[a].id].status = task[a].target]
  /\ copied' = copied \ {task[a].id}
  /\ Goto(a, "settle")
  /\ UNCHANGED <<plates, users, plateId, edits, faults, disturbed>>

NewPlate(n, e, source) == [id |-> plateId + 1, number |-> n, email |-> e, source |-> source]

\* An INSERT and its commit: the unique constraint on plate_number raises.
InsertPlate(a, n, e, source) ==
  /\ IF PlatesNumbered(n) = {}
       THEN /\ plateId' = plateId + 1
            /\ plates' = plates \cup {NewPlate(n, e, source)}
            /\ copied' = copied \cup {source}
       ELSE UNCHANGED <<plates, plateId, copied>>
  /\ Finish(a)
  /\ UNCHANGED <<requests, users, edits, faults, disturbed>>

\* add_plate: the second commit of an approval.
AddPlate(a) ==
  LET r == requests[task[a].id]
  IN  /\ At(a, "review", "settle")
      /\ task[a].target = "approved"
      /\ InsertPlate(a, r.number, r.email, task[a].id)

\* Mutant of FindPlate: the plate of a rejected request is left alone.
FindPlateSkipped(a) ==
  /\ At(a, "review", "settle")
  /\ task[a].target # "approved"
  /\ Finish(a)
  /\ UNCHANGED <<tableVars, edits, faults, disturbed>>

\* A rejection looks up whatever plate has the number now ...
FindPlate(a) ==
  LET found == PlatesNumbered(requests[task[a].id].number)
  IN  /\ At(a, "review", "settle")
      /\ task[a].target # "approved"
      /\ \/ found = {} /\ Finish(a)
         \/ \E p \in found : task' = [task EXCEPT ![a].id = p.id, ![a].pc = "remove"]
      /\ UNCHANGED <<tableVars, edits, faults, disturbed>>

\* ... and deletes that row by its id, if it still exists.
RemovePlate(a) ==
  /\ task[a].pc = "remove"
  /\ plates' = plates \ PlatesWithId(task[a].id)
  /\ Finish(a)
  /\ UNCHANGED <<requests, users, plateId, edits, faults, copied, disturbed>>

(***************************************************************************)
(* Users: looked up by email, and inserted and committed when missing.     *)
(***************************************************************************)
FindUser(a) ==
  /\ task[a].pc = "user"
  /\ Goto(a, IF task[a].email \in users THEN "write" ELSE "adduser")
  /\ UNCHANGED <<tableVars, edits, faults, disturbed>>

\* Mutant of AddUser: the user is left to be committed with what comes next.
AddUserLater(a) ==
  /\ task[a].op \in {"register", "create"} /\ task[a].pc = "adduser"
  /\ IF task[a].email \in users THEN Finish(a) ELSE Goto(a, "write")
  /\ UNCHANGED <<requests, plates, users, plateId, edits, faults, copied, disturbed>>

\* The unique constraint on email raises when another handler was faster.
AddUser(a) ==
  /\ task[a].op \in {"register", "create"} /\ task[a].pc = "adduser"
  /\ IF task[a].email \in users THEN Finish(a) ELSE Goto(a, "write")
  /\ users' = users \cup {task[a].email}
  /\ UNCHANGED <<requests, plates, plateId, edits, faults, copied, disturbed>>

(***************************************************************************)
(* create_plate.                                                           *)
(***************************************************************************)
CheckNumber(a) ==
  /\ At(a, "create", "start")
  /\ IF PlatesNumbered(task[a].number) # {} THEN Finish(a) ELSE Goto(a, "user")
  /\ UNCHANGED <<tableVars, edits, faults, disturbed>>

CreatePlate(a) ==
  /\ At(a, "create", "write")
  /\ InsertPlate(a, task[a].number, task[a].email, 0)

(***************************************************************************)
(* update_plate and delete_plate.                                          *)
(***************************************************************************)
FindForUpdate(a) ==
  /\ At(a, "update", "start")
  /\ IF PlatesWithId(task[a].id) = {}
       THEN Finish(a)
       ELSE \E p \in PlatesWithId(task[a].id) :
              IF task[a].number \in {Unchanged, p.number}
                THEN task' = [task EXCEPT ![a].number = Unchanged,
                                          ![a].pc = IF task[a].email = Unchanged THEN "write" ELSE "user"]
                ELSE Goto(a, "clash")
  /\ UNCHANGED <<tableVars, edits, faults, disturbed>>

CheckUpdateClash(a) ==
  /\ At(a, "update", "clash")
  /\ IF \E p \in PlatesNumbered(task[a].number) : p.id # task[a].id
       THEN Finish(a)
       ELSE Goto(a, IF task[a].email = Unchanged THEN "write" ELSE "user")
  /\ UNCHANGED <<tableVars, edits, faults, disturbed>>

Renumbered(p, n) == [p EXCEPT !.number = IF n = Unchanged THEN @ ELSE n]
Reassigned(p, e) == [p EXCEPT !.email = IF e = Unchanged THEN @ ELSE e]

\* The row is gone, or the unique constraint on plate_number raises.
UpdateFails(i, n) ==
  PlatesWithId(i) = {} \/ \E p \in PlatesNumbered(n) : p.id # i

\* A new user is committed together with the new number, before the new owner.
AddUserAndNumber(a) ==
  LET t == task[a]
      raises == t.email \in users \/ (t.number # Unchanged /\ UpdateFails(t.id, t.number))
  IN  /\ At(a, "update", "adduser")
      /\ IF raises
           THEN Finish(a) /\ UNCHANGED <<plates, users>>
           ELSE /\ users' = users \cup {t.email}
                /\ plates' = {IF p.id = t.id THEN Renumbered(p, t.number) ELSE p : p \in plates}
                /\ Goto(a, "write")
      /\ UNCHANGED <<requests, plateId, edits, faults, copied, disturbed>>

UpdatePlate(a) ==
  LET t == task[a]
  IN  /\ At(a, "update", "write")
      /\ plates' = IF UpdateFails(t.id, t.number)
                     THEN plates
                     ELSE {IF p.id = t.id THEN Reassigned(Renumbered(p, t.number), t.email) ELSE p :
                             p \in plates}
      /\ Finish(a)
      /\ UNCHANGED <<requests, users, plateId, edits, faults, copied, disturbed>>

FindForDelete(a) ==
  /\ At(a, "delete", "start")
  /\ IF PlatesWithId(task[a].id) = {} THEN Finish(a) ELSE Goto(a, "remove")
  /\ UNCHANGED <<tableVars, edits, faults, disturbed>>

(***************************************************************************)
(* Failures: a statement of one handler raises, or the process dies.       *)
(* What was committed stays.                                               *)
(***************************************************************************)
HandlerFails(a) ==
  /\ task[a] # Idle
  /\ faults < MaxFaults
  /\ faults' = faults + 1
  /\ Finish(a)
  /\ UNCHANGED <<tableVars, edits, disturbed>>

Crash ==
  /\ faults < MaxFaults
  /\ faults' = faults + 1
  /\ task' = [a \in Actor |-> Idle]
  /\ UNCHANGED <<tableVars, edits, disturbed>>

-----------------------------------------------------------------------------
Init ==
  /\ requests = <<>>
  /\ plates = {}
  /\ users = {}
  /\ task = [a \in Actor |-> Idle]
  /\ plateId = 0
  /\ edits = 0
  /\ faults = 0
  /\ copied = {}
  /\ disturbed = FALSE

Requests ==
  \/ \E n \in Number, e \in Sender : BeginRegister(n, e)
  \/ \E t \in Thread, r \in DOMAIN requests, s \in RequestStatus : BeginReview(t, r, s)
  \/ \E t \in Thread, n \in Number, e \in Sender : BeginCreate(t, n, e)
  \/ \E i \in 1..plateId, n \in Number \cup {Unchanged}, e \in Email \cup {Unchanged} :
       BeginUpdate(i, n, e)
  \/ \E i \in 1..plateId : BeginDelete(i)

Register(a) == CheckRegistered(a) \/ CheckPending(a) \/ InsertRequest(a)
Review(a) == LoadRequest(a) \/ CheckClash(a) \/ WriteStatus(a) \/ AddPlate(a) \/ FindPlate(a)
Users(a) == FindUser(a) \/ AddUser(a) \/ AddUserAndNumber(a)
Direct(a) == CheckNumber(a) \/ CreatePlate(a) \/ FindForUpdate(a) \/ CheckUpdateClash(a)
               \/ UpdatePlate(a) \/ FindForDelete(a)

Handle(a) == Register(a) \/ Review(a) \/ Users(a) \/ Direct(a) \/ RemovePlate(a)

Next ==
  \/ Requests
  \/ \E a \in Actor : Handle(a) \/ HandlerFails(a)
  \/ Crash

Spec == Init /\ [][Next]_vars

-----------------------------------------------------------------------------
ColumnsTyped ==
  /\ requests \in Seq(Request)
  /\ plates \in SUBSET Plate
  /\ users \in SUBSET Email
  /\ task \in [Actor -> Task]
  /\ plateId \in Nat /\ edits \in Nat /\ faults \in Nat
  /\ copied \in SUBSET Nat /\ disturbed \in BOOLEAN
  /\ \A a \in Actor : task[a].op = "review" /\ task[a].pc # "remove" => task[a].id \in DOMAIN requests

\* Every request and plate belongs to a user whose row is committed, whatever
\* handlers raced to create the user or failed half-way.
OwnersKnown ==
  /\ \A r \in DOMAIN requests : requests[r].email \in users
  /\ \A p \in plates : p.email \in users

\* Tables and handlers hold values of their types, a review works on a request that
\* exists, and no row names an owner that is not there: the handler that loses the
\* race for a new user stores nothing.
RegistryTypeOK == ColumnsTyped /\ OwnersKnown

\* "A pending request for this plate number already exists": two registrations
\* never both pass that check, because they run on the event loop, although the
\* check and the insert are separate statements and no constraint backs them.
AtMostOnePending ==
  \A r, s \in DOMAIN requests :
    /\ requests[r].number = requests[s].number
    /\ requests[r].status = "pending" /\ requests[s].status = "pending"
    => r = s

\* A committed status change is one of _ALLOWED_TRANSITIONS and nothing else of
\* a request ever changes, although the status was checked before other
\* reviewers committed.
StatusMoves ==
  [][\A r \in DOMAIN requests :
       /\ r \in DOMAIN requests'
       /\ requests'[r] # requests[r] =>
            /\ <<requests[r].status, requests'[r].status>> \in AllowedTransitions
            /\ requests'[r].number = requests[r].number
            /\ requests'[r].email = requests[r].email]_requests

UnderReview(r) == \E t \in Thread : task[t].op = "review" /\ task[t].pc # "remove" /\ task[t].id = r
Removing(p) == \E t \in Thread : task[t].pc = "remove" /\ task[t].id = p.id

\* CONTEXT.md: "approval copies the plate into the active registry": once its
\* review is over, an approved request had its plate inserted.
ApprovalCopies ==
  \A r \in DOMAIN requests :
    requests[r].status = "approved" /\ ~UnderReview(r) => r \in copied

\* Once its review is over, the plate copied from a rejected request is gone.
RejectedHasNoPlate ==
  \A p \in plates :
    p.source # 0 /\ requests[p.source].status = "rejected" => UnderReview(p.source) \/ Removing(p)

\* The two promises of a review, kept as long as worker threads work one at a
\* time (reviews and direct creates, while registrations go on), no plate is
\* updated or deleted directly and nothing fails between the two commits.
CalmReviews == faults = 0 /\ ~disturbed => ApprovalCopies /\ RejectedHasNoPlate
=============================================================================
