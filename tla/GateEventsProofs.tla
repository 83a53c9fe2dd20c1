-------------------------- MODULE GateEventsProofs --------------------------
(***************************************************************************)
(* Proofs about recording gate events, for any gates and any number of     *)
(* processes: the type, and one row per event however often it arrives;    *)
(* what the counts of a day or an hour can differ by; and that the summary *)
(* of a week is made of them.                                              *)
(***************************************************************************)
EXTENDS GateEvents, FunctionTheorems, FiniteSetTheorems, WellFoundedInduction, SequenceTheorems, TLAPS

\* What a process relies on between its INSERT and its COMMIT: the event has no
\* committed row, and no other process is about to commit one.
InsertHolds ==
  \A s \in Subscriber :
    /\ task[s].pc = "commit" => recorded[task[s].id] = 0
    /\ task[s].pc = "lookup" => recorded[task[s].id] > 0
    /\ task[s].pc = "commit" => ~Held(s)

GateInv == GateTypeOK /\ OneRowPerEvent /\ InsertHolds

Task == [pc : {"idle", "insert", "commit", "lookup"}, id : EventId \cup {0}]

-----------------------------------------------------------------------------
LEMMA IdleTask == Idle \in Task /\ Idle.pc = "idle"
BY DEF Idle, Task

LEMMA InitOK == Init => GateInv
<1> SUFFICES ASSUME Init PROVE GateInv
  OBVIOUS
<1>1. \A s \in Subscriber : task[s] = Idle /\ task[s].pc = "idle"
  BY IdleTask DEF Init
<1>2. task \in [Subscriber -> Task]
  BY IdleTask DEF Init
<1>3. queue \in [Subscriber -> Seq(Message)]
  <2>1. <<>> \in Seq(Message)
    OBVIOUS
  <2> QED
    BY <2>1 DEF Init
<1>4. GateTypeOK
  BY <1>1, <1>2, <1>3, GateAssumption DEF Init, GateTypeOK, Task, Working
<1> QED
  BY <1>1, <1>4 DEF Init, GateInv, OneRowPerEvent, InsertHolds

\* Steps of the gates, the broker and the connections: no handler moves.
LEMMA BrokerStep ==
  ASSUME GateInv, UNCHANGED <<task, recorded>>,
         hour' \in 0..MaxHour, sent' \in Seq(Sent), Len(sent') <= MaxEvents,
         online' \in SUBSET Subscriber, queue' \in [Subscriber -> Seq(Message)],
         copies' \in Nat, faults' \in Nat
  PROVE  GateInv'
BY DEF GateInv, GateTypeOK, OneRowPerEvent, InsertHolds, Held, Working

LEMMA DeliverOK ==
  ASSUME GateInv, NEW id \in EventId, Deliver(id)
  PROVE  queue' \in [Subscriber -> Seq(Message)]
<1>1. [id |-> id, retain |-> FALSE] \in Message
  BY DEF Message
<1>2. \A s \in Subscriber : queue[s] \in Seq(Message)
  BY DEF GateInv, GateTypeOK
<1>3. \A s \in Subscriber : Append(queue[s], [id |-> id, retain |-> FALSE]) \in Seq(Message)
  BY <1>1, <1>2, AppendProperties
<1> QED
  BY <1>2, <1>3 DEF Deliver

LEMMA TickOK == ASSUME GateInv, Tick PROVE GateInv'
<1>1. hour' \in 0..MaxHour
  BY GateAssumption DEF Tick, GateInv, GateTypeOK
<1> QED
  BY <1>1, BrokerStep DEF Tick, GateInv, GateTypeOK

LEMMA PublishOK == ASSUME GateInv, NEW g \in Gate, Publish(g) PROVE GateInv'
<1>1. sent \in Seq(Sent) /\ Len(sent) \in Nat /\ Len(sent) < MaxEvents
  BY DEF Publish, GateInv, GateTypeOK
<1>2. Len(sent) + 1 \in EventId
  BY <1>1, GateAssumption DEF EventId
<1>3. queue' \in [Subscriber -> Seq(Message)]
  BY <1>2, DeliverOK DEF Publish
<1> DEFINE e == [event |-> IF OpenNext(g) THEN "open" ELSE "close", gate |-> g, time |-> hour]
<1>4. e \in Sent
  <2>1. (IF OpenNext(g) THEN "open" ELSE "close") \in {"open", "close"}
    OBVIOUS
  <2>2. hour \in 0..MaxHour
    BY DEF GateInv, GateTypeOK
  <2> HIDE DEF OpenNext
  <2> QED
    BY <2>1, <2>2 DEF Sent
<1>5. sent' = Append(sent, e)
  BY DEF Publish
<1> HIDE DEF e
<1>6. sent' \in Seq(Sent) /\ Len(sent') <= MaxEvents
  BY <1>1, <1>4, <1>5, GateAssumption
<1> QED
  BY <1>3, <1>6, BrokerStep DEF Publish, GateInv, GateTypeOK

LEMMA SendAgainOK == ASSUME GateInv, NEW i \in DOMAIN sent, SendAgain(i) PROVE GateInv'
<1>1. sent \in Seq(Sent) /\ Len(sent) \in Nat /\ Len(sent) <= MaxEvents /\ copies \in Nat
  BY DEF GateInv, GateTypeOK
<1>2. i \in EventId
  BY <1>1, GateAssumption DEF EventId
<1>3. queue' \in [Subscriber -> Seq(Message)]
  BY <1>2, DeliverOK DEF SendAgain
<1> QED
  BY <1>1, <1>3, BrokerStep DEF SendAgain, GateInv, GateTypeOK

LEMMA ConnectOK == ASSUME GateInv, NEW s \in Subscriber, Connect(s) PROVE GateInv'
<1>1. sent \in Seq(Sent) /\ Len(sent) \in Nat /\ Len(sent) <= MaxEvents
  BY DEF GateInv, GateTypeOK
<1>2. queue \in [Subscriber -> Seq(Message)]
  BY DEF GateInv, GateTypeOK
<1>3. ASSUME NEW i \in {Len(sent)} \ {0}
      PROVE  [queue EXCEPT ![s] = <<[id |-> i, retain |-> TRUE]>>] \in [Subscriber -> Seq(Message)]
  <2>1. [id |-> i, retain |-> TRUE] \in Message
    BY <1>1, GateAssumption DEF Message, EventId
  <2>2. <<[id |-> i, retain |-> TRUE]>> \in Seq(Message)
    BY <2>1
  <2> QED
    BY <1>2, <2>2
<1>4. queue' \in [Subscriber -> Seq(Message)]
  BY <1>2, <1>3 DEF Connect
<1> QED
  BY <1>4, BrokerStep DEF Connect, GateInv, GateTypeOK

LEMMA DisconnectOK == ASSUME GateInv, NEW s \in Subscriber, Disconnect(s) PROVE GateInv'
<1>1. faults' \in Nat
  BY DEF Disconnect, GateInv, GateTypeOK
<1>2. queue' \in [Subscriber -> Seq(Message)]
  <2>1. <<>> \in Seq(Message)
    OBVIOUS
  <2> QED
    BY <2>1 DEF Disconnect, GateInv, GateTypeOK
<1> QED
  BY <1>1, <1>2, BrokerStep DEF Disconnect, GateInv, GateTypeOK

-----------------------------------------------------------------------------
\* A handler that goes to u, where it holds nothing it should not.
LEMMA HandlerStep ==
  ASSUME GateInv, NEW s \in Subscriber, NEW u \in Task,
         u.pc # "idle" => u.id \in EventId,
         task' = [task EXCEPT ![s] = u],
         u.pc = "commit" => /\ recorded[u.id] = 0
                            /\ \A t \in Subscriber \ {s} : task[t].pc = "commit" => task[t].id # u.id,
         u.pc = "lookup" => recorded[u.id] > 0,
         UNCHANGED <<broker, recorded>>,
         online' \in SUBSET Subscriber, queue' \in [Subscriber -> Seq(Message)], faults' \in Nat
  PROVE  GateInv'
<1>1. task \in [Subscriber -> Task]
  BY DEF GateInv, GateTypeOK, Task
<1>2. task' \in [Subscriber -> Task] /\ task'[s] = u /\ \A t \in Subscriber \ {s} : task'[t] = task[t]
  BY <1>1
<1>3. GateTypeOK'
  BY <1>2 DEF GateInv, GateTypeOK, Task, Working, broker
<1>4. InsertHolds'
  BY <1>2 DEF GateInv, InsertHolds, Held
<1> QED
  BY <1>3, <1>4 DEF GateInv, OneRowPerEvent

LEMMA TakeOK == ASSUME GateInv, NEW s \in Subscriber, Take(s) PROVE GateInv'
<1>1. queue[s] \in Seq(Message) /\ queue[s] # <<>>
  BY DEF Take, GateInv, GateTypeOK
<1>2. Head(queue[s]) \in Message /\ Tail(queue[s]) \in Seq(Message)
  BY <1>1, HeadTailProperties
<1>3. queue' \in [Subscriber -> Seq(Message)]
  BY <1>2 DEF Take, GateInv, GateTypeOK
<1>4. CASE Head(queue[s]).retain
  BY <1>3, <1>4, BrokerStep DEF Take, GateInv, GateTypeOK
<1>5. CASE ~Head(queue[s]).retain
  <2> DEFINE u == [pc |-> "insert", id |-> Head(queue[s]).id]
  <2>1. u \in Task /\ u.id \in EventId /\ u.pc = "insert"
    BY <1>2 DEF Message, Task
  <2>2. task' = [task EXCEPT ![s] = u]
    BY <1>5 DEF Take
  <2> HIDE DEF u
  <2> QED
    BY <1>3, <2>1, <2>2, HandlerStep DEF Take, GateInv, GateTypeOK, broker
<1> QED
  BY <1>4, <1>5

LEMMA InsertOK == ASSUME GateInv, NEW s \in Subscriber, Insert(s) PROVE GateInv'
<1> DEFINE pc == IF recorded[task[s].id] > 0 THEN "lookup" ELSE "commit"
           u == [task[s] EXCEPT !.pc = pc]
<1>1. task[s] \in Task /\ task[s].pc = "insert" /\ task[s].id \in EventId
  BY DEF Insert, GateInv, GateTypeOK, Task, Working
<1>2. pc \in {"lookup", "commit"} /\ recorded[task[s].id] \in Nat
  BY <1>1 DEF GateInv, GateTypeOK
<1>3. u \in Task /\ u.pc = pc /\ u.id = task[s].id
  BY <1>1, <1>2 DEF Task
<1>4. task' = [task EXCEPT ![s] = u]
  BY DEF Insert, Go
<1>5. /\ pc = "lookup" => recorded[task[s].id] > 0
      /\ pc = "commit" => recorded[task[s].id] = 0
  BY <1>2
<1>6. \A t \in Subscriber \ {s} : task[t].pc = "commit" => task[t].id # task[s].id
  BY DEF Insert, Held
<1> HIDE DEF pc, u
<1> QED
  BY <1>1, <1>3, <1>4, <1>5, <1>6, HandlerStep DEF Insert, GateInv, GateTypeOK

LEMMA CommitOK == ASSUME GateInv, NEW s \in Subscriber, Commit(s) PROVE GateInv'
<1> DEFINE i == task[s].id
<1>1. task \in [Subscriber -> Task] /\ recorded \in [EventId -> Nat] /\ i \in EventId
  BY DEF Commit, GateInv, GateTypeOK, Task, Working
<1>2. recorded[i] = 0 /\ \A t \in Subscriber \ {s} : task[t].pc = "commit" => task[t].id # i
  BY DEF Commit, GateInv, InsertHolds, Held
<1>3. /\ task'[s] = Idle /\ \A t \in Subscriber \ {s} : task'[t] = task[t]
      /\ task' \in [Subscriber -> Task]
  BY <1>1, IdleTask DEF Commit, Done
<1>4. /\ recorded' \in [EventId -> Nat] /\ recorded'[i] = 1
      /\ \A j \in EventId : j # i => recorded'[j] = recorded[j]
  BY <1>1, <1>2 DEF Commit
<1> HIDE DEF i
<1>5. GateTypeOK'
  BY <1>3, <1>4, IdleTask DEF Commit, GateInv, GateTypeOK, Task, Working, broker
<1>6. OneRowPerEvent'
  BY <1>4 DEF GateInv, OneRowPerEvent
<1>7. InsertHolds'
  <2> SUFFICES ASSUME NEW t \in Subscriber
               PROVE  /\ task'[t].pc = "commit" => recorded'[task'[t].id] = 0
                      /\ task'[t].pc = "lookup" => recorded'[task'[t].id] > 0
                      /\ task'[t].pc = "commit" => ~Held(t)'
    BY DEF InsertHolds
  <2>1. CASE t = s
    BY <1>3, <2>1, IdleTask
  <2>2. CASE t # s
    <3>1. task'[t] = task[t] /\ (task[t].pc # "idle" => task[t].id \in EventId)
      BY <1>3, <2>2 DEF GateInv, GateTypeOK, Working
    <3>2. CASE task[t].pc = "commit"
      <4>1. task[t].id # i /\ recorded'[task[t].id] = 0
        BY <1>2, <1>4, <2>2, <3>1, <3>2 DEF GateInv, InsertHolds
      <4>2. ~Held(t)
        BY <3>2 DEF GateInv, InsertHolds
      <4>3. ~Held(t)'
        BY <1>3, <3>1, <4>2, IdleTask DEF Held
      <4> QED
        BY <3>1, <3>2, <4>1, <4>3
    <3>3. CASE task[t].pc = "lookup"
      BY <1>4, <3>1, <3>3 DEF GateInv, InsertHolds
    <3> QED
      BY <3>1, <3>2, <3>3
  <2> QED
    BY <2>1, <2>2
<1> QED
  BY <1>5, <1>6, <1>7 DEF GateInv

\* The handler is through, with its message recorded or dropped.
LEMMA DoneOK ==
  ASSUME GateInv, NEW s \in Subscriber, Done(s), UNCHANGED <<broker, recorded>>,
         online' \in SUBSET Subscriber, queue' \in [Subscriber -> Seq(Message)], faults' \in Nat
  PROVE  GateInv'
BY IdleTask, HandlerStep DEF Done

LEMMA StepOK == GateInv /\ [Next]_vars => GateInv'
<1> SUFFICES ASSUME GateInv, [Next]_vars PROVE GateInv'
  OBVIOUS
<1> USE DEF broker
<1>1. CASE Tick
  BY <1>1, TickOK
<1>2. ASSUME NEW g \in Gate, Publish(g) PROVE GateInv'
  BY <1>2, PublishOK
<1>3. ASSUME NEW i \in DOMAIN sent, SendAgain(i) PROVE GateInv'
  BY <1>3, SendAgainOK
<1>4. ASSUME NEW s \in Subscriber, Handle(s) PROVE GateInv'
  <2>1. CASE Lookup(s)
    BY <2>1, DoneOK DEF Lookup, GateInv, GateTypeOK
  <2> QED
    BY <1>4, <2>1, TakeOK, InsertOK, CommitOK DEF Handle
<1>5. ASSUME NEW s \in Subscriber, Connect(s) \/ Disconnect(s) PROVE GateInv'
  BY <1>5, ConnectOK, DisconnectOK
<1>6. ASSUME NEW s \in Subscriber, Fail(s) PROVE GateInv'
  <2>1. faults' \in Nat
    BY <1>6 DEF Fail, GateInv, GateTypeOK
  <2> QED
    BY <1>6, <2>1, DoneOK DEF Fail, GateInv, GateTypeOK
<1>7. ASSUME NEW s \in Subscriber, Crash(s) PROVE GateInv'
  <2>1. faults' \in Nat /\ online' \in SUBSET Subscriber
    BY <1>7 DEF Crash, GateInv, GateTypeOK
  <2>2. queue' \in [Subscriber -> Seq(Message)]
    <3>1. <<>> \in Seq(Message)
      OBVIOUS
    <3> QED
      BY <1>7, <3>1 DEF Crash, GateInv, GateTypeOK
  <2> QED
    BY <1>7, <2>1, <2>2, DoneOK DEF Crash
<1>8. CASE UNCHANGED vars
  BY <1>8, BrokerStep DEF vars, GateInv, GateTypeOK
<1> QED
  BY <1>1, <1>2, <1>3, <1>4, <1>5, <1>6, <1>7, <1>8 DEF Next

-----------------------------------------------------------------------------
(***************************************************************************)
(* Induction: a set of naturals has a least element, a finite set is       *)
(* reached from the empty one.                                             *)
(***************************************************************************)
\* The naturals are well-founded (WFMin), so a set of them has a least element.
LEMMA LeastElement ==
  ASSUME NEW S \in SUBSET Nat, S # {}
  PROVE  \E m \in S : \A n \in S : m <= n
<1> DEFINE less == {ss \in Nat \X Nat : ss[1] < ss[2]}
<1>1. IsWellFoundedOn(less, Nat)
  BY NatLessThanWellFounded DEF OpToRel
<1>2. \E m \in S : \A n \in S : ~(<<n, m>> \in less)
  <2> HIDE DEF less
  <2> QED
    BY <1>1, WFMin
<1>3. PICK m \in S : \A n \in S : ~(n < m)
  BY <1>2
<1>4. \A n \in S : m <= n
  BY <1>3
<1> QED
  BY <1>4

\* A set of subsets of S that has the empty set, and with s \ {x} for some x of s
\* has s, has S: how a fold over S is reasoned about.
LEMMA SubsetInduction ==
  ASSUME NEW S, IsFiniteSet(S), NEW G, {} \in G,
         \A s \in SUBSET S : s # {} => \E x \in s : s \ {x} \in G => s \in G
  PROVE  S \in G
<1> DEFINE bad == {s \in SUBSET S : s \notin G}
           sizes == {Cardinality(s) : s \in bad}
<1>1. SUFFICES ASSUME bad # {} PROVE FALSE
  OBVIOUS
<1>2. \A s \in SUBSET S : IsFiniteSet(s) /\ Cardinality(s) \in Nat
  BY FS_Subset, FS_CardinalityType
<1>3. sizes \in SUBSET Nat /\ sizes # {}
  BY <1>1, <1>2
<1>4. PICK n \in sizes : \A k \in sizes : n <= k
  <2> HIDE DEF sizes
  <2> QED
    BY <1>3, LeastElement
<1>5. PICK s \in bad : n = Cardinality(s)
  BY <1>4
<1>6. PICK x \in s : s \ {x} \in G => s \in G
  BY <1>5
<1>7. s \ {x} \in bad
  BY <1>5, <1>6
<1>8. Cardinality(s \ {x}) = n - 1
  BY <1>2, <1>5, <1>6, FS_RemoveElement
<1>9. Cardinality(s \ {x}) \in sizes
  BY <1>7
<1> HIDE DEF sizes
<1>10. n \in Nat /\ n <= n - 1
  BY <1>3, <1>4, <1>8, <1>9
<1> QED
  BY <1>10

-----------------------------------------------------------------------------
(***************************************************************************)
(* What the gates send.                                                    *)
(***************************************************************************)
Opposite(i, k) == sent[k].gate = sent[i].gate /\ sent[k].event # sent[i].event
SameKind(i, j) == sent[j].gate = sent[i].gate /\ sent[j].event = sent[i].event

\* Events are stamped in the order in which they are sent.
Stamped ==
  \A i \in DOMAIN sent :
    /\ sent[i].time <= hour
    /\ \A j \in DOMAIN sent : i <= j => sent[i].time <= sent[j].time

\* A gate opens and closes by turns: between two events of a kind there is one of
\* the other kind, and so there is after every event of the kind that comes next.
Alternate ==
  /\ \A i, j \in DOMAIN sent : i < j /\ SameKind(i, j)
       => \E k \in DOMAIN sent : i < k /\ k < j /\ Opposite(i, k)
  /\ \A g \in Gate : \A i \in DOMAIN sent :
       sent[i].gate = g /\ (sent[i].event = "open" <=> OpenNext(g))
         => \E k \in DOMAIN sent : i < k /\ Opposite(i, k)

LEMMA SentType ==
  ASSUME GateTypeOK
  PROVE  /\ sent \in Seq(Sent) /\ Len(sent) \in Nat /\ DOMAIN sent = 1..Len(sent)
         /\ hour \in Nat
         /\ \A i \in DOMAIN sent : /\ sent[i] \in Sent /\ sent[i].event \in {"open", "close"}
                                  /\ sent[i].gate \in Gate /\ sent[i].time \in Nat
<1>1. sent \in Seq(Sent) /\ hour \in 0..MaxHour
  BY DEF GateTypeOK
<1>2. \A e \in Sent : e.event \in {"open", "close"} /\ e.gate \in Gate /\ e.time \in 0..MaxHour
  BY DEF Sent
<1>3. Len(sent) \in Nat /\ DOMAIN sent = 1..Len(sent) /\ \A i \in DOMAIN sent : sent[i] \in Sent
  <2> HIDE DEF Sent
  <2> QED
    BY <1>1
<1> QED
  BY <1>1, <1>2, <1>3, GateAssumption

\* One more event of gate g turns what comes next for g and for no other gate.
LEMMA PublishTurns ==
  ASSUME GateTypeOK, NEW g \in Gate, Publish(g)
  PROVE  /\ OpenNext(g)' <=> ~OpenNext(g)
         /\ \A h \in Gate \ {g} : OpenNext(h)' <=> OpenNext(h)
<1> DEFINE e == [event |-> IF OpenNext(g) THEN "open" ELSE "close", gate |-> g, time |-> hour]
           n == Len(sent) + 1
           of(h) == {i \in DOMAIN sent : sent[i].gate = h}
           new(h) == {i \in DOMAIN sent' : sent'[i].gate = h}
<1>1. /\ n \in Nat /\ DOMAIN sent' = DOMAIN sent \cup {n} /\ n \notin DOMAIN sent
      /\ sent'[n].gate = g /\ \A i \in DOMAIN sent : sent'[i] = sent[i]
  <2>1. sent' = Append(sent, e) /\ e.gate = g
    BY DEF Publish
  <2> HIDE DEF e
  <2> QED
    BY <2>1, SentType
<1>2. new(g) = of(g) \cup {n} /\ n \notin of(g) /\ \A h \in Gate \ {g} : new(h) = of(h)
  BY <1>1
<1>3. IsFiniteSet(of(g)) /\ Cardinality(of(g)) \in Nat
  <2>1. IsFiniteSet(DOMAIN sent)
    BY SentType, FS_Interval
  <2> QED
    BY <2>1, FS_Subset, FS_CardinalityType
<1>4. Cardinality(new(g)) = Cardinality(of(g)) + 1
  <2> HIDE DEF of, new, n
  <2> QED
    BY <1>2, <1>3, FS_AddElement
<1>5. OpenNext(g)' <=> Cardinality(new(g)) % 2 = 0
  BY DEF OpenNext
<1>6. OpenNext(g) <=> Cardinality(of(g)) % 2 = 0
  BY DEF OpenNext
<1>7. \A h \in Gate \ {g} : OpenNext(h)' <=> OpenNext(h)
  BY <1>2 DEF OpenNext
<1> HIDE DEF of, new
<1> QED
  BY <1>3, <1>4, <1>5, <1>6, <1>7

LEMMA PublishAlternates ==
  ASSUME GateTypeOK, Stamped, Alternate, NEW g \in Gate, Publish(g)
  PROVE  Stamped' /\ Alternate'
<1> DEFINE e == [event |-> IF OpenNext(g) THEN "open" ELSE "close", gate |-> g, time |-> hour]
           n == Len(sent) + 1
<1>1. /\ n \in Nat /\ DOMAIN sent' = DOMAIN sent \cup {n} /\ \A i \in DOMAIN sent : i \in Nat /\ i < n
      /\ sent'[n] = e /\ \A i \in DOMAIN sent : sent'[i] = sent[i]
  <2>1. sent' = Append(sent, e)
    BY DEF Publish
  <2> HIDE DEF e
  <2> QED
    BY <2>1, SentType
<1>2. /\ e.gate = g /\ e.time = hour /\ e.event \in {"open", "close"}
      /\ e.event = "open" <=> OpenNext(g)
  <2> HIDE DEF OpenNext
  <2> QED
    OBVIOUS
<1>3. hour' = hour /\ hour \in Nat
  BY SentType DEF Publish
<1> HIDE DEF e, n
<1>4. Stamped'
  <2> SUFFICES ASSUME NEW i \in DOMAIN sent'
               PROVE  /\ sent'[i].time <= hour
                      /\ \A j \in DOMAIN sent' : i <= j => sent'[i].time <= sent'[j].time
    BY <1>3 DEF Stamped
  <2> QED
    BY <1>1, <1>2, <1>3 DEF Stamped
<1>5. ASSUME NEW i \in DOMAIN sent', NEW j \in DOMAIN sent', i < j, SameKind(i, j)'
      PROVE  \E k \in DOMAIN sent' : i < k /\ k < j /\ Opposite(i, k)'
  <2>1. i \in DOMAIN sent
    BY <1>1, <1>5
  <2>2. CASE j \in DOMAIN sent
    BY <1>1, <1>5, <2>1, <2>2 DEF Alternate, SameKind, Opposite
  <2>3. CASE j = n
    <3>1. sent[i].gate = g /\ (sent[i].event = "open" <=> OpenNext(g))
      BY <1>1, <1>2, <1>5, <2>1, <2>3, SentType DEF SameKind
    <3>2. PICK k \in DOMAIN sent : i < k /\ Opposite(i, k)
      BY <2>1, <3>1 DEF Alternate
    <3> QED
      BY <1>1, <2>1, <2>3, <3>2 DEF Opposite
  <2> QED
    BY <1>1, <2>2, <2>3
<1>6. ASSUME NEW h \in Gate, NEW i \in DOMAIN sent',
             sent'[i].gate = h, sent'[i].event = "open" <=> OpenNext(h)'
      PROVE  \E k \in DOMAIN sent' : i < k /\ Opposite(i, k)'
  <2>1. i # n
    BY <1>1, <1>2, <1>6, PublishTurns
  <2>2. i \in DOMAIN sent /\ sent[i].gate = h /\ sent'[i] = sent[i]
    BY <1>1, <1>6, <2>1
  <2>3. CASE h # g
    <3>1. sent[i].event = "open" <=> OpenNext(h)
      BY <1>6, <2>2, <2>3, PublishTurns
    <3>2. PICK k \in DOMAIN sent : i < k /\ Opposite(i, k)
      BY <2>2, <3>1 DEF Alternate
    <3> QED
      BY <1>1, <2>2, <3>2 DEF Opposite
  <2>4. CASE h = g
    <3>1. sent[i].event # e.event
      BY <1>2, <1>6, <2>2, <2>4, PublishTurns
    <3> QED
      BY <1>1, <1>2, <2>2, <2>4, <3>1 DEF Opposite
  <2> QED
    BY <2>3, <2>4
<1> QED
  BY <1>4, <1>5, <1>6 DEF Alternate, SameKind, Opposite

LEMMA OrderStep == GateTypeOK /\ Stamped /\ Alternate /\ [Next]_vars => Stamped' /\ Alternate'
<1> SUFFICES ASSUME GateTypeOK, Stamped, Alternate, [Next]_vars PROVE Stamped' /\ Alternate'
  OBVIOUS
<1>1. CASE \E g \in Gate : Publish(g)
  BY <1>1, PublishAlternates
<1>2. CASE sent' = sent /\ hour' \in {hour, hour + 1}
  <2>1. \A i \in DOMAIN sent : sent[i].time \in Nat
    BY SentType
  <2> QED
    BY <1>2, <2>1, SentType DEF Stamped, Alternate, SameKind, Opposite, OpenNext
<1> QED
  BY <1>1, <1>2 DEF Next, vars, broker, Tick, SendAgain, Handle, Take, Insert, Commit, Lookup,
                    Connect, Disconnect, Fail, Crash

-----------------------------------------------------------------------------
(***************************************************************************)
(* Opens and closes of a stretch of time differ by one per gate at most.   *)
(***************************************************************************)
SentIn(kind, start, end) ==
  {i \in DOMAIN sent : sent[i].event = kind /\ start <= sent[i].time /\ sent[i].time < end}

LEMMA SentFinite ==
  ASSUME GateTypeOK, NEW S \in SUBSET DOMAIN sent
  PROVE  IsFiniteSet(S) /\ Cardinality(S) \in Nat
<1>1. IsFiniteSet(DOMAIN sent)
  BY SentType, FS_Interval
<1> QED
  BY <1>1, FS_Subset, FS_CardinalityType

LEMMA OneMorePerGate ==
  ASSUME GateTypeOK, Stamped, Alternate, NEW start \in Int, NEW end \in Int,
         NEW a \in {"open", "close"}, NEW b \in {"open", "close"}, a # b
  PROVE  Cardinality(SentIn(a, start, end)) <= Cardinality(SentIn(b, start, end)) + Cardinality(Gate)
<1> DEFINE A == SentIn(a, start, end)
           B == SentIn(b, start, end)
           after(i) == {k \in B : i < k /\ sent[k].gate = sent[i].gate}
           followed == {i \in A : after(i) # {}}
           last == A \ followed
<1>1. /\ A \subseteq DOMAIN sent /\ B \subseteq DOMAIN sent /\ followed \subseteq A
      /\ DOMAIN sent \subseteq Nat
  BY SentType DEF SentIn
\* Between two events of A of a gate there is one of B.
<1>2. ASSUME NEW i \in A, NEW j \in A, i < j, sent[i].gate = sent[j].gate
      PROVE  \E k \in after(i) : k < j
  <2>1. PICK k \in DOMAIN sent : i < k /\ k < j /\ Opposite(i, k)
    BY <1>2 DEF SentIn, Alternate, SameKind
  <2>2. sent[k].event = b
    BY <2>1, SentType DEF SentIn, Opposite
  <2>3. sent[i].time <= sent[k].time /\ sent[k].time <= sent[j].time
    BY <1>1, <2>1 DEF SentIn, Stamped
  <2>4. k \in B
    BY <1>1, <2>2, <2>3, SentType DEF SentIn
  <2> QED
    BY <2>1, <2>4 DEF Opposite
<1>3. Cardinality(followed) <= Cardinality(B)
  <2> DEFINE first(i) == CHOOSE k \in after(i) : \A m \in after(i) : k <= m
             f == [i \in followed |-> first(i)]
  <2>1. ASSUME NEW i \in followed
        PROVE  f[i] \in after(i) /\ \A m \in after(i) : f[i] <= m
    <3>1. after(i) \in SUBSET Nat /\ after(i) # {}
      BY <1>1
    <3>2. \E k \in after(i) : \A m \in after(i) : k <= m
      <4> HIDE DEF after
      <4> QED
        BY <3>1, LeastElement
    <3> HIDE DEF after
    <3> QED
      BY <3>2
  <2>2. \A i \in followed : f[i] \in B /\ i < f[i] /\ sent[f[i]].gate = sent[i].gate
    BY <2>1
  <2> HIDE DEF f
  <2>3. ASSUME NEW i \in followed, NEW j \in followed, i < j, f[i] = f[j]
        PROVE  FALSE
    <3>1. sent[i].gate = sent[j].gate
      BY <2>2, <2>3
    <3>2. PICK k \in after(i) : k < j
      BY <1>2, <2>3, <3>1
    <3>3. f[i] <= k /\ j < f[j]
      BY <2>1, <2>2, <3>2
    <3>4. i \in Nat /\ j \in Nat /\ k \in Nat /\ f[i] \in Nat
      BY <1>1, <2>2, <3>2
    <3> HIDE DEF after
    <3> QED
      BY <2>3, <3>2, <3>3, <3>4
  <2>4. f \in Injection(followed, B)
    <3> HIDE DEF after
    <3>1. f \in [followed -> B]
      BY <2>2 DEF f
    <3>2. ASSUME NEW i \in followed, NEW j \in followed, f[i] = f[j] PROVE i = j
      <4>1. i \in Nat /\ j \in Nat
        BY <1>1
      <4>2. ~(i < j) /\ ~(j < i)
        BY <2>3, <3>2
      <4> QED
        BY <4>1, <4>2
    <3> QED
      BY <3>1, <3>2 DEF Injection, IsInjective
  <2> HIDE DEF A, B, followed
  <2> QED
    BY <1>1, <2>4, SentFinite, FS_Injection
<1>4. Cardinality(last) <= Cardinality(Gate)
  <2> DEFINE f == [i \in last |-> sent[i].gate]
  <2>1. f \in [last -> Gate]
    BY <1>1, SentType
  <2>2. \A i, j \in last : f[i] = f[j] => i = j
    BY <1>1, <1>2
  <2>3. f \in Injection(last, Gate)
    BY <2>1, <2>2 DEF Injection, IsInjective
  <2> HIDE DEF last, f
  <2> QED
    BY <2>3, FS_Injection, GateAssumption
<1>5. Cardinality(A) <= Cardinality(followed) + Cardinality(last)
  <2>1. A = followed \cup last /\ followed \in SUBSET DOMAIN sent /\ last \in SUBSET DOMAIN sent
    BY <1>1
  <2> HIDE DEF A, followed, last
  <2>2. /\ IsFiniteSet(followed) /\ Cardinality(followed) \in Nat
        /\ IsFiniteSet(last) /\ Cardinality(last) \in Nat
        /\ Cardinality(followed \cap last) \in Nat
    BY <2>1, SentFinite
  <2>3. Cardinality(followed \cup last)
          = Cardinality(followed) + Cardinality(last) - Cardinality(followed \cap last)
    BY <2>2, FS_Union
  <2>4. Cardinality(A) = Cardinality(followed \cup last)
    BY <2>1
  <2> QED
    BY <2>2, <2>3, <2>4
<1>6. /\ Cardinality(A) \in Nat /\ Cardinality(B) \in Nat /\ Cardinality(followed) \in Nat
      /\ Cardinality(last) \in Nat /\ Cardinality(Gate) \in Nat
  <2>1. followed \in SUBSET DOMAIN sent /\ last \in SUBSET DOMAIN sent
    BY <1>1
  <2> HIDE DEF A, B, followed, last
  <2> QED
    BY <1>1, <2>1, SentFinite, GateAssumption, FS_CardinalityType
<1> HIDE DEF A, B, followed, last
<1>7. Cardinality(A) <= Cardinality(B) + Cardinality(Gate)
  BY <1>3, <1>4, <1>5, <1>6
<1> QED
  BY <1>7 DEF A, B

-----------------------------------------------------------------------------
(***************************************************************************)
(* The rows.                                                               *)
(***************************************************************************)
\* An event with a row has one, and the counts are counts of such events.
Kept(kind, start, end) == {i \in SentIn(kind, start, end) : recorded[i] > 0}

LEMMA RowsOnce ==
  ASSUME GateTypeOK, OneRowPerEvent
  PROVE  \A r : r \in Rows <=> \E i \in DOMAIN sent : recorded[i] > 0 /\ r = <<i, 1>>
<1>1. \A i \in DOMAIN sent : recorded[i] \in Nat /\ recorded[i] <= 1
  BY SentType, GateAssumption DEF GateTypeOK, OneRowPerEvent, EventId
<1>2. ASSUME NEW i \in DOMAIN sent, NEW r
      PROVE  r \in {i} \X (1..recorded[i]) <=> recorded[i] > 0 /\ r = <<i, 1>>
  <2>1. recorded[i] = 0 \/ recorded[i] = 1
    BY <1>1
  <2>2. CASE recorded[i] = 0
    <3>1. 1..recorded[i] = {}
      BY <2>2
    <3> QED
      BY <2>2, <3>1
  <2>3. CASE recorded[i] = 1
    <3>1. 1..recorded[i] = {1} /\ recorded[i] > 0
      BY <2>3
    <3> QED
      BY <3>1
  <2> QED
    BY <2>1, <2>2, <2>3
<1>3. \A r : r \in Rows <=> \E i \in DOMAIN sent : r \in {i} \X (1..recorded[i])
  BY DEF Rows
<1> QED
  BY <1>2, <1>3

LEMMA KeptCounted ==
  ASSUME GateTypeOK, OneRowPerEvent, NEW start \in Int, NEW end \in Int, NEW kind
  PROVE  Cardinality({r \in Between(start, end) : sent[r[1]].event = kind})
           = Cardinality(Kept(kind, start, end))
<1> DEFINE K == Kept(kind, start, end)
           R == {r \in Between(start, end) : sent[r[1]].event = kind}
           f == [i \in K |-> <<i, 1>>]
<1>1. \A r : r \in R <=> \E i \in K : r = <<i, 1>>
  BY RowsOnce DEF Between, TimeOf, Kept, SentIn
<1>2. f \in Bijection(K, R)
  <2>1. f \in [K -> R] /\ \A i, j \in K : f[i] = f[j] => i = j
    BY <1>1
  <2>2. \A r \in R : \E i \in K : f[i] = r
    BY <1>1
  <2> HIDE DEF K, R, f
  <2> QED
    BY <2>1, <2>2 DEF Bijection, Injection, Surjection, IsInjective
<1>3. K \in SUBSET DOMAIN sent
  BY DEF Kept, SentIn
<1> HIDE DEF K, R, f
<1>4. Cardinality(R) = Cardinality(K)
  BY <1>2, <1>3, SentFinite, FS_Bijection DEF ExistsBijection
<1> QED
  BY <1>4 DEF K, R

-----------------------------------------------------------------------------
\* What is sent is kept or unrecorded.
LEMMA SentKept ==
  ASSUME GateTypeOK, NEW start \in Int, NEW end \in Int, NEW kind \in {"open", "close"}, NEW times,
         \A i \in DOMAIN sent : sent[i].time \in times <=> start <= sent[i].time /\ sent[i].time < end
  PROVE  /\ Cardinality(Kept(kind, start, end)) \in Nat
         /\ Cardinality(SentIn(kind, start, end)) \in Nat
         /\ Cardinality(Unrecorded(times)) \in Nat
         /\ Cardinality(Kept(kind, start, end)) <= Cardinality(SentIn(kind, start, end))
         /\ Cardinality(SentIn(kind, start, end))
              <= Cardinality(Kept(kind, start, end)) + Cardinality(Unrecorded(times))
<1> DEFINE K == Kept(kind, start, end)
           S == SentIn(kind, start, end)
           U == Unrecorded(times)
<1>1. K \subseteq S /\ S \subseteq DOMAIN sent /\ U \subseteq DOMAIN sent
  BY DEF Kept, SentIn, Unrecorded
<1>2. S \subseteq K \cup U
  <2>1. \A i \in DOMAIN sent : recorded[i] \in Nat
    BY SentType, GateAssumption DEF GateTypeOK, EventId
  <2> QED
    BY <2>1 DEF Kept, SentIn, Unrecorded
<1> HIDE DEF K, S, U
<1>3. /\ IsFiniteSet(K) /\ Cardinality(K) \in Nat /\ IsFiniteSet(S) /\ Cardinality(S) \in Nat
      /\ IsFiniteSet(U) /\ Cardinality(U) \in Nat /\ Cardinality(K \cap U) \in Nat
  BY <1>1, SentFinite
<1>4. Cardinality(K) <= Cardinality(S)
  BY <1>1, <1>3, FS_Subset
<1>5. /\ IsFiniteSet(K \cup U)
      /\ Cardinality(K \cup U) = Cardinality(K) + Cardinality(U) - Cardinality(K \cap U)
  BY <1>3, FS_Union
<1>6. Cardinality(S) <= Cardinality(K \cup U)
  BY <1>2, <1>5, FS_Subset
<1>7. Cardinality(S) <= Cardinality(K) + Cardinality(U)
  BY <1>3, <1>5, <1>6
<1> QED
  BY <1>3, <1>4, <1>7 DEF K, S, U

\* The gap of the rows is that of what was sent, but for what has no row.
LEMMA GapBound ==
  ASSUME GateTypeOK, OneRowPerEvent, Stamped, Alternate,
         NEW start \in Int, NEW end \in Int, NEW times,
         \A i \in DOMAIN sent : sent[i].time \in times <=> start <= sent[i].time /\ sent[i].time < end
  PROVE  Explained(GetCount(start, end), times)
<1> DEFINE opens == Cardinality(Kept("open", start, end))
           closes == Cardinality(Kept("close", start, end))
           opened == Cardinality(SentIn("open", start, end))
           closed == Cardinality(SentIn("close", start, end))
           missed == Cardinality(Unrecorded(times))
           gates == Cardinality(Gate)
<1>1. GetCount(start, end) = [open |-> opens, close |-> closes]
  BY KeptCounted DEF GetCount, Tally
<1>2. Gap(GetCount(start, end)) = opens - closes
  BY <1>1 DEF Gap
<1>3. opened <= closed + gates /\ closed <= opened + gates
  BY OneMorePerGate
<1>4. /\ opens \in Nat /\ opened \in Nat /\ missed \in Nat
      /\ opens <= opened /\ opened <= opens + missed
  BY SentKept
<1>5. closes \in Nat /\ closed \in Nat /\ closes <= closed /\ closed <= closes + missed
  BY SentKept
<1>6. gates \in Nat
  BY GateAssumption, FS_CardinalityType
<1> HIDE DEF opens, closes, opened, closed, missed, gates
<1>7. opens - closes \in -(gates + missed)..(gates + missed)
  BY <1>3, <1>4, <1>5, <1>6
<1> QED
  BY <1>2, <1>7 DEF Explained, gates, missed

-----------------------------------------------------------------------------
(***************************************************************************)
(* The calendar.                                                           *)
(***************************************************************************)
\* What div and % are, for a positive divisor.
LEMMA Division ==
  ASSUME NEW a \in Int, NEW b \in Nat \ {0}, NEW q \in Int
  PROVE  a \div b = q <=> q * b <= a /\ a < (q + 1) * b
<1>1. (a \div b) * b <= a /\ a < ((a \div b) + 1) * b
  OBVIOUS
<1>2. ASSUME q * b <= a, a < (q + 1) * b
      PROVE  a \div b = q
  BY <1>2
<1> QED
  BY <1>1, <1>2

LEMMA Remainder ==
  ASSUME NEW a \in Int, NEW b \in Nat \ {0}, NEW q \in Int, NEW r \in 0..(b - 1)
  PROVE  a \div b = q /\ a % b = r <=> a = q * b + r
<1>1. a = b * (a \div b) + (a % b)
  OBVIOUS
<1>2. ASSUME a = q * b + r
      PROVE  a \div b = q /\ a % b = r
  BY <1>2
<1>3. b * q = q * b
  OBVIOUS
<1> QED
  BY <1>1, <1>2, <1>3

\* A local day lasts from its midnight to the next.
LEMMA DayTimes ==
  ASSUME NEW t \in Int, NEW day \in Int
  PROVE  /\ DayStart(day) \in Int /\ DayStart(day + 1) \in Int
         /\ LocalDay(t) = day <=> DayStart(day) <= t /\ t < DayStart(day + 1)
<1>1. HoursPerDay \in Nat \ {0} /\ UtcOffset \in Nat
  BY GateAssumption
<1> DEFINE m == day * HoursPerDay
           n == (day + 1) * HoursPerDay
<1>2. (t + UtcOffset) \div HoursPerDay = day <=> m <= t + UtcOffset /\ t + UtcOffset < n
  BY <1>1, Division
<1>3. m \in Int /\ n \in Int
  BY <1>1
<1> HIDE DEF m, n
<1>4. m <= t + UtcOffset /\ t + UtcOffset < n <=> m - UtcOffset <= t /\ t < n - UtcOffset
  BY <1>1, <1>3
<1>5. m - UtcOffset \in Int /\ n - UtcOffset \in Int
  BY <1>1, <1>3
<1> QED
  BY <1>2, <1>4, <1>5 DEF LocalDay, DayStart, m, n

\* A local hour lasts an hour of its day.
LEMMA HourTimes ==
  ASSUME NEW t \in Int, NEW day \in Int, NEW h \in 0..(HoursPerDay - 1)
  PROVE  /\ DayStart(day) + h \in Int
         /\ LocalDay(t) = day /\ LocalHour(t) = h
              <=> DayStart(day) + h <= t /\ t < DayStart(day) + h + 1
<1>1. HoursPerDay \in Nat \ {0} /\ UtcOffset \in Nat
  BY GateAssumption
<1> DEFINE m == day * HoursPerDay
<1>2. /\ (t + UtcOffset) \div HoursPerDay = day /\ (t + UtcOffset) % HoursPerDay = h
         <=> t + UtcOffset = m + h
  BY <1>1, Remainder
<1>3. m \in Int /\ h \in Int
  BY <1>1
<1> HIDE DEF m
<1>4. t + UtcOffset = m + h <=> (m - UtcOffset) + h <= t /\ t < (m - UtcOffset) + h + 1
  BY <1>1, <1>3
<1>5. (m - UtcOffset) + h \in Int
  BY <1>1, <1>3
<1> QED
  BY <1>2, <1>4, <1>5 DEF LocalDay, LocalHour, DayStart, m

LEMMA DaysType == Days \subseteq Int
<1>1. \A t \in Int : LocalDay(t) \in Int
  BY GateAssumption DEF LocalDay
<1> QED
  BY <1>1, GateAssumption DEF Days

LEMMA GapFollows ==
  ASSUME GateTypeOK, OneRowPerEvent, Stamped, Alternate
  PROVE  GapExplained
<1>1. \A i \in DOMAIN sent : sent[i].time \in 0..MaxHour
  <2>1. \A e \in Sent : e.time \in 0..MaxHour
    BY DEF Sent
  <2> QED
    BY <2>1, SentType
<1> SUFFICES ASSUME NEW day \in Days
             PROVE  /\ Explained(DailyCount(day), {t \in 0..MaxHour : LocalDay(t) = day})
                    /\ \A h \in 0..(HoursPerDay - 1) :
                         Explained(HourlyCount(day, h),
                                   {t \in 0..MaxHour : LocalDay(t) = day /\ LocalHour(t) = h})
  BY DEF GapExplained
<1>2. day \in Int
  BY DaysType
<1>3. Explained(DailyCount(day), {t \in 0..MaxHour : LocalDay(t) = day})
  <2> DEFINE times == {t \in 0..MaxHour : LocalDay(t) = day}
  <2>1. DayStart(day) \in Int /\ DayStart(day + 1) \in Int
    BY <1>2, DayTimes
  <2>2. ASSUME NEW i \in DOMAIN sent
        PROVE  sent[i].time \in times
                 <=> DayStart(day) <= sent[i].time /\ sent[i].time < DayStart(day + 1)
    <3>1. sent[i].time \in 0..MaxHour /\ sent[i].time \in Int
      BY <1>1
    <3>2. LocalDay(sent[i].time) = day
            <=> DayStart(day) <= sent[i].time /\ sent[i].time < DayStart(day + 1)
      BY <1>2, <3>1, DayTimes
    <3> QED
      BY <3>1, <3>2
  <2> HIDE DEF times
  <2>3. Explained(GetCount(DayStart(day), DayStart(day + 1)), times)
    BY <2>1, <2>2, GapBound
  <2> QED
    BY <2>3 DEF DailyCount, times
<1>4. ASSUME NEW h \in 0..(HoursPerDay - 1)
      PROVE  Explained(HourlyCount(day, h), {t \in 0..MaxHour : LocalDay(t) = day /\ LocalHour(t) = h})
  <2> DEFINE times == {t \in 0..MaxHour : LocalDay(t) = day /\ LocalHour(t) = h}
  <2>1. /\ DayStart(day) + h \in Int /\ DayStart(day) + h + 1 \in Int
        /\ \A i \in DOMAIN sent : sent[i].time \in times
             <=> DayStart(day) + h <= sent[i].time /\ sent[i].time < DayStart(day) + h + 1
    BY <1>1, <1>2, HourTimes
  <2> HIDE DEF times
  <2>2. Explained(GetCount(DayStart(day) + h, DayStart(day) + h + 1), times)
    BY <2>1, GapBound
  <2> QED
    BY <2>2 DEF HourlyCount, times
<1> QED
  BY <1>3, <1>4

-----------------------------------------------------------------------------
\* The rows are finitely many: one per event at most.
LEMMA RowsFinite ==
  ASSUME GateTypeOK, OneRowPerEvent, NEW S \in SUBSET Rows
  PROVE  IsFiniteSet(S) /\ Cardinality(S) \in Nat
<1>1. \A r \in Rows : r \in (DOMAIN sent) \X {1}
  <2> SUFFICES ASSUME NEW r \in Rows PROVE r \in (DOMAIN sent) \X {1}
    OBVIOUS
  <2>1. PICK i \in DOMAIN sent : r = <<i, 1>>
    BY RowsOnce
  <2> QED
    BY <2>1
<1>2. IsFiniteSet((DOMAIN sent) \X {1})
  <2>1. IsFiniteSet(DOMAIN sent) /\ IsFiniteSet({1})
    BY SentFinite, FS_Singleton
  <2> HIDE DEF GateTypeOK
  <2> QED
    BY <2>1, FS_Product
<1>3. Rows \subseteq (DOMAIN sent) \X {1}
  BY <1>1
<1> QED
  BY <1>2, <1>3, FS_Subset, FS_CardinalityType

LEMMA RowType ==
  ASSUME GateTypeOK, OneRowPerEvent, NEW r \in Rows
  PROVE  TimeOf(r) \in Nat
BY RowsOnce, SentType DEF TimeOf

-----------------------------------------------------------------------------
\* The rows of a week are those of its days.
LEMMA WeekTimes ==
  ASSUME NEW t \in Int, NEW week \in Int
  PROVE  /\ WeekOf(week) \subseteq Int
         /\ LocalDay(t) \in WeekOf(week)
              <=> DayStart(week * DaysPerWeek) <= t /\ t < DayStart((week + 1) * DaysPerWeek)
<1> DEFINE first == week * DaysPerWeek
           after == (week + 1) * DaysPerWeek
           day == (t + UtcOffset) \div HoursPerDay
<1>1. HoursPerDay \in Nat \ {0} /\ UtcOffset \in Nat /\ first \in Int /\ after \in Int
  BY GateAssumption
<1>2. day \in Int /\ day * HoursPerDay <= t + UtcOffset /\ t + UtcOffset < (day + 1) * HoursPerDay
  BY <1>1, Division
<1> HIDE DEF first, after, day
<1>3. ASSUME NEW q \in Int
      PROVE  q <= day <=> q * HoursPerDay <= t + UtcOffset
  <2>1. CASE q <= day
    <3>1. q * HoursPerDay <= day * HoursPerDay
      BY <1>1, <1>2, <2>1
    <3>2. q * HoursPerDay \in Int /\ day * HoursPerDay \in Int
      BY <1>1, <1>2
    <3> QED
      BY <1>1, <1>2, <2>1, <3>1, <3>2
  <2>2. CASE day + 1 <= q
    <3>1. (day + 1) * HoursPerDay <= q * HoursPerDay
      BY <1>1, <1>2, <2>2
    <3>2. q * HoursPerDay \in Int /\ (day + 1) * HoursPerDay \in Int
      BY <1>1, <1>2
    <3>3. ~(q * HoursPerDay <= t + UtcOffset)
      BY <1>1, <1>2, <3>1, <3>2
    <3> QED
      BY <1>2, <2>2, <3>3
  <2> QED
    BY <1>2, <2>1, <2>2
<1>4. day \in first..(after - 1)
        <=> first * HoursPerDay <= t + UtcOffset /\ ~(after * HoursPerDay <= t + UtcOffset)
  BY <1>1, <1>2, <1>3
<1>5. first * HoursPerDay \in Int /\ after * HoursPerDay \in Int
  BY <1>1
<1>6. day \in first..(after - 1)
        <=> first * HoursPerDay - UtcOffset <= t /\ t < after * HoursPerDay - UtcOffset
  BY <1>1, <1>4, <1>5
<1> QED
  BY <1>1, <1>6 DEF LocalDay, WeekOf, DayStart, first, after, day

LEMMA DayRows ==
  ASSUME GateTypeOK, OneRowPerEvent, NEW week \in Int, NEW day \in WeekOf(week)
  PROVE  /\ day \in Int
         /\ {r \in WeekRows(week) : LocalDay(TimeOf(r)) = day} = Between(DayStart(day), DayStart(day + 1))
<1>1. day \in Int
  BY WeekTimes
<1>2. ASSUME NEW r \in Rows
      PROVE  r \in {q \in WeekRows(week) : LocalDay(TimeOf(q)) = day}
               <=> r \in Between(DayStart(day), DayStart(day + 1))
  <2>1. TimeOf(r) \in Int
    BY RowType
  <2>2. LocalDay(TimeOf(r)) = day <=> DayStart(day) <= TimeOf(r) /\ TimeOf(r) < DayStart(day + 1)
    BY <1>1, <2>1, DayTimes
  <2>3. r \in WeekRows(week) <=> LocalDay(TimeOf(r)) \in WeekOf(week)
    BY <2>1, WeekTimes DEF WeekRows, Between
  <2> QED
    BY <2>2, <2>3 DEF Between
<1> QED
  BY <1>1, <1>2 DEF WeekRows, Between

LEMMA HourRows ==
  ASSUME GateTypeOK, OneRowPerEvent, NEW week \in Int, NEW day \in WeekOf(week),
         NEW h \in 0..(HoursPerDay - 1)
  PROVE  Between(DayStart(day) + h, DayStart(day) + h + 1)
           \subseteq {r \in WeekRows(week) : LocalHour(TimeOf(r)) = h}
<1>1. day \in Int
  BY WeekTimes
<1> SUFFICES ASSUME NEW r \in Between(DayStart(day) + h, DayStart(day) + h + 1)
             PROVE  r \in WeekRows(week) /\ LocalHour(TimeOf(r)) = h
  OBVIOUS
<1>2. r \in Rows /\ DayStart(day) + h <= TimeOf(r) /\ TimeOf(r) < DayStart(day) + h + 1
  BY DEF Between
<1>3. TimeOf(r) \in Int
  BY <1>2, RowType
<1>4. LocalDay(TimeOf(r)) = day /\ LocalHour(TimeOf(r)) = h
  BY <1>1, <1>2, <1>3, HourTimes
<1> QED
  BY <1>2, <1>3, <1>4, WeekTimes DEF WeekRows, Between

-----------------------------------------------------------------------------
(***************************************************************************)
(* Sums.                                                                   *)
(***************************************************************************)
\* g[s] is the sum of v over s, for the subsets s of S: what the folds of the
\* community modules choose.
Sums(g, v, S) ==
  \A s \in SUBSET S :
    g[s] = IF s = {} THEN 0 ELSE v[CHOOSE x \in s : TRUE] + g[s \ {CHOOSE x \in s : TRUE}]

SumsOnly(g, v, S) == Sums(g, v, S) /\ g = [s \in SUBSET S |-> g[s]]

\* The rows R fall into parts, one per key in S; v is what each part has.
Parts(S, R, key, part) ==
  /\ IsFiniteSet(S) /\ IsFiniteSet(R)
  /\ key \in [R -> S] /\ part \in [S -> SUBSET R]
  /\ \A d \in S : \A r \in R : r \in part[d] <=> key[r] = d
Sizes(v, part, S) == \A d \in S : v[d] = Cardinality(part[d])

\* The parts of a finite set, one per key, add up to the set.
LEMMA PartsAddUp ==
  ASSUME NEW S, NEW R, NEW key, NEW part, Parts(S, R, key, part), NEW v, Sizes(v, part, S)
  PROVE  /\ \E h : SumsOnly(h, v, S)
         /\ \A g : Sums(g, v, S) => g[S] = Cardinality(R)
<1> USE DEF Parts, Sizes
<1> DEFINE parts(s) == {r \in R : key[r] \in s}
           h == [s \in SUBSET S |-> Cardinality(parts(s))]
<1>1. ASSUME NEW s \in SUBSET S, s # {}
      PROVE  h[s] = v[CHOOSE x \in s : TRUE] + h[s \ {CHOOSE x \in s : TRUE}]
  <2> DEFINE x == CHOOSE x \in s : TRUE
             one == part[x]
  <2>1. x \in s /\ x \in S
    BY <1>1
  <2> HIDE DEF x
  <2>2. parts(s) = parts(s \ {x}) \cup one /\ parts(s \ {x}) \cap one = {}
    BY <2>1
  <2>3. parts(s \ {x}) \in SUBSET R /\ one \in SUBSET R
    BY <2>1
  <2>4. h[s] = Cardinality(parts(s)) /\ h[s \ {x}] = Cardinality(parts(s \ {x})) /\ v[x] = Cardinality(one)
    BY <2>1
  <2> HIDE DEF parts, h, one
  <2>5. /\ IsFiniteSet(parts(s \ {x})) /\ Cardinality(parts(s \ {x})) \in Nat
        /\ IsFiniteSet(one) /\ Cardinality(one) \in Nat
    BY <2>3, FS_Subset, FS_CardinalityType
  <2>6. Cardinality(parts(s \ {x}) \cup one)
          = Cardinality(parts(s \ {x})) + Cardinality(one) - Cardinality(parts(s \ {x}) \cap one)
    BY <2>5, FS_Union
  <2>7. Cardinality(parts(s \ {x}) \cap one) = 0
    BY <2>2, FS_EmptySet
  <2>8. Cardinality(parts(s)) = Cardinality(parts(s \ {x}) \cup one)
    BY <2>2
  <2>9. h[s] = v[x] + h[s \ {x}]
    <3> DEFINE a == Cardinality(parts(s \ {x}))
               b == Cardinality(one)
               c == Cardinality(parts(s \ {x}) \cap one)
    <3>1. h[s] = a + b - c /\ c = 0 /\ a \in Nat /\ b \in Nat /\ h[s \ {x}] = a /\ v[x] = b
      BY <2>4, <2>5, <2>6, <2>7, <2>8
    <3> HIDE DEF a, b, c
    <3> QED
      BY <3>1
  <2> QED
    BY <2>9 DEF x
<1>2. h[{}] = 0
  <2>1. parts({}) = {} /\ h[{}] = Cardinality(parts({}))
    OBVIOUS
  <2> QED
    BY <2>1, FS_EmptySet
<1>3. Sums(h, v, S)
  <2> HIDE DEF h
  <2> QED
    BY <1>1, <1>2 DEF Sums
<1>4. h[S] = Cardinality(R)
  <2>1. parts(S) = R
    OBVIOUS
  <2> QED
    BY <2>1
<1>5. ASSUME NEW g, Sums(g, v, S)
      PROVE  g[S] = h[S]
  <2> DEFINE G == {s \in SUBSET S : g[s] = h[s]}
  <2> HIDE DEF h
  <2>1. {} \in G
    BY <1>3, <1>5 DEF Sums
  <2>2. ASSUME NEW s \in SUBSET S, s # {}
        PROVE  \E x \in s : s \ {x} \in G => s \in G
    <3> DEFINE x == CHOOSE x \in s : TRUE
    <3>1. x \in s
      BY <2>2
    <3>2. g[s] = v[x] + g[s \ {x}] /\ h[s] = v[x] + h[s \ {x}]
      BY <1>3, <1>5, <2>2 DEF Sums
    <3> HIDE DEF x
    <3>3. s \ {x} \in G => s \in G
      BY <3>2
    <3> QED
      BY <3>1, <3>3
  <2> HIDE DEF G
  <2>3. S \in G
    BY <2>1, <2>2, SubsetInduction
  <2> QED
    BY <2>3 DEF G
<1>6. h = [s \in SUBSET S |-> h[s]]
  OBVIOUS
<1> HIDE DEF h
<1> QED
  BY <1>3, <1>4, <1>5, <1>6 DEF SumsOnly

\* The totals of get_weekly_summary over the days of f.
OpensOf(f) == FoldFunction(LAMBDA a, b : a.open + b, 0, f)
ClosesOf(f) == FoldFunction(LAMBDA a, b : a.close + b, 0, f)

LEMMA OpensAddUp ==
  ASSUME NEW S, NEW R, NEW key, NEW part, Parts(S, R, key, part),
         NEW f, DOMAIN f = S, \A d \in S : f[d].open = Cardinality(part[d])
  PROVE  OpensOf(f) = Cardinality(R)
<1> DEFINE v == [d \in S |-> f[d].open]
           Folds(g) == g = [s \in SUBSET S |-> IF s = {} THEN 0
                              ELSE f[CHOOSE x \in s : TRUE].open + g[s \ {CHOOSE x \in s : TRUE}]]
           g == CHOOSE g : Folds(g)
<1>1. \A s \in SUBSET S : s # {} => v[CHOOSE x \in s : TRUE] = f[CHOOSE x \in s : TRUE].open
  OBVIOUS
<1>2. /\ \E h : SumsOnly(h, v, S)
      /\ \A k : Sums(k, v, S) => k[S] = Cardinality(R)
  <2>1. Sizes(v, part, S)
    BY DEF Sizes
  <2> HIDE DEF v
  <2> QED
    BY <2>1, PartsAddUp
<1> HIDE DEF v
<1>3. \E h : Folds(h)
  <2>1. PICK h : SumsOnly(h, v, S)
    BY <1>2
  <2>2. \A s \in SUBSET S : h[s] = IF s = {} THEN 0
                   ELSE f[CHOOSE x \in s : TRUE].open + h[s \ {CHOOSE x \in s : TRUE}]
    BY <1>1, <2>1 DEF Sums, SumsOnly
  <2>3. Folds(h)
    BY <2>1, <2>2 DEF SumsOnly
  <2> HIDE DEF Folds
  <2> QED
    BY <2>3
<1>4. OpensOf(f) = g[S]
  BY DEF OpensOf, FoldFunction, FoldFunctionOnSet, MapThenFoldSet
<1>5. Folds(g)
  <2> HIDE DEF Folds
  <2> QED
    BY <1>3
<1> HIDE DEF g
<1>6. Sums(g, v, S)
  BY <1>1, <1>5 DEF Sums
<1> QED
  BY <1>2, <1>4, <1>6

LEMMA ClosesAddUp ==
  ASSUME NEW S, NEW R, NEW key, NEW part, Parts(S, R, key, part),
         NEW f, DOMAIN f = S, \A d \in S : f[d].close = Cardinality(part[d])
  PROVE  ClosesOf(f) = Cardinality(R)
<1> DEFINE v == [d \in S |-> f[d].close]
           Folds(g) == g = [s \in SUBSET S |-> IF s = {} THEN 0
                              ELSE f[CHOOSE x \in s : TRUE].close + g[s \ {CHOOSE x \in s : TRUE}]]
           g == CHOOSE g : Folds(g)
<1>1. \A s \in SUBSET S : s # {} => v[CHOOSE x \in s : TRUE] = f[CHOOSE x \in s : TRUE].close
  OBVIOUS
<1>2. /\ \E h : SumsOnly(h, v, S)
      /\ \A k : Sums(k, v, S) => k[S] = Cardinality(R)
  <2>1. Sizes(v, part, S)
    BY DEF Sizes
  <2> HIDE DEF v
  <2> QED
    BY <2>1, PartsAddUp
<1> HIDE DEF v
<1>3. \E h : Folds(h)
  <2>1. PICK h : SumsOnly(h, v, S)
    BY <1>2
  <2>2. \A s \in SUBSET S : h[s] = IF s = {} THEN 0
                   ELSE f[CHOOSE x \in s : TRUE].close + h[s \ {CHOOSE x \in s : TRUE}]
    BY <1>1, <2>1 DEF Sums, SumsOnly
  <2>3. Folds(h)
    BY <2>1, <2>2 DEF SumsOnly
  <2> HIDE DEF Folds
  <2> QED
    BY <2>3
<1>4. ClosesOf(f) = g[S]
  BY DEF ClosesOf, FoldFunction, FoldFunctionOnSet, MapThenFoldSet
<1>5. Folds(g)
  <2> HIDE DEF Folds
  <2> QED
    BY <1>3
<1> HIDE DEF g
<1>6. Sums(g, v, S)
  BY <1>1, <1>5 DEF Sums
<1> QED
  BY <1>2, <1>4, <1>6

-----------------------------------------------------------------------------
\* A week without rows has no hours, and no peak.
LEMMA NoCounts ==
  ASSUME NEW f, f = [x \in {} |-> f[x]] PROVE f = <<>>
<1>1. f \in Seq({})
  OBVIOUS
<1> QED
  BY <1>1

\* The peak is one of the counts, and none is above it.
LEMMA PeakTops ==
  ASSUME NEW D \in SUBSET Nat, NEW counts \in [D -> Nat],
         NEW bound \in Nat, \A h \in D : counts[h] <= bound
  PROVE  /\ Peak(counts).count \in Nat
         /\ \A h \in D : counts[h] <= Peak(counts).count
<1>1. CASE counts = <<>>
  <2>1. D = {} /\ Peak(counts).count = 0
    BY <1>1 DEF Peak
  <2> QED
    BY <2>1
<1>2. CASE counts # <<>>
  <2>1. D # {}
    <3>1. SUFFICES ASSUME D = {} PROVE FALSE
      OBVIOUS
    <3>2. counts = [x \in {} |-> counts[x]]
      BY <3>1
    <3> QED
      BY <1>2, <3>2, NoCounts
  <2> DEFINE missing == {bound - counts[h] : h \in D}
  <2>2. missing \in SUBSET Nat /\ missing # {}
    <3>1. \A h \in D : bound - counts[h] \in Nat
      <4> TAKE h \in D
      <4>1. counts[h] \in Nat /\ counts[h] <= bound
        OBVIOUS
      <4> QED
        BY <4>1
    <3> QED
      BY <2>1, <3>1
  <2>3. PICK m \in missing : \A n \in missing : m <= n
    <3> HIDE DEF missing
    <3> QED
      BY <2>2, LeastElement
  <2>4. PICK g \in D : m = bound - counts[g]
    BY <2>3
  <2>5. \A k \in D : counts[k] <= counts[g]
    <3> TAKE k \in D
    <3>1. m <= bound - counts[k]
      BY <2>3
    <3> QED
      BY <2>4, <3>1
  <2> DEFINE tops == {h \in D : counts[h] = counts[g]}
  <2>6. tops \in SUBSET Nat /\ tops # {}
    OBVIOUS
  <2>7. PICK first \in tops : \A k \in tops : first <= k
    <3> HIDE DEF tops
    <3> QED
      BY <2>6, LeastElement
  <2> DEFINE Tops(h) == \A k \in D : counts[h] > counts[k] \/ (counts[h] = counts[k] /\ h <= k)
             busiest == CHOOSE h \in D : Tops(h)
  <2>8. Tops(first)
    <3> SUFFICES ASSUME NEW k \in D PROVE counts[first] > counts[k] \/ (counts[first] = counts[k] /\ first <= k)
      OBVIOUS
    <3>1. counts[first] = counts[g] /\ counts[k] <= counts[g] /\ counts[k] \in Nat /\ counts[g] \in Nat
      BY <2>5, <2>7
    <3>2. CASE counts[k] = counts[g]
      BY <2>7, <3>1, <3>2
    <3>3. CASE counts[k] # counts[g]
      BY <3>1, <3>3
    <3> QED
      BY <3>2, <3>3
  <2>9. busiest \in D /\ Tops(busiest)
    <3> HIDE DEF Tops
    <3> QED
      BY <2>7, <2>8
  <2>10. Peak(counts) = [hour |-> busiest, count |-> counts[busiest]]
    BY <1>2 DEF Peak
  <2>11. Peak(counts).count = counts[busiest]
    BY <2>10
  <2> HIDE DEF busiest
  <2> QED
    BY <2>9, <2>11
<1> QED
  BY <1>1, <1>2

-----------------------------------------------------------------------------
\* What a tally counts is some of the rows.
LEMMA TallyType ==
  ASSUME GateTypeOK, OneRowPerEvent, NEW rws \in SUBSET Rows
  PROVE  /\ Tally(rws).open \in Nat /\ Tally(rws).close \in Nat
         /\ Tally(rws).open <= Cardinality(rws) /\ Tally(rws).close <= Cardinality(rws)
         /\ Cardinality(rws) \in Nat
<1> DEFINE opens == {r \in rws : sent[r[1]].event = "open"}
           closes == {r \in rws : sent[r[1]].event = "close"}
<1>1. Tally(rws).open = Cardinality(opens) /\ Tally(rws).close = Cardinality(closes)
  BY DEF Tally
<1>2. opens \in SUBSET rws /\ closes \in SUBSET rws
  OBVIOUS
<1> HIDE DEF opens, closes
<1>3. IsFiniteSet(rws) /\ Cardinality(rws) \in Nat
  BY RowsFinite
<1>4. /\ IsFiniteSet(opens) /\ Cardinality(opens) <= Cardinality(rws)
      /\ IsFiniteSet(closes) /\ Cardinality(closes) <= Cardinality(rws)
  BY <1>2, <1>3, FS_Subset
<1>5. Cardinality(opens) \in Nat /\ Cardinality(closes) \in Nat
  BY <1>4, FS_CardinalityType
<1> QED
  BY <1>1, <1>3, <1>4, <1>5

\* Of more rows a tally counts no fewer.
LEMMA TallyGrows ==
  ASSUME GateTypeOK, OneRowPerEvent, NEW more \in SUBSET Rows, NEW rws \in SUBSET more
  PROVE  Tally(rws).open <= Tally(more).open /\ Tally(rws).close <= Tally(more).close
<1> DEFINE opens(q) == {r \in q : sent[r[1]].event = "open"}
           closes(q) == {r \in q : sent[r[1]].event = "close"}
<1>1. \A q : Tally(q).open = Cardinality(opens(q)) /\ Tally(q).close = Cardinality(closes(q))
  BY DEF Tally
<1>2. /\ opens(rws) \in SUBSET opens(more) /\ closes(rws) \in SUBSET closes(more)
      /\ opens(more) \in SUBSET Rows /\ closes(more) \in SUBSET Rows
  OBVIOUS
<1> HIDE DEF opens, closes
<1>3. IsFiniteSet(opens(more)) /\ IsFiniteSet(closes(more))
  BY <1>2, RowsFinite
<1>4. Cardinality(opens(rws)) <= Cardinality(opens(more)) /\ Cardinality(closes(rws)) <= Cardinality(closes(more))
  BY <1>2, <1>3, FS_Subset
<1> QED
  BY <1>1, <1>4

\* The peaks of a week top every hour of its days.
LEMMA PeaksTop ==
  ASSUME GateTypeOK, OneRowPerEvent, NEW week \in Int, NEW day \in WeekOf(week),
         NEW h \in 0..(HoursPerDay - 1)
  PROVE  LET count == HourlyCount(day, h)
         IN  /\ count.open <= PeakOpen(week).count /\ count.close <= PeakClose(week).count
             /\ count.open + count.close <= PeakTotal(week).count
<1> DEFINE rws == WeekRows(week)
           D == {LocalHour(TimeOf(r)) : r \in rws}
           of(k) == {r \in rws : LocalHour(TimeOf(r)) = k}
           hourly == WeeklyHourly(week)
           some == Between(DayStart(day) + h, DayStart(day) + h + 1)
           bound == Cardinality(rws)
<1>1. rws \in SUBSET Rows /\ \A k : of(k) \in SUBSET rws
  BY DEF WeekRows, Between
<1>2. some \in SUBSET of(h)
  BY HourRows
<1>3. D \in SUBSET Nat
  <2> SUFFICES ASSUME NEW r \in rws PROVE LocalHour(TimeOf(r)) \in Nat
    OBVIOUS
  <2>1. TimeOf(r) \in Nat
    BY <1>1, RowType
  <2> QED
    BY <2>1, GateAssumption DEF LocalHour
<1>4. hourly = [k \in D |-> Tally(of(k))]
  BY DEF WeeklyHourly
<1>5. HourlyCount(day, h) = Tally(some)
  BY DEF HourlyCount, GetCount
<1>6. h \notin D => of(h) = {}
  OBVIOUS
<1>7. \A k \in D : of(k) \in SUBSET Rows
  BY <1>1
<1>8. some \in SUBSET Rows
  BY DEF Between
<1> HIDE DEF rws, D, hourly, some, of, bound
<1>9. ASSUME NEW k \in D
      PROVE  /\ hourly[k].open \in Nat /\ hourly[k].close \in Nat
             /\ hourly[k].open <= bound /\ hourly[k].close <= bound
  <2>1. hourly[k] = Tally(of(k))
    BY <1>4
  <2>2. of(k) \in SUBSET rws /\ of(k) \in SUBSET Rows
    BY <1>1, <1>7
  <2>3. Tally(of(k)).open \in Nat /\ Tally(of(k)).close \in Nat
    BY <2>2, TallyType
  <2>4. Tally(of(k)).open <= Tally(rws).open /\ Tally(of(k)).close <= Tally(rws).close
    BY <1>1, <2>2, TallyGrows
  <2>5. /\ Tally(rws).open \in Nat /\ Tally(rws).close \in Nat /\ bound \in Nat
        /\ Tally(rws).open <= bound /\ Tally(rws).close <= bound
    BY <1>1, TallyType DEF bound
  <2> QED
    BY <2>1, <2>3, <2>4, <2>5
<1>10. bound \in Nat
  BY <1>1, TallyType DEF bound
<1> DEFINE opens == Opens(hourly)
           closes == Closes(hourly)
           totals == Totals(hourly)
<1>11. /\ opens = [k \in D |-> hourly[k].open] /\ closes = [k \in D |-> hourly[k].close]
       /\ totals = [k \in D |-> hourly[k].open + hourly[k].close]
  BY <1>4 DEF Opens, Closes, Totals
<1>12. opens \in [D -> Nat] /\ closes \in [D -> Nat] /\ totals \in [D -> Nat]
  BY <1>9, <1>11
<1>13. \A k \in D : opens[k] <= bound /\ closes[k] <= bound /\ totals[k] <= bound + bound
  BY <1>9, <1>10, <1>11
<1>14. /\ PeakOpen(week) = Peak(opens) /\ PeakClose(week) = Peak(closes) /\ PeakTotal(week) = Peak(totals)
  BY DEF PeakOpen, PeakClose, PeakTotal, hourly
<1> HIDE DEF opens, closes, totals
<1>15. Peak(opens).count \in Nat /\ \A k \in D : opens[k] <= Peak(opens).count
  BY <1>3, <1>10, <1>12, <1>13, PeakTops
<1>16. Peak(closes).count \in Nat /\ \A k \in D : closes[k] <= Peak(closes).count
  BY <1>3, <1>10, <1>12, <1>13, PeakTops
<1>17. Peak(totals).count \in Nat /\ \A k \in D : totals[k] <= Peak(totals).count
  <2>1. bound + bound \in Nat
    BY <1>10
  <2> QED
    BY <1>3, <2>1, <1>12, <1>13, PeakTops
<1>18. Tally(some).open \in Nat /\ Tally(some).close \in Nat
  BY <1>8, TallyType
<1>19. CASE h \in D
  <2>1. Tally(some).open <= Tally(of(h)).open /\ Tally(some).close <= Tally(of(h)).close
    BY <1>2, <1>7, <1>19, TallyGrows
  <2>2. hourly[h] = Tally(of(h)) /\ hourly[h].open \in Nat /\ hourly[h].close \in Nat
    BY <1>4, <1>9, <1>19
  <2>3. opens[h] = hourly[h].open /\ closes[h] = hourly[h].close /\ totals[h] = hourly[h].open + hourly[h].close
    BY <1>11, <1>19
  <2> QED
    BY <1>5, <1>14, <1>15, <1>16, <1>17, <1>18, <1>19, <2>1, <2>2, <2>3
<1>20. CASE h \notin D
  <2>1. some = {}
    BY <1>2, <1>6, <1>20
  <2>2. Cardinality(some) = 0
    BY <2>1, FS_EmptySet
  <2>3. Tally(some).open = 0 /\ Tally(some).close = 0
    BY <1>8, <1>18, <2>2, TallyType
  <2> QED
    BY <1>5, <1>14, <1>15, <1>16, <1>17, <2>3
<1> QED
  BY <1>19, <1>20

-----------------------------------------------------------------------------
\* The rows of one kind of a week fall into its days.
LEMMA KindParts ==
  ASSUME GateTypeOK, OneRowPerEvent, NEW week \in Int, NEW kind,
         NEW R, R = {r \in WeekRows(week) : sent[r[1]].event = kind}
  PROVE  LET part == [d \in WeekOf(week) |->
                        {r \in {q \in WeekRows(week) : LocalDay(TimeOf(q)) = d} : sent[r[1]].event = kind}]
         IN  Parts(WeekOf(week), R, [r \in R |-> LocalDay(TimeOf(r))], part)
<1> DEFINE S == WeekOf(week)
           key == [r \in R |-> LocalDay(TimeOf(r))]
           part == [d \in WeekOf(week) |->
                      {r \in {q \in WeekRows(week) : LocalDay(TimeOf(q)) = d} : sent[r[1]].event = kind}]
<1>1. IsFiniteSet(S)
  <2>1. week * DaysPerWeek \in Int /\ (week + 1) * DaysPerWeek - 1 \in Int
    BY GateAssumption
  <2> QED
    BY <2>1, FS_Interval DEF WeekOf
<1>2. R \subseteq Rows
  BY DEF WeekRows, Between
<1>3. IsFiniteSet(R)
  BY <1>2, RowsFinite
<1>4. ASSUME NEW r \in R PROVE LocalDay(TimeOf(r)) \in S
  <2>1. r \in Rows /\ TimeOf(r) \in Int
    BY <1>2, RowType
  <2>2. DayStart(week * DaysPerWeek) <= TimeOf(r) /\ TimeOf(r) < DayStart((week + 1) * DaysPerWeek)
    BY DEF WeekRows, Between
  <2> QED
    BY <2>1, <2>2, WeekTimes
<1>5. key \in [R -> S]
  BY <1>4
<1>6. part \in [S -> SUBSET R]
  OBVIOUS
<1>7. \A d \in S : \A r \in R : r \in part[d] <=> key[r] = d
  OBVIOUS
<1> HIDE DEF S, key, part
<1>8. Parts(S, R, key, part)
  BY <1>1, <1>3, <1>5, <1>6, <1>7 DEF Parts
<1> QED
  BY <1>8 DEF S, key, part

\* The days of a week add up to the count of the week.
LEMMA DaysAddUp ==
  ASSUME GateTypeOK, OneRowPerEvent, NEW week \in Int
  PROVE  WeeklyTotal(week) = GetCount(DayStart(week * DaysPerWeek), DayStart((week + 1) * DaysPerWeek))
<1> DEFINE S == WeekOf(week)
           daily == WeeklyDaily(week)
           of(d) == {r \in WeekRows(week) : LocalDay(TimeOf(r)) = d}
           R(kind) == {r \in WeekRows(week) : sent[r[1]].event = kind}
           key(kind) == [r \in R(kind) |-> LocalDay(TimeOf(r))]
           part(kind) == [d \in S |-> {r \in {q \in WeekRows(week) : LocalDay(TimeOf(q)) = d} : sent[r[1]].event = kind}]
<1>1. DOMAIN daily = S /\ \A d \in S : daily[d] = Tally(of(d))
  BY DEF WeeklyDaily
<1>2. \A d \in S : /\ daily[d].open = Cardinality(part("open")[d])
                   /\ daily[d].close = Cardinality(part("close")[d])
  <2> TAKE d \in S
  <2>1. /\ part("open")[d] = {r \in of(d) : sent[r[1]].event = "open"}
        /\ part("close")[d] = {r \in of(d) : sent[r[1]].event = "close"}
    OBVIOUS
  <2> HIDE DEF of, part
  <2>2. /\ daily[d].open = Cardinality({r \in of(d) : sent[r[1]].event = "open"})
        /\ daily[d].close = Cardinality({r \in of(d) : sent[r[1]].event = "close"})
    <3>1. daily[d] = Tally(of(d))
      BY <1>1
    <3> HIDE DEF daily
    <3> QED
      BY <3>1 DEF Tally
  <2> QED
    BY <2>1, <2>2
<1>3. Parts(S, R("open"), key("open"), part("open"))
  BY KindParts
<1>4. Parts(S, R("close"), key("close"), part("close"))
  BY KindParts
<1>5. GetCount(DayStart(week * DaysPerWeek), DayStart((week + 1) * DaysPerWeek))
        = [open |-> Cardinality(R("open")), close |-> Cardinality(R("close"))]
  BY DEF GetCount, Tally, WeekRows
<1> DEFINE o == part("open")
           c == part("close")
           ko == key("open")
           kc == key("close")
           ro == R("open")
           rc == R("close")
<1>6. Parts(S, ro, ko, o) /\ Parts(S, rc, kc, c)
  BY <1>3, <1>4
<1>7. \A d \in S : daily[d].open = Cardinality(o[d]) /\ daily[d].close = Cardinality(c[d])
  BY <1>2
<1>8. WeeklyTotal(week) = [open |-> OpensOf(daily), close |-> ClosesOf(daily)]
  BY DEF WeeklyTotal, OpensOf, ClosesOf
<1> HIDE DEF S, daily, o, c, ko, kc, ro, rc
<1>9. OpensOf(daily) = Cardinality(ro)
  BY <1>1, <1>6, <1>7, OpensAddUp
<1>10. ClosesOf(daily) = Cardinality(rc)
  BY <1>1, <1>6, <1>7, ClosesAddUp
<1> QED
  BY <1>5, <1>8, <1>9, <1>10 DEF ro, rc

LEMMA WeeklyFollows ==
  ASSUME GateTypeOK, OneRowPerEvent
  PROVE  WeeklyAgrees
<1> SUFFICES ASSUME NEW week \in {day \div DaysPerWeek : day \in Days}
             PROVE  /\ WeeklyTotal(week)
                         = GetCount(DayStart(week * DaysPerWeek), DayStart((week + 1) * DaysPerWeek))
                    /\ \A day \in WeekOf(week) :
                         /\ WeeklyDaily(week)[day] = DailyCount(day)
                         /\ \A h \in 0..(HoursPerDay - 1) :
                              LET count == HourlyCount(day, h)
                              IN  /\ count.open <= PeakOpen(week).count
                                  /\ count.close <= PeakClose(week).count
                                  /\ count.open + count.close <= PeakTotal(week).count
  BY DEF WeeklyAgrees
<1>1. week \in Int
  BY DaysType, GateAssumption
<1>2. ASSUME NEW day \in WeekOf(week) PROVE WeeklyDaily(week)[day] = DailyCount(day)
  <2>1. WeeklyDaily(week)[day] = Tally({r \in WeekRows(week) : LocalDay(TimeOf(r)) = day})
    BY DEF WeeklyDaily
  <2> QED
    BY <1>1, <2>1, DayRows DEF DailyCount, GetCount
<1> QED
  BY <1>1, <1>2, DaysAddUp, PeaksTop

LEMMA InitOrder == Init => Stamped /\ Alternate
BY DEF Init, Stamped, Alternate, SameKind, Opposite

-----------------------------------------------------------------------------
\* Every state of the recording of gate events has its type.
THEOREM GateTypeCorrect == Spec => []GateTypeOK
<1>1. GateInv => GateTypeOK
  BY DEF GateInv
<1> QED
  BY InitOK, StepOK, <1>1, PTL DEF Spec

\* An event has one row at most, whatever is sent again and however many
\* processes handle it at the same time.
THEOREM RecordedOnce == Spec => []OneRowPerEvent
<1>1. GateInv => OneRowPerEvent
  BY DEF GateInv
<1> QED
  BY InitOK, StepOK, <1>1, PTL DEF Spec

\* record_event never raises the error again: after a clash the row is there.
THEOREM DuplicateFound ==
  Spec => [](\A s \in Subscriber : task[s].pc = "lookup" => recorded[task[s].id] > 0)
<1>1. GateInv => \A s \in Subscriber : task[s].pc = "lookup" => recorded[task[s].id] > 0
  BY DEF GateInv, InsertHolds
<1> QED
  BY InitOK, StepOK, <1>1, PTL DEF Spec

\* get_count: a gap of more than one between the opens and the closes of a day
\* or an hour is made of gates left open and of events without a row.
THEOREM GapsExplained == Spec => []GapExplained
<1> DEFINE Inv == GateInv /\ Stamped /\ Alternate
<1>1. Init => Inv
  BY InitOK, InitOrder
<1>2. Inv /\ [Next]_vars => Inv'
  BY StepOK, OrderStep DEF GateInv
<1>3. Inv => GapExplained
  BY GapFollows DEF GateInv
<1> HIDE DEF Inv
<1> QED
  BY <1>1, <1>2, <1>3, PTL DEF Spec

\* get_weekly_summary gives every day its count, a total that is theirs, and
\* peaks no hour of the week exceeds.
THEOREM SummariesAgree == Spec => []WeeklyAgrees
<1>1. GateInv => WeeklyAgrees
  BY WeeklyFollows DEF GateInv
<1> QED
  BY InitOK, StepOK, <1>1, PTL DEF Spec
=============================================================================
