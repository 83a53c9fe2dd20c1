--------------------------- MODULE LineBotsProofs ---------------------------
(***************************************************************************)
(* Proofs about the chat bots, for any chats, workers, pool and limits:    *)
(* types, the connections that come back, the deadline of a question and   *)
(* the sliding window of the limiter.                                      *)
(***************************************************************************)
EXTENDS LineBots, FunctionTheorems, FiniteSetTheorems, SequenceTheorems, TLAPS

\* What the handler of a delivery relies on.
JobOK(d, j) ==
  /\ j \in Job
  /\ j.pc = "idle" => ~j.conn
  /\ j.pc \in {"handle", "model", "again", "await", "tool"} => j.conn
  /\ j.pc \notin {"idle", "closing"} => j.left > 0
  /\ j.pc \in {"model", "again", "tool"} => d \in Admin
  /\ j.pc \in {"model", "again"} => j.age <= j.until /\ j.until <= Phases * Deadline

BotsInv ==
  /\ BotsTypeOK
  /\ \A d \in Delivery : JobOK(d, job[d])
  /\ ConnectionsReturned
  /\ serving.call = Orphan => orphans > 0
  /\ OldestFirst /\ QuotaKept /\ CountsEveryCall

-----------------------------------------------------------------------------
LEMMA PoolCounts ==
  /\ \A S \in SUBSET Delivery : IsFiniteSet(S) /\ Cardinality(S) \in Nat
  /\ \A S \in SUBSET Worker : IsFiniteSet(S) /\ Cardinality(S) \in Nat
<1>1. IsFiniteSet(Delivery)
  BY FS_Union, BotsAssumption DEF Delivery
<1> QED
  BY <1>1, FS_Subset, FS_CardinalityType, BotsAssumption

\* The handler of a delivery moves on; it may take a connection if one is free.
LEMMA JobMoves ==
  ASSUME BotsInv, NEW d \in Delivery, NEW j, JobOK(d, j), Put(d, j),
         j.conn => job[d].conn \/ PoolFree > 0,
         calls' \subseteq IF j.pc = "tool" THEN calls \cup {d} ELSE calls \ {d},
         UNCHANGED <<orphans, serving, inTools, busy, window, admitted>>
  PROVE  BotsInv'
<1>1. job \in [Delivery -> Job] /\ calls \subseteq {c \in Admin : job[c].pc = "tool"}
  BY DEF BotsInv, BotsTypeOK
<1>2. /\ job' \in [Delivery -> Job]
      /\ \A c \in Delivery : job'[c] = IF c = d THEN j ELSE job[c]
  BY <1>1 DEF Put, JobOK
<1>3. \A c \in Delivery : JobOK(c, job'[c])
  BY <1>2 DEF BotsInv
<1>4. calls' \subseteq {c \in Admin : job'[c].pc = "tool"}
  BY <1>1, <1>2 DEF JobOK, Delivery
<1>5. BotsTypeOK'
  BY <1>2, <1>4 DEF BotsInv, BotsTypeOK
<1>6. PoolFree' \in 0..PoolSize
  <2>1. Holders' = IF j.conn THEN Holders \cup {d} ELSE Holders \ {d}
    BY <1>2 DEF Holders
  <2>2. d \in Holders <=> job[d].conn
    BY DEF Holders
  <2>3. /\ IsFiniteSet(Holders) /\ Cardinality(Holders) \in Nat /\ Cardinality(Holders') \in Nat
        /\ Cardinality(busy) \in Nat /\ busy' = busy
    <3>1. Holders \subseteq Delivery /\ Holders' \subseteq Delivery /\ busy \subseteq Worker
      BY DEF Holders, Delivery, BotsInv, BotsTypeOK
    <3> QED
      BY <3>1, PoolCounts
  <2>4. \/ Cardinality(Holders') <= Cardinality(Holders)
        \/ Cardinality(Holders') = Cardinality(Holders) + 1 /\ PoolFree > 0
    <3>1. CASE ~j.conn
      <4>1. Holders' \in SUBSET Holders
        BY <2>1, <3>1
      <4> QED
        BY <4>1, <2>3, FS_Subset
    <3>2. CASE j.conn /\ d \in Holders
      <4>1. Holders' = Holders
        BY <2>1, <3>2
      <4> QED
        BY <4>1, <2>3
    <3>3. CASE j.conn /\ d \notin Holders
      <4>1. Holders' = Holders \cup {d}
        BY <2>1, <3>3
      <4> QED
        BY <4>1, <2>2, <2>3, <3>3, FS_AddElement
    <3> QED
      BY <3>1, <3>2, <3>3
  <2>5. PoolFree \in 0..PoolSize /\ inTools' = inTools /\ inTools \in 0..1
    BY DEF BotsInv, ConnectionsReturned
  <2> QED
    BY <2>3, <2>4, <2>5, BotsAssumption DEF PoolFree
<1>7. ConnectionsReturned'
  <2>1. \A c \in Delivery : job'[c].pc = "idle" => ~job'[c].conn
    BY <1>3 DEF JobOK
  <2> QED
    BY <1>6, <2>1 DEF BotsInv, ConnectionsReturned
<1>8. (serving.call = Orphan => orphans > 0)' /\ OldestFirst' /\ QuotaKept' /\ CountsEveryCall'
  BY DEF BotsInv, OldestFirst, QuotaKept, CountsEveryCall
<1>9. \A c \in Delivery : JobOK(c, job[c])'
  BY <1>3 DEF JobOK
<1> QED
  BY <1>5, <1>7, <1>8, <1>9 DEF BotsInv

\* A reply leaves the delivery at its next message or at its end.
LEMMA RepliedOK ==
  ASSUME NEW d \in Delivery, NEW j, JobOK(d, j), j.left > 0
  PROVE  /\ JobOK(d, Replied(j)) /\ Replied(j).pc # "tool" /\ Replied(j).conn = j.conn
         /\ \A kept \in BOOLEAN :
              LET r == [Replied(j) EXCEPT !.conn = kept] IN JobOK(d, r) /\ r.pc # "tool" /\ r.conn = kept
BY DEF JobOK, Replied, Job, Pc, Blocking

LEMMA RaisedOK ==
  ASSUME NEW d \in Delivery, NEW j, JobOK(d, j), j.left > 0
  PROVE  LET r == [Idle EXCEPT !.pc = "closing", !.conn = j.conn] IN
         JobOK(d, r) /\ r.pc # "tool" /\ r.conn = j.conn
BY DEF JobOK, Idle, Job, Pc, Blocking

\* What is left of the deadline, once for each part of the call, ends in time.
LEMMA DeadlineArithmetic ==
  ASSUME NEW age \in Nat, age < Deadline
  PROVE  LET until == age + Phases * (Deadline - age) IN
         until \in Nat /\ age <= until /\ until <= Phases * Deadline
<1>1. Phases \in Nat /\ Phases >= 1 /\ Deadline \in Nat /\ Deadline - age \in Nat
  BY BotsAssumption
<1>2. Phases * (Deadline - age) \in Nat
  BY <1>1
<1>3. Phases * (Deadline - age) = Phases * Deadline - Phases * age
  BY <1>1
<1>4. age <= Phases * age
  BY <1>1
<1>5. Phases * Deadline \in Nat /\ Phases * age \in Nat
  BY <1>1
<1> QED
  BY <1>1, <1>2, <1>3, <1>4, <1>5

LEMMA CallModelKeeps ==
  ASSUME BotsInv, NEW d \in Admin, NEW pc \in {"model", "again"}, job[d].pc \in {"handle", "tool"},
         CallModel(d, pc), d \notin calls, calls' = calls,
         UNCHANGED <<orphans, serving, inTools, busy, window, admitted>>
  PROVE  BotsInv'
<1>1. d \in Delivery /\ JobOK(d, job[d]) /\ job[d].left > 0 /\ job[d].age \in Nat
  BY DEF BotsInv, Delivery, JobOK, Job
<1>2. CASE job[d].age < Deadline
  <2> DEFINE j == [job[d] EXCEPT !.pc = pc, !.until = job[d].age + Phases * (Deadline - job[d].age)]
  <2>1. JobOK(d, j) /\ j.conn = job[d].conn /\ j.pc # "tool"
    BY <1>1, <1>2, DeadlineArithmetic DEF JobOK, Job, Pc, Blocking
  <2>2. Put(d, j)
    BY <1>2 DEF CallModel
  <2> HIDE DEF j
  <2> QED
    BY <1>1, <2>1, <2>2, JobMoves
<1>3. CASE ~(job[d].age < Deadline)
  <2>1. Put(d, Replied(job[d]))
    BY <1>3 DEF CallModel, Reply
  <2> QED
    BY <1>1, <2>1, RepliedOK, JobMoves
<1> QED
  BY <1>2, <1>3

\* Every step of a handler.
LEMMA HandleKeeps ==
  ASSUME BotsInv, NEW d \in Delivery, Handle(d)
  PROVE  BotsInv'
<1>1. /\ JobOK(d, job[d]) /\ job[d] \in Job
      /\ calls \subseteq {c \in Admin : job[c].pc = "tool"}
  BY DEF BotsInv, JobOK, BotsTypeOK
<1>2. job[d].pc # "tool" => d \notin calls
  BY <1>1
<1>3. /\ TakeMessage(d) \/ Connected(d) => job[d].pc \in {"run", "connect"}
      /\ job[d].pc \in {"run", "connect", "handle", "model", "again", "await"} =>
           job[d].left > 0 /\ d \notin calls
  BY <1>1, <1>2 DEF JobOK, TakeMessage, Connected
<1>4. CASE /\ job[d].pc \in {"run", "connect", "handle", "model", "again", "await"}
           /\ Reply(d) /\ UNCHANGED <<toolVars, busy>>
  BY <1>1, <1>3, <1>4, RepliedOK, JobMoves DEF Reply, toolVars
<1>5. CASE /\ job[d].pc \in {"connect", "handle"}
           /\ Raised(d) /\ UNCHANGED <<toolVars, busy>>
  <2>1. CASE d \in Admin
    BY <1>4, <1>5, <2>1 DEF Raised
  <2>2. CASE d \notin Admin
    <3> DEFINE j == [Idle EXCEPT !.pc = "closing", !.conn = job[d].conn]
    <3>1. JobOK(d, j) /\ j.pc # "tool" /\ j.conn = job[d].conn
      BY <1>1, <1>3, <1>5, RaisedOK
    <3>2. Put(d, j)
      BY <1>5, <2>2 DEF Raised
    <3> HIDE DEF j
    <3> QED
      BY <1>3, <1>5, <3>1, <3>2, JobMoves DEF toolVars
  <2> QED
    BY <2>1, <2>2
<1>6. CASE AnswerAtOnce(d)
  BY <1>4, <1>6 DEF AnswerAtOnce
<1>7. CASE TakeMessage(d) \/ Connected(d)
  <2> DEFINE taken == [job[d] EXCEPT !.pc = "handle", !.conn = TRUE]
             waits == [job[d] EXCEPT !.pc = "connect"]
  <2>1. /\ JobOK(d, taken) /\ taken.pc = "handle" /\ taken.conn
        /\ JobOK(d, waits) /\ waits.pc = "connect" /\ waits.conn = job[d].conn
    BY <1>1, <1>3, <1>7 DEF JobOK, Job, Pc, Blocking
  <2>2. \/ Put(d, taken) /\ (job[d].conn \/ PoolFree > 0)
        \/ Put(d, waits)
    BY <1>7 DEF TakeMessage, Connected, Goto
  <2>3. UNCHANGED <<toolVars, busy>>
    BY <1>7 DEF TakeMessage, Connected
  <2> HIDE DEF taken, waits
  <2> QED
    BY <1>3, <1>7, <2>1, <2>2, <2>3, JobMoves DEF toolVars
<1>8. CASE NoConnection(d)
  BY <1>5, <1>8 DEF NoConnection
<1>9. CASE HandleMessage(d)
  <2>1. CASE \E kept \in BOOLEAN : Put(d, [Replied(job[d]) EXCEPT !.conn = kept])
    <3>1. PICK kept \in BOOLEAN : Put(d, [Replied(job[d]) EXCEPT !.conn = kept])
      BY <2>1
    <3> DEFINE j == [Replied(job[d]) EXCEPT !.conn = kept]
    <3>2. JobOK(d, j) /\ j.pc # "tool"
      BY <1>1, <1>3, <1>9, RepliedOK DEF HandleMessage
    <3>3. job[d].conn /\ d \notin calls
      BY <1>1, <1>3, <1>9 DEF HandleMessage, JobOK
    <3>4. Put(d, j)
      BY <3>1
    <3> HIDE DEF j
    <3> QED
      BY <1>9, <3>2, <3>3, <3>4, JobMoves DEF HandleMessage, toolVars
  <2>2. CASE Raised(d)
    BY <1>5, <1>9, <2>2 DEF HandleMessage
  <2> QED
    BY <1>9, <2>1, <2>2 DEF HandleMessage
<1>10. CASE AskUserModel(d)
  <2> DEFINE j == [job[d] EXCEPT !.pc = "await", !.age = 0]
  <2>1. JobOK(d, j) /\ j.pc # "tool" /\ j.conn = job[d].conn
    BY <1>1, <1>10 DEF AskUserModel, JobOK, Job, Pc, Blocking
  <2>2. Put(d, j) /\ d \notin calls /\ UNCHANGED <<toolVars, busy>>
    BY <1>3, <1>10 DEF AskUserModel
  <2> HIDE DEF j
  <2> QED
    BY <2>1, <2>2, JobMoves DEF toolVars
<1>11. CASE UserModelAnswers(d)
  BY <1>4, <1>11 DEF UserModelAnswers
<1>12. CASE Close(d)
  <2>1. JobOK(d, Idle) /\ Idle.pc # "tool" /\ ~Idle.conn
    BY DEF JobOK, Idle, Job, Pc, Blocking
  <2>2. Put(d, Idle) /\ d \notin calls /\ UNCHANGED <<toolVars, busy>>
    BY <1>2, <1>12 DEF Close
  <2> QED
    BY <2>1, <2>2, JobMoves DEF toolVars
<1>13. CASE AskModel(d)
  BY <1>3, <1>13, CallModelKeeps DEF AskModel, toolVars
<1>14. CASE ModelAnswers(d)
  BY <1>4, <1>14 DEF ModelAnswers
<1>15. CASE ModelAsksTools(d)
  <2>1. PICK n \in 1..MaxTools[d] : Put(d, [job[d] EXCEPT !.pc = "tool", !.until = 0, !.tools = n])
    BY <1>15 DEF ModelAsksTools
  <2> DEFINE j == [job[d] EXCEPT !.pc = "tool", !.until = 0, !.tools = n]
  <2>2. d \in Admin
    BY <1>1, <1>15 DEF ModelAsksTools, JobOK
  <2>3. n \in Nat
    BY <2>2, BotsAssumption
  <2>4. JobOK(d, j) /\ j.pc = "tool" /\ j.conn = job[d].conn
    BY <1>1, <1>15, <2>2, <2>3 DEF ModelAsksTools, JobOK, Job, Pc, Blocking
  <2>5. Put(d, j) /\ calls' = calls \cup {d} /\ UNCHANGED <<orphans, serving, inTools, busy, window, admitted>>
    BY <1>15, <2>1 DEF ModelAsksTools
  <2> HIDE DEF j
  <2> QED
    BY <2>4, <2>5, JobMoves
<1>16. CASE ToolAnswered(d)
  <2>1. /\ d \in Admin /\ d \notin calls /\ job[d].pc = "tool" /\ job[d].left > 0
        /\ UNCHANGED <<orphans, serving, inTools, busy, window, admitted>>
    BY <1>1, <1>16 DEF ToolAnswered, JobOK
  <2>2. CASE /\ job[d].tools > 1
             /\ Put(d, [job[d] EXCEPT !.tools = @ - 1])
             /\ calls' = calls \cup {d}
    <3> DEFINE j == [job[d] EXCEPT !.tools = @ - 1]
    <3>1. JobOK(d, j) /\ j.pc = "tool" /\ j.conn = job[d].conn
      BY <1>1, <2>1, <2>2 DEF JobOK, Job, Pc, Blocking
    <3>2. Put(d, j)
      BY <2>2
    <3> HIDE DEF j
    <3> QED
      BY <2>1, <2>2, <3>1, <3>2, JobMoves
  <2>3. CASE UNCHANGED calls /\ CallModel(d, "again")
    BY <2>1, <2>3, CallModelKeeps
  <2>4. CASE UNCHANGED calls /\ Reply(d)
    BY <1>1, <2>1, <2>4, RepliedOK, JobMoves DEF Reply
  <2> QED
    BY <1>16, <2>2, <2>3, <2>4 DEF ToolAnswered
<1> QED
  BY <1>6, <1>7, <1>8, <1>9, <1>10, <1>11, <1>12, <1>13, <1>14, <1>15, <1>16 DEF Handle

-----------------------------------------------------------------------------
(***************************************************************************)
(* The window.                                                             *)
(***************************************************************************)
Oldest1st(ages) == \A i, j \in DOMAIN ages : i < j => ages[i] >= ages[j]

LEMMA WindowType == Window \in Nat /\ Window >= 1 /\ \A a \in 0..Window : a \in Nat
BY BotsAssumption

\* What is popped is a prefix of stale ages; what is left is fresh.
LEMMA LiveFacts ==
  ASSUME NEW ages \in Seq(0..Window), Oldest1st(ages)
  PROVE  \E k \in 0..Len(ages) :
           /\ Live(ages) \in Seq(0..Window)
           /\ Len(Live(ages)) = Len(ages) - k
           /\ \A i \in 1..(Len(ages) - k) : Live(ages)[i] = ages[i + k]
           /\ \A i \in 1..k : ages[i] >= Window
           /\ \A i \in (k + 1)..Len(ages) : ages[i] < Window
<1> DEFINE S == Stale(ages)
           k == Cardinality(S)
           n == Len(ages)
<1>1. n \in Nat /\ DOMAIN ages = 1..n /\ \A i \in 1..n : ages[i] \in 0..Window
  BY LenProperties
<1>2. S \in SUBSET (1..n) /\ IsFiniteSet(1..n) /\ Cardinality(1..n) = n
  BY <1>1, FS_Interval DEF Stale
<1>3. IsFiniteSet(S) /\ k \in 0..n
  BY <1>1, <1>2, FS_Subset, FS_CardinalityType
<1>4. S \subseteq 1..k
  <2>1. SUFFICES ASSUME NEW i \in S PROVE i <= k
    BY <1>1, <1>2, <1>3
  <2>2. 1..i \in SUBSET S
    BY <1>1, <1>2 DEF Stale
  <2>3. Cardinality(1..i) = i
    BY <1>1, <1>2, FS_Interval
  <2>4. Cardinality(1..i) <= Cardinality(S)
    BY <1>3, <2>2, FS_Subset
  <2> QED
    BY <2>3, <2>4
<1>5. S = 1..k
  <2>1. IsFiniteSet(1..k) /\ Cardinality(1..k) = k
    BY <1>3, FS_Interval
  <2> QED
    BY <1>4, <2>1, FS_Subset
<1>6. \A i \in 1..k : ages[i] >= Window
  BY <1>5 DEF Stale
<1>7. \A i \in (k + 1)..n : ages[i] < Window
  <2>1. SUFFICES ASSUME NEW i \in (k + 1)..n, ~(ages[i] < Window) PROVE FALSE
    OBVIOUS
  <2>2. \A j \in 1..i : ages[j] >= Window
    <3>1. i \in 1..n /\ ages[i] \in Int /\ Window \in Int /\ ages[i] >= Window
      BY <1>1, <1>3, <2>1, WindowType
    <3>2. \A j \in 1..i : j \in 1..n /\ ages[j] \in Int /\ (j < i => ages[j] >= ages[i])
      BY <1>1, <3>1 DEF Oldest1st
    <3> QED
      BY <3>1, <3>2
  <2>3. i \in S
    <3>1. i \in DOMAIN ages
      BY <1>1, <1>3, <2>1
    <3> QED
      BY <2>2, <3>1 DEF Stale
  <2> QED
    BY <1>3, <1>5, <2>1, <2>3
<1>8. /\ Live(ages) \in Seq(0..Window)
      /\ Len(Live(ages)) = n - k
      /\ \A i \in 1..(n - k) : Live(ages)[i] = ages[i + k]
  <2>1. \A i \in (k + 1)..n : ages[i] \in 0..Window
    BY <1>1, <1>3
  <2>2. Live(ages) = SubSeq(ages, k + 1, n)
    BY DEF Live
  <2>3. k + 1 \in Int /\ n \in Int
    BY <1>1, <1>3
  <2>4. /\ SubSeq(ages, k + 1, n) \in Seq(0..Window)
        /\ Len(SubSeq(ages, k + 1, n)) = IF k + 1 <= n THEN n - (k + 1) + 1 ELSE 0
        /\ \A i \in 1..(n - (k + 1) + 1) : SubSeq(ages, k + 1, n)[i] = ages[k + 1 + i - 1]
    BY <2>1, <2>3, SubSeqProperties
  <2> HIDE DEF k, n, S
  <2> QED
    BY <1>1, <1>3, <2>2, <2>4
<1> HIDE DEF k, n, S
<1> QED
  BY <1>3, <1>6, <1>7, <1>8 DEF n

LEMMA IndexCount ==
  ASSUME NEW n \in Nat, NEW A \in SUBSET (1..n)
  PROVE  IsFiniteSet(A) /\ Cardinality(A) \in Nat /\ Cardinality(A) <= n
<1>1. IsFiniteSet(1..n) /\ Cardinality(1..n) = n
  BY FS_Interval
<1> QED
  BY <1>1, FS_Subset, FS_CardinalityType

\* Moving every index by k does not change how many there are.
Shifted(S, T, by) == (\A i \in S : i + by \in T) /\ (\A j \in T : j - by \in S)

LEMMA ShiftedCount ==
  ASSUME NEW size \in Nat, NEW by \in Nat, NEW S, NEW T, S \subseteq 1..size, T \subseteq Nat,
         Shifted(S, T, by)
  PROVE  Cardinality(S) = Cardinality(T)
<1>1. IsFiniteSet(S)
  BY IndexCount
<1> DEFINE f == [i \in S |-> i + by]
<1>2. f \in [S -> T] /\ \A a, b \in S : f[a] = f[b] => a = b
  BY DEF Shifted
<1>3. \A j \in T : \E i \in S : f[i] = j
  <2>1. \A j \in T : f[j - by] = j /\ j - by \in S
    BY DEF Shifted
  <2> QED
    BY <2>1
<1>4. ExistsBijection(S, T)
  BY <1>2, <1>3, Fun_IsBij DEF ExistsBijection
<1> QED
  BY <1>1, <1>4, FS_Bijection

WindowOK(w, a) ==
  /\ w \in Seq(0..Window) /\ a \in [0..(Window - 1) -> Nat]
  /\ Oldest1st(w)
  /\ Cardinality({i \in DOMAIN w : w[i] < Window}) <= Limit
  /\ \A x \in 0..(Window - 1) : a[x] = Cardinality({i \in DOMAIN w : w[i] = x})

\* The stale calls leave the window, and nothing that counts.
LEMMA PrunedOK ==
  ASSUME NEW w, NEW a, WindowOK(w, a)
  PROVE  /\ WindowOK(Live(w), a)
         /\ \A i \in DOMAIN Live(w) : Live(w)[i] < Window
<1> DEFINE n == Len(w)
           v == Live(w)
<1>1. w \in Seq(0..Window) /\ Oldest1st(w) /\ n \in Nat /\ DOMAIN w = 1..n
      /\ \A i \in 1..n : w[i] \in 0..Window
  BY LenProperties DEF WindowOK
<1>2. PICK k \in 0..n :
        /\ v \in Seq(0..Window)
        /\ Len(v) = n - k
        /\ \A i \in 1..(n - k) : v[i] = w[i + k]
        /\ \A i \in 1..k : w[i] >= Window
        /\ \A i \in (k + 1)..n : w[i] < Window
  BY <1>1, LiveFacts
<1> HIDE DEF n, v
<1>3. n - k \in Nat /\ k \in Nat /\ DOMAIN v = 1..(n - k)
  BY <1>1, <1>2, LenProperties
<1>4. \A i \in 1..(n - k) : i + k \in (k + 1)..n /\ i + k \in 1..n
  BY <1>1, <1>3
<1>5. \A i \in DOMAIN v : v[i] < Window
  BY <1>2, <1>3, <1>4
<1>6. Oldest1st(v)
  <2>1. SUFFICES ASSUME NEW i \in 1..(n - k), NEW j \in 1..(n - k), i < j PROVE v[i] >= v[j]
    BY <1>3 DEF Oldest1st
  <2>2. i + k \in 1..n /\ j + k \in 1..n /\ i + k < j + k
    BY <1>3, <1>4, <2>1
  <2>3. w[i + k] >= w[j + k]
    BY <1>1, <2>2 DEF Oldest1st
  <2> QED
    BY <1>2, <2>3
<1>7. \A j \in 1..n : w[j] < Window => j - k \in 1..(n - k)
  BY <1>1, <1>2, <1>3, WindowType
<1>8. Cardinality({i \in DOMAIN v : v[i] < Window}) <= Limit
  <2> DEFINE A == {i \in 1..(n - k) : v[i] < Window}
             B == {i \in 1..n : w[i] < Window}
  <2>1. A \in SUBSET (1..(n - k)) /\ B \in SUBSET Nat
    BY <1>1
  <2>2. \A i \in A : i + k \in B
    BY <1>2, <1>4
  <2>3. \A j \in B : j - k \in A
    BY <1>2, <1>3, <1>5, <1>7
  <2>4. Cardinality(A) = Cardinality(B)
    <3> DEFINE m == n - k
    <3>1. m \in Nat /\ k \in Nat /\ A \subseteq 1..m /\ B \subseteq Nat
      BY <1>3, <2>1
    <3>2. Shifted(A, B, k)
      BY <2>2, <2>3 DEF Shifted
    <3> HIDE DEF A, B, m
    <3> QED
      BY <3>1, <3>2, ShiftedCount
  <2> QED
    BY <1>1, <1>3, <2>4 DEF WindowOK
<1>9. ASSUME NEW x \in 0..(Window - 1) PROVE a[x] = Cardinality({i \in DOMAIN v : v[i] = x})
  <2> DEFINE A == {i \in 1..(n - k) : v[i] = x}
             B == {i \in 1..n : w[i] = x}
  <2>1. A \in SUBSET (1..(n - k)) /\ B \in SUBSET Nat
    BY <1>1
  <2>2. \A i \in A : i + k \in B
    BY <1>2, <1>4
  <2>3. \A j \in B : j - k \in A
    <3>1. x < Window
      BY WindowType
    <3>2. \A j \in B : j \in 1..n /\ w[j] < Window
      BY <3>1
    <3>3. \A j \in B : j - k \in 1..(n - k) /\ (j - k) + k = j
      BY <1>3, <1>7, <3>2
    <3>4. \A j \in B : v[j - k] = w[(j - k) + k]
      BY <1>2, <3>3
    <3> QED
      BY <3>3, <3>4
  <2>4. Cardinality(A) = Cardinality(B)
    <3> DEFINE m == n - k
    <3>1. m \in Nat /\ k \in Nat /\ A \subseteq 1..m /\ B \subseteq Nat
      BY <1>3, <2>1
    <3>2. Shifted(A, B, k)
      BY <2>2, <2>3 DEF Shifted
    <3> HIDE DEF A, B, m
    <3> QED
      BY <3>1, <3>2, ShiftedCount
  <2> QED
    BY <1>1, <1>3, <2>4 DEF WindowOK
<1> QED
  BY <1>2, <1>5, <1>6, <1>8, <1>9 DEF WindowOK, v

\* A call joins the window.
LEMMA AppendedOK ==
  ASSUME NEW w, NEW a, WindowOK(w, a), \A i \in DOMAIN w : w[i] < Window, Len(w) < Limit
  PROVE  WindowOK(Append(w, 0), [a EXCEPT ![0] = @ + 1])
<1> DEFINE n == Len(w)
           v == Append(w, 0)
<1>1. w \in Seq(0..Window) /\ n \in Nat /\ DOMAIN w = 1..n /\ \A i \in 1..n : w[i] \in 0..Window
  BY LenProperties DEF WindowOK
<1>2. 0 \in 0..Window /\ 0 \in 0..(Window - 1)
  BY WindowType
<1>3. /\ v \in Seq(0..Window) /\ Len(v) = n + 1 /\ DOMAIN v = 1..(n + 1)
      /\ v[n + 1] = 0 /\ \A i \in 1..n : v[i] = w[i]
  BY <1>1, <1>2, AppendProperties, LenProperties
<1> HIDE DEF n, v
<1>4. \A i \in 1..(n + 1) : i \in 1..n \/ i = n + 1
  BY <1>1
<1>5. Oldest1st(v)
  <2>1. SUFFICES ASSUME NEW i \in 1..(n + 1), NEW j \in 1..(n + 1), i < j PROVE v[i] >= v[j]
    BY <1>3 DEF Oldest1st
  <2>2. i \in 1..n
    BY <1>1, <2>1
  <2>3. CASE j \in 1..n
    BY <1>1, <1>3, <2>1, <2>2, <2>3 DEF WindowOK, Oldest1st
  <2>4. CASE j = n + 1
    BY <1>1, <1>3, <2>2, <2>4
  <2> QED
    BY <1>4, <2>3, <2>4
<1>6. Cardinality({i \in DOMAIN v : v[i] < Window}) <= Limit
  <2>1. {i \in DOMAIN v : v[i] < Window} \in SUBSET (1..(n + 1))
    BY <1>3
  <2>2. IsFiniteSet(1..(n + 1)) /\ Cardinality(1..(n + 1)) = n + 1
    BY <1>1, FS_Interval
  <2>3. Cardinality({i \in DOMAIN v : v[i] < Window}) <= n + 1
    BY <2>1, <2>2, FS_Subset
  <2>4. n + 1 <= Limit
    BY <1>1, BotsAssumption DEF n
  <2>5. Cardinality({i \in DOMAIN v : v[i] < Window}) \in Nat
    BY <2>1, <2>2, FS_Subset, FS_CardinalityType
  <2> QED
    BY <1>1, <2>3, <2>4, <2>5, BotsAssumption
<1>7. ASSUME NEW x \in 0..(Window - 1)
      PROVE  [a EXCEPT ![0] = @ + 1][x] = Cardinality({i \in DOMAIN v : v[i] = x})
  <2> DEFINE A == {i \in 1..n : w[i] = x}
  <2>1. IsFiniteSet(A) /\ Cardinality(A) \in Nat
    <3>1. A \in SUBSET (1..n)
      OBVIOUS
    <3> HIDE DEF A
    <3> QED
      BY <1>1, <3>1, IndexCount
  <2>2. a[x] = Cardinality(A) /\ a \in [0..(Window - 1) -> Nat]
    BY <1>1 DEF WindowOK
  <2>3. CASE x = 0
    <3>1. {i \in DOMAIN v : v[i] = x} = A \cup {n + 1}
      <4>1. \A i \in 1..n : i \in 1..(n + 1)
        BY <1>1
      <4>2. n + 1 \in 1..(n + 1)
        BY <1>1
      <4> QED
        BY <1>3, <1>4, <2>3, <4>1, <4>2
    <3>2. n + 1 \notin A
      BY <1>1
    <3>3. Cardinality(A \cup {n + 1}) = Cardinality(A) + 1
      BY <2>1, <3>2, FS_AddElement
    <3> QED
      BY <1>2, <2>2, <2>3, <3>1, <3>3
  <2>4. CASE x # 0
    <3>1. {i \in DOMAIN v : v[i] = x} = A
      <4>1. \A i \in 1..n : i \in 1..(n + 1)
        BY <1>1
      <4> QED
        BY <1>3, <1>4, <2>4, <4>1
    <3> QED
      BY <2>2, <2>4, <3>1
  <2> QED
    BY <2>3, <2>4
<1>8. [a EXCEPT ![0] = @ + 1] \in [0..(Window - 1) -> Nat]
  BY <1>2 DEF WindowOK
<1> QED
  BY <1>3, <1>5, <1>6, <1>7, <1>8 DEF WindowOK, v

\* The calls grow older.
LEMMA AgedOK ==
  ASSUME NEW w, NEW a, WindowOK(w, a)
  PROVE  WindowOK([i \in DOMAIN w |-> Older(w[i], Window)],
                  [x \in 0..(Window - 1) |-> IF x = 0 THEN 0 ELSE a[x - 1]])
<1> DEFINE n == Len(w)
           v == [i \in DOMAIN w |-> Older(w[i], Window)]
           b == [x \in 0..(Window - 1) |-> IF x = 0 THEN 0 ELSE a[x - 1]]
<1>1. w \in Seq(0..Window) /\ n \in Nat /\ DOMAIN w = 1..n /\ \A i \in 1..n : w[i] \in 0..Window
  BY LenProperties DEF WindowOK
<1> HIDE DEF n
<1>2. \A i \in 1..n : v[i] \in 0..Window /\ v[i] = IF w[i] < Window THEN w[i] + 1 ELSE w[i]
  BY <1>1, WindowType DEF Older
<1>3. v \in [1..n -> 0..Window] /\ DOMAIN v = 1..n
  BY <1>1, <1>2
<1> HIDE DEF v
<1>4. v \in Seq(0..Window)
  BY <1>1, <1>3, SeqDef
<1>5. Oldest1st(v)
  <2>1. SUFFICES ASSUME NEW i \in 1..n, NEW j \in 1..n, i < j PROVE v[i] >= v[j]
    BY <1>3 DEF Oldest1st
  <2>2. w[i] >= w[j]
    BY <1>1, <2>1 DEF WindowOK, Oldest1st
  <2> QED
    BY <1>1, <1>2, <2>2, WindowType
<1>6. Cardinality({i \in DOMAIN v : v[i] < Window}) <= Limit
  <2>1. {i \in DOMAIN v : v[i] < Window} \in SUBSET {i \in DOMAIN w : w[i] < Window}
    BY <1>1, <1>2, <1>3, WindowType
  <2>2. IsFiniteSet({i \in DOMAIN w : w[i] < Window})
    <3>1. {i \in DOMAIN w : w[i] < Window} \in SUBSET (1..n)
      BY <1>1
    <3> QED
      BY <1>1, <3>1, IndexCount
  <2>3. /\ Cardinality({i \in DOMAIN v : v[i] < Window}) \in Nat
        /\ Cardinality({i \in DOMAIN w : w[i] < Window}) \in Nat
        /\ Cardinality({i \in DOMAIN v : v[i] < Window}) <= Cardinality({i \in DOMAIN w : w[i] < Window})
    BY <2>1, <2>2, FS_Subset, FS_CardinalityType
  <2> QED
    BY <2>3, BotsAssumption DEF WindowOK
<1>7. ASSUME NEW x \in 0..(Window - 1) PROVE b[x] = Cardinality({i \in DOMAIN v : v[i] = x})
  <2>1. CASE x = 0
    <3>1. {i \in DOMAIN v : v[i] = x} = {}
      BY <1>1, <1>2, <1>3, <2>1, WindowType
    <3> QED
      BY <2>1, <3>1, FS_EmptySet
  <2>2. CASE x # 0
    <3>1. x - 1 \in 0..(Window - 1)
      BY <2>2, WindowType
    <3>2. {i \in DOMAIN v : v[i] = x} = {i \in DOMAIN w : w[i] = x - 1}
      <4>1. \A i \in 1..n : v[i] = x <=> w[i] = x - 1
        BY <1>1, <1>2, <2>2, WindowType
      <4> QED
        BY <1>1, <1>3, <4>1
    <3>3. a[x - 1] = Cardinality({i \in DOMAIN w : w[i] = x - 1})
      BY <3>1 DEF WindowOK
    <3> QED
      BY <2>2, <3>2, <3>3
  <2> QED
    BY <2>1, <2>2
<1>8. b \in [0..(Window - 1) -> Nat]
  BY WindowType DEF WindowOK
<1> QED
  BY <1>4, <1>5, <1>6, <1>7, <1>8 DEF WindowOK, v

-----------------------------------------------------------------------------
(***************************************************************************)
(* The server, the workers and time.                                       *)
(***************************************************************************)
LEMMA WindowIsOK == BotsInv => WindowOK(window, admitted)
BY DEF BotsInv, BotsTypeOK, OldestFirst, QuotaKept, CountsEveryCall, WindowOK, Oldest1st

LEMMA WindowStaysOK == UNCHANGED <<window, admitted>> /\ BotsInv => WindowOK(window', admitted')
BY WindowIsOK

\* A call moves on, in a session of its own or without one.
LEMMA CallMoves ==
  ASSUME BotsInv, UNCHANGED <<job, busy>>, calls' \subseteq calls, orphans' \in Nat,
         serving' \in Serving,
         serving'.call = Orphan => orphans' > 0,
         inTools' = IF serving'.call # None /\ serving'.stage = "query" THEN 1 ELSE 0,
         inTools' <= inTools \/ (inTools' = inTools + 1 /\ PoolFree > 0),
         WindowOK(window', admitted')
  PROVE  BotsInv'
<1>1. BotsTypeOK'
  BY DEF BotsInv, BotsTypeOK, WindowOK
<1>2. \A d \in Delivery : JobOK(d, job[d])'
  BY DEF BotsInv, JobOK
<1>3. PoolFree' \in 0..PoolSize
  <2>1. /\ Cardinality(Holders) \in Nat /\ Cardinality(busy) \in Nat
        /\ Holders' = Holders /\ busy' = busy
    <3>1. Holders \subseteq Delivery /\ busy \subseteq Worker /\ Holders' = Holders
      BY DEF Holders, Delivery, BotsInv, BotsTypeOK
    <3> QED
      BY <3>1, PoolCounts
  <2>2. PoolFree \in 0..PoolSize /\ inTools \in 0..1 /\ inTools' \in 0..1
    BY DEF BotsInv, ConnectionsReturned
  <2> QED
    BY <2>1, <2>2, BotsAssumption DEF PoolFree
<1>4. ConnectionsReturned'
  BY <1>3 DEF BotsInv, ConnectionsReturned
<1>5. OldestFirst' /\ QuotaKept' /\ CountsEveryCall'
  BY DEF WindowOK, Oldest1st, OldestFirst, QuotaKept, CountsEveryCall
<1> QED
  BY <1>1, <1>2, <1>4, <1>5 DEF BotsInv

\* The window after a call that is refused or admitted.
LEMMA WindowMoves ==
  ASSUME BotsInv
  PROVE  /\ WindowOK(Live(window), admitted)
         /\ Len(Live(window)) < Limit =>
              WindowOK(Append(Live(window), 0), [admitted EXCEPT ![0] = @ + 1])
<1>1. WindowOK(window, admitted)
  BY WindowIsOK
<1>2. WindowOK(Live(window), admitted) /\ \A i \in DOMAIN Live(window) : Live(window)[i] < Window
  BY <1>1, PrunedOK
<1> QED
  BY <1>2, AppendedOK

LEMMA ServeKeeps ==
  ASSUME BotsInv, NEW c \in Admin \cup {Orphan}, Serve(c)
  PROVE  BotsInv'
<1>1. /\ serving.call = None /\ inTools = 0 /\ orphans \in Nat
      /\ serving \in Serving
      /\ c = Orphan => orphans > 0
  BY BotsAssumption DEF BotsInv, BotsTypeOK, ConnectionsReturned, Serve, RefuseCall, RejectCall, StartCall, LoopFree, Call
<1>2. CASE RefuseCall(c)
  <2>1. calls' \subseteq calls /\ orphans' \in Nat
    BY <1>1, <1>2 DEF RefuseCall, Answered
  <2>2. WindowOK(window', admitted')
    BY <1>2, WindowMoves DEF RefuseCall
  <2>3. UNCHANGED <<job, serving, inTools, busy>>
    BY <1>2 DEF RefuseCall
  <2> QED
    BY <1>1, <2>1, <2>2, <2>3, CallMoves, BotsAssumption
<1>3. CASE RejectCall(c)
  <2>1. calls' \subseteq calls /\ orphans' \in Nat
    BY <1>1, <1>3 DEF RejectCall, Answered
  <2>2. WindowOK(window', admitted')
    BY <1>3, WindowMoves DEF RejectCall, Admit, Counted
  <2>3. UNCHANGED <<job, serving, inTools, busy>>
    BY <1>3 DEF RejectCall
  <2> QED
    BY <1>1, <2>1, <2>2, <2>3, CallMoves, BotsAssumption
<1>4. CASE StartCall(c)
  <2>1. WindowOK(window', admitted')
    BY <1>4, WindowMoves DEF StartCall, Admit, Counted
  <2>2. UNCHANGED <<job, calls, orphans, busy>>
    BY <1>4 DEF StartCall
  <2>3. CASE PoolFree > 0
    <3>1. serving' = Served(c, "query") /\ inTools' = inTools + 1
      BY <1>4, <2>3 DEF StartCall
    <3> QED
      BY <1>1, <2>1, <2>2, <2>3, <3>1, CallMoves, BotsAssumption DEF Served, Serving
  <2>4. CASE ~(PoolFree > 0)
    <3>1. serving' = Served(c, "connect") /\ inTools' = inTools
      BY <1>4, <2>4 DEF StartCall
    <3> QED
      BY <1>1, <2>1, <2>2, <3>1, CallMoves, BotsAssumption DEF Served, Serving
  <2> QED
    BY <2>3, <2>4
<1> QED
  BY <1>2, <1>3, <1>4 DEF Serve

LEMMA EndCallKeeps ==
  ASSUME BotsInv, EndCall
  PROVE  BotsInv'
<1>1. /\ serving.call # None /\ orphans \in Nat
      /\ serving \in Serving
      /\ serving.call = Orphan => orphans > 0
      /\ inTools = IF serving.stage = "query" THEN 1 ELSE 0
  BY DEF BotsInv, BotsTypeOK, ConnectionsReturned, EndCall, CallConnected, CallUnconnected, CommitCall, FinishCall
<1>2. WindowOK(window', admitted')
  BY WindowStaysOK DEF EndCall, CallConnected, CallUnconnected, CommitCall, FinishCall
<1>3. CASE CallConnected
  <2>1. /\ serving' \in Serving /\ serving'.call = serving.call /\ serving'.stage = "query"
        /\ inTools = 0 /\ inTools' = inTools + 1 /\ PoolFree > 0
        /\ UNCHANGED <<job, calls, orphans, busy>>
    BY <1>1, <1>3 DEF CallConnected, Serving
  <2> QED
    BY <1>1, <1>2, <2>1, CallMoves
<1>4. NotServing \in Serving
      /\ NotServing.call = None
  BY DEF NotServing, Served, Serving
<1>5. CASE CallUnconnected
  <2>1. calls' \subseteq calls /\ orphans' \in Nat
    BY <1>1, <1>5 DEF CallUnconnected, Answered
  <2> QED
    BY <1>1, <1>2, <1>4, <1>5, <2>1, CallMoves, BotsAssumption DEF CallUnconnected
<1>6. CASE FinishCall
  <2>1. calls' \subseteq calls /\ orphans' \in Nat
    BY <1>1, <1>6 DEF FinishCall, Answered
  <2> QED
    BY <1>1, <1>2, <1>4, <1>6, <2>1, CallMoves, BotsAssumption DEF FinishCall
<1>7. CASE CommitCall
  <2>1. /\ serving' \in Serving /\ serving'.call = serving.call /\ serving'.stage = "connect"
        /\ inTools = 1 /\ inTools' = inTools - 1
        /\ UNCHANGED <<job, calls, orphans, busy>>
    BY <1>1, <1>7 DEF CommitCall, Serving
  <2> QED
    BY <1>1, <1>2, <2>1, CallMoves
<1> QED
  BY <1>3, <1>5, <1>6, <1>7 DEF EndCall

LEMMA ToolFailsKeeps ==
  ASSUME BotsInv, NEW d \in Delivery, ToolFails(d)
  PROVE  BotsInv'
<1>1. /\ calls' \subseteq calls /\ orphans' \in Nat /\ orphans' >= orphans /\ orphans \in Nat
      /\ UNCHANGED <<job, serving, inTools, busy, window, admitted>>
  BY DEF ToolFails, BotsInv, BotsTypeOK
<1>2. WindowOK(window', admitted')
  BY <1>1, WindowStaysOK
<1> QED
  BY <1>1, <1>2, CallMoves DEF BotsInv, BotsTypeOK, ConnectionsReturned

LEMMA DeliverKeeps ==
  ASSUME BotsInv, NEW d \in Delivery, NEW n \in 1..MaxMessages[d], Deliver(d, n)
  PROVE  BotsInv'
<1> DEFINE j == [Idle EXCEPT !.pc = "run", !.left = n]
<1>1. n \in Nat /\ n > 0
  BY BotsAssumption DEF Delivery
<1>2. JobOK(d, j) /\ j.pc # "tool" /\ ~j.conn
  BY <1>1 DEF JobOK, Idle, Job, Pc, Blocking
<1>3. Put(d, j) /\ job[d].pc = "idle" /\ UNCHANGED <<toolVars, busy>>
  BY DEF Deliver, Idle
<1>4. d \notin calls
  BY <1>3 DEF BotsInv, BotsTypeOK
<1> HIDE DEF j
<1> QED
  BY <1>2, <1>3, <1>4, JobMoves DEF toolVars

LEMMA WorkerKeeps ==
  ASSUME BotsInv, NEW w \in Worker, Borrow(w) \/ Return(w)
  PROVE  BotsInv'
<1>1. UNCHANGED <<job, calls, orphans, serving, inTools, window, admitted>>
  BY DEF Borrow, Return, toolVars
<1>2. busy \in SUBSET Worker /\ busy' \in SUBSET Worker
  BY DEF Borrow, Return, BotsInv, BotsTypeOK
<1>3. BotsTypeOK'
  BY <1>1, <1>2 DEF BotsInv, BotsTypeOK
<1>4. PoolFree' \in 0..PoolSize
  <2>1. /\ Cardinality(Holders) \in Nat /\ Holders' = Holders
        /\ IsFiniteSet(busy) /\ Cardinality(busy) \in Nat /\ Cardinality(busy') \in Nat
    <3>1. Holders \subseteq Delivery /\ Holders' = Holders
      BY <1>1 DEF Holders, Delivery
    <3> QED
      BY <1>2, <3>1, PoolCounts
  <2>2. \/ Cardinality(busy') = Cardinality(busy) + 1 /\ PoolFree > 0
        \/ Cardinality(busy') = Cardinality(busy) - 1
    BY <2>1, FS_AddElement, FS_RemoveElement DEF Borrow, Return
  <2>3. PoolFree \in 0..PoolSize /\ inTools \in 0..1 /\ inTools' = inTools
    BY <1>1 DEF BotsInv, ConnectionsReturned
  <2> QED
    BY <2>1, <2>2, <2>3, BotsAssumption DEF PoolFree
<1>5. ConnectionsReturned'
  BY <1>1, <1>4 DEF BotsInv, ConnectionsReturned
<1> QED
  BY <1>1, <1>3, <1>5 DEF BotsInv, JobOK, OldestFirst, QuotaKept, CountsEveryCall

LEMMA TickKeeps ==
  ASSUME BotsInv, Tick
  PROVE  BotsInv'
<1>1. job \in [Delivery -> Job] /\ \A d \in Delivery : JobOK(d, job[d])
  BY DEF BotsInv, BotsTypeOK
<1>2. Longest(PoolTimeout, Deadline) \in Nat /\ PoolTimeout \in Nat
  BY BotsAssumption DEF Longest
<1>3. \A d \in Delivery : Aged(d) \in Nat /\ (InModel(d) => Aged(d) = job[d].age + 1)
  BY <1>1, <1>2 DEF Aged, Older, Job
<1>4. /\ job' \in [Delivery -> Job]
      /\ \A d \in Delivery : job'[d] = [job[d] EXCEPT !.age = Aged(d)]
  BY <1>1, <1>3 DEF Tick, Job
<1>5. \A d \in Delivery : job'[d].pc = job[d].pc /\ job'[d].conn = job[d].conn
  BY <1>1, <1>4 DEF Job
<1>6. ASSUME NEW d \in Delivery PROVE JobOK(d, job'[d])
  <2>1. JobOK(d, job[d]) /\ job[d] \in Job
    BY <1>1 DEF JobOK
  <2>2. InModel(d) => job[d].age < job[d].until
    BY DEF Tick
  <2> QED
    BY <1>3, <1>4, <2>1, <2>2 DEF JobOK, Job, InModel
<1>7. /\ serving' \in Serving
      /\ serving'.call = serving.call /\ serving'.stage = serving.stage
  <2>1. serving \in Serving
    BY DEF BotsInv, BotsTypeOK
  <2>2. Older(serving.age, PoolTimeout) \in Nat
    BY <1>2, <2>1 DEF Older, Serving
  <2>3. serving' = serving \/ serving' = [serving EXCEPT !.age = Older(serving.age, PoolTimeout)]
    BY DEF Tick
  <2> QED
    BY <2>1, <2>2, <2>3 DEF Serving
<1>8. WindowOK(window', admitted')
  <2>1. WindowOK(window, admitted)
    BY WindowIsOK
  <2>2. /\ window' = [i \in DOMAIN window |-> Older(window[i], Window)]
        /\ admitted' = [a \in 0..(Window - 1) |-> IF a = 0 THEN 0 ELSE admitted[a - 1]]
    BY DEF Tick
  <2>3. WindowOK([i \in DOMAIN window |-> Older(window[i], Window)],
                 [a \in 0..(Window - 1) |-> IF a = 0 THEN 0 ELSE admitted[a - 1]])
    BY <2>1, AgedOK
  <2> QED
    BY <2>2, <2>3
<1>9. BotsTypeOK'
  <2>1. calls' \subseteq {d \in Admin : job'[d].pc = "tool"}
    <3>1. calls' = calls /\ calls \subseteq {d \in Admin : job[d].pc = "tool"} /\ Admin \subseteq Delivery
      BY DEF BotsInv, BotsTypeOK, Tick, Delivery
    <3> QED
      BY <1>5, <3>1
  <2>2. orphans' \in Nat /\ inTools' \in Int /\ busy' \in SUBSET Worker
    BY DEF BotsInv, BotsTypeOK, Tick
  <2> QED
    BY <1>4, <1>7, <1>8, <2>1, <2>2 DEF BotsTypeOK, WindowOK
<1>10. PoolFree' = PoolFree
  <2>1. Holders' = Holders
    BY <1>5 DEF Holders
  <2> QED
    BY <2>1 DEF PoolFree, Tick
<1>11. ConnectionsReturned'
  BY <1>5, <1>7, <1>10 DEF BotsInv, ConnectionsReturned, Tick
<1>12. OldestFirst' /\ QuotaKept' /\ CountsEveryCall'
  BY <1>8 DEF WindowOK, Oldest1st, OldestFirst, QuotaKept, CountsEveryCall
<1>13. \A d \in Delivery : JobOK(d, job[d])'
  BY <1>6 DEF JobOK
<1> QED
  BY <1>7, <1>9, <1>11, <1>12, <1>13 DEF BotsInv, Tick

LEMMA BotsInit == Init => BotsInv
<1> SUFFICES ASSUME Init PROVE BotsInv
  OBVIOUS
<1>1. Idle \in Job /\ ~Idle.conn /\ Idle.pc = "idle"
  BY DEF Idle, Job, Pc, Blocking
<1>2. \A d \in Delivery : job[d] = Idle
  BY DEF Init
<1>3. BotsTypeOK
  BY <1>1, WindowType DEF Init, BotsTypeOK, NotServing
<1>4. \A d \in Delivery : JobOK(d, job[d])
  BY <1>1, <1>2 DEF JobOK
<1>5. ConnectionsReturned
  <2>1. Holders = {}
    BY <1>1, <1>2 DEF Holders
  <2> QED
    BY <1>1, <1>2, <2>1, FS_EmptySet, BotsAssumption DEF Init, ConnectionsReturned, PoolFree, NotServing, Served
<1>6. window = <<>> /\ DOMAIN window = {}
  BY DEF Init
<1>7. OldestFirst /\ QuotaKept /\ CountsEveryCall
  <2>1. \A x : {i \in DOMAIN window : window[i] = x} = {}
    BY <1>6
  <2>2. {i \in DOMAIN window : window[i] < Window} = {}
    BY <1>6
  <2> QED
    BY <1>6, <2>1, <2>2, FS_EmptySet, BotsAssumption DEF Init, OldestFirst, QuotaKept, CountsEveryCall
<1> QED
  BY <1>3, <1>4, <1>5, <1>7, BotsAssumption DEF BotsInv, Init, NotServing, Served

LEMMA BotsStep == BotsInv /\ [Next]_botVars => BotsInv'
<1> SUFFICES ASSUME BotsInv, [Next]_botVars PROVE BotsInv'
  OBVIOUS
<1>1. CASE \E d \in Delivery : \E n \in 1..MaxMessages[d] : Deliver(d, n)
  BY <1>1, DeliverKeeps
<1>2. CASE \E d \in Delivery : Handle(d) \/ ToolFails(d)
  BY <1>2, HandleKeeps, ToolFailsKeeps
<1>3. CASE \E c \in Admin \cup {Orphan} : Serve(c)
  BY <1>3, ServeKeeps
<1>4. CASE EndCall
  BY <1>4, EndCallKeeps
<1>5. CASE \E w \in Worker : Borrow(w) \/ Return(w)
  BY <1>5, WorkerKeeps
<1>6. CASE Tick
  BY <1>6, TickKeeps
<1>7. CASE UNCHANGED botVars
  <2>1. UNCHANGED <<job, busy, calls, orphans, serving, inTools, window, admitted>>
    BY <1>7 DEF botVars
  <2>2. WindowOK(window', admitted')
    BY <2>1, WindowStaysOK
  <2> QED
    BY <2>1, <2>2, CallMoves DEF BotsInv, BotsTypeOK, ConnectionsReturned
<1> QED
  BY <1>1, <1>2, <1>3, <1>4, <1>5, <1>6, <1>7 DEF Next

LEMMA BotsInvariant == Spec => []BotsInv
BY BotsInit, BotsStep, PTL DEF Spec

-----------------------------------------------------------------------------
(***************************************************************************)
(* Theorems.                                                               *)
(***************************************************************************)
\* The variables keep their types, and the server only has calls of chats that
\* wait for one.
THEOREM BotsTypesCorrect == Spec => []BotsTypeOK
<1>1. BotsInv => BotsTypeOK
  BY DEF BotsInv
<1> QED
  BY <1>1, BotsInvariant, PTL

\* However a message or a tool ends, get_db and session_scope give its connection
\* back, whatever the size of the pool.
THEOREM ConnectionsComeBack == Spec => []ConnectionsReturned
<1>1. BotsInv => ConnectionsReturned
  BY DEF BotsInv
<1> QED
  BY <1>1, BotsInvariant, PTL

\* get_reply spends one deadline on both of its model calls, whatever happens
\* between them.
THEOREM QuestionsKeepTheDeadline == Spec => []DeadlineKept
<1>1. BotsInv => DeadlineKept
  <2> SUFFICES ASSUME BotsInv, NEW d \in Delivery, InModel(d) PROVE job[d].age <= Phases * Deadline
    BY DEF DeadlineKept
  <2>1. JobOK(d, job[d])
    BY DEF BotsInv
  <2>2. job[d].age \in Nat /\ job[d].until \in Nat
    BY <2>1 DEF JobOK, Job
  <2>3. job[d].age <= job[d].until /\ job[d].until <= Phases * Deadline
    BY <2>1 DEF JobOK, InModel
  <2>4. Phases * Deadline \in Nat
    BY BotsAssumption
  <2> QED
    BY <2>2, <2>3, <2>4
<1> QED
  BY <1>1, BotsInvariant, PTL

\* check_rate_limit keeps its quota, counts every call it admits and names a time
\* at which there is room, for any window, limit and length of a second.
THEOREM WindowIsHonest == Spec => []WindowHonest
<1>1. BotsInv => RetryFindsRoom
  <2> SUFFICES ASSUME BotsInv, Live(window) # <<>>
               PROVE  Live(window)[1] + RetryAfter(Live(window)) * Second >= Window
    BY DEF RetryFindsRoom
  <2> DEFINE live == Live(window)
             rest == Window - live[1]
  <2>1. live \in Seq(0..Window)
    BY WindowMoves DEF WindowOK
  <2>2. live[1] \in 0..Window
    <3>1. 1 \in DOMAIN live
      BY <2>1, LenProperties
    <3> QED
      BY <2>1, <3>1, LenProperties
  <2>3. rest \in Nat /\ Second \in Nat /\ Second > 0
    BY <2>2, BotsAssumption
  <2>4. RetryAfter(live) = rest \div Second + 1
    BY DEF RetryAfter
  <2> HIDE DEF rest, live
  <2>5. rest < (rest \div Second + 1) * Second
    BY <2>3
  <2>6. (rest \div Second + 1) * Second \in Int
    BY <2>3
  <2>7. live[1] + RetryAfter(live) * Second >= live[1] + rest
    BY <2>2, <2>3, <2>4, <2>5, <2>6
  <2> QED
    BY <2>2, <2>7, BotsAssumption DEF live, rest
<1>2. BotsInv => OnlyLiveCount
  BY WindowIsOK, PrunedOK DEF OnlyLiveCount
<1>3. BotsInv => WindowHonest
  BY <1>1, <1>2 DEF BotsInv, WindowHonest
<1> QED
  BY <1>3, BotsInvariant, PTL

=============================================================================
