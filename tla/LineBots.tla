----------------------------- MODULE LineBots ------------------------------
(***************************************************************************)
(* The two LINE chat bots and the MCP tool server they share a process     *)
(* with: both webhooks, the admin chatbot, the MCP client, the tools and   *)
(* their rate limiter.                                                     *)
(*                                                                         *)
(* Everything runs on one event loop and draws on one pool of database     *)
(* connections.  A coroutine keeps the loop until it awaits: statements,   *)
(* the admin bot's model calls and the replies block it, and so does a     *)
(* checkout from an empty pool.  A webhook keeps its connection until it   *)
(* commits or ends, also while it waits for a tool, and the tool, which    *)
(* runs on the same loop, needs a connection of its own.                   *)
(***************************************************************************)
EXTENDS Integers, Sequences, FiniteSets

CONSTANTS
  Admin,        \* webhook deliveries of the admin bot that may be under way
  User,         \* webhook deliveries of the user bot
  Worker,       \* threads of the rest of the program that use a connection
  None,         \* no tool call is served
  Orphan,       \* a call whose client has given up
  PoolSize,     \* connections of the engine, its overflow included
  PoolTimeout,  \* how long a checkout waits for a connection (30 s)
  Deadline,     \* the admin chatbot's deadline (15 s)
  Phases,       \* parts of a model call that each get the timeout: connect, read
  Window,       \* _WINDOW_SECONDS, in ticks
  Second,       \* ticks of a second
  Limit,        \* RATE_LIMIT_PER_MINUTE
  MaxMessages,  \* bound: messages of each delivery
  MaxTools,     \* bound: tools one answer of the model asks for in each chat
  MaxOrphans    \* bound: calls given up that the server still has

ASSUME BotsAssumption ==
  /\ IsFiniteSet(Admin) /\ IsFiniteSet(User) /\ IsFiniteSet(Worker)
  /\ Admin \cap User = {}
  /\ None \notin Admin /\ Orphan \notin Admin /\ None # Orphan
  /\ PoolSize \in Nat \ {0} /\ PoolTimeout \in Nat /\ Deadline \in Nat \ {0}
  /\ Phases \in Nat \ {0} /\ Second \in Nat \ {0} /\ Window \in Nat \ {0}
  /\ Limit \in Nat \ {0} /\ MaxMessages \in [Admin \cup User -> Nat]
  /\ MaxTools \in [Admin -> Nat] /\ MaxOrphans \in Nat

VARIABLES
  job,      \* per delivery, where its handler is
  calls,    \* admin deliveries whose tool call the server has not answered
  orphans,  \* calls the server has whose client has given up
  serving,  \* the call whose tool keeps the loop, and its stage
  inTools,  \* connections held by tool sessions
  busy,     \* workers that hold a connection
  window,   \* _invocations of the bot's client: ages of admitted calls, oldest first
  admitted  \* history: how many calls of each age below Window were admitted

botVars == <<job, calls, orphans, serving, inTools, busy, window, admitted>>
toolVars == <<calls, orphans, serving, inTools, window, admitted>>

Delivery == Admin \cup User

\* run: between two messages; connect: waiting for a connection; handle: it has
\* one; model, again: in the first or second call of the model; await: the user
\* bot's model; tool: waiting for a tool; closing: get_db has yet to close.
Blocking == {"run", "connect", "handle", "model", "again"}
Pc == Blocking \cup {"idle", "await", "tool", "closing"}

\* left: unanswered messages; conn: holds a connection; age: ticks since the
\* message was taken; until: the age by which the model call has ended; tools:
\* tool calls still to make.
Job == [pc : Pc, left : Nat, conn : BOOLEAN, age : Nat, until : Nat, tools : Nat]
Idle == [pc |-> "idle", left |-> 0, conn |-> FALSE, age |-> 0, until |-> 0, tools |-> 0]

Holders == {d \in Delivery : job[d].conn}
PoolFree == PoolSize - Cardinality(Holders) - Cardinality(busy) - inTools

LoopFree == serving.call = None /\ \A d \in Delivery : job[d].pc \notin Blocking

Put(d, j) == job' = [job EXCEPT ![d] = j]
Goto(d, pc) == Put(d, [job[d] EXCEPT !.pc = pc])

\* The reply to a message is sent, or its sending fails and is logged; the next
\* message of the delivery follows on the spot.
Replied(j) ==
  [pc |-> IF j.left = 1 THEN "closing" ELSE "run", left |-> j.left - 1, conn |-> j.conn,
   age |-> 0, until |-> 0, tools |-> 0]
Reply(d) == Put(d, Replied(job[d]))

(***************************************************************************)
(* The webhooks.                                                           *)
(***************************************************************************)
Deliver(d, n) ==
  /\ LoopFree
  /\ job[d] = Idle
  /\ Put(d, [Idle EXCEPT !.pc = "run", !.left = n])
  /\ UNCHANGED <<toolVars, busy>>

\* A sticker, a follow, a wrong link secret: no table is read.
AnswerAtOnce(d) ==
  /\ job[d].pc = "run"
  /\ Reply(d)
  /\ UNCHANGED <<toolVars, busy>>

\* The first statement for a message takes a connection, or waits for one.
TakeMessage(d) ==
  /\ job[d].pc = "run"
  /\ IF job[d].conn \/ PoolFree > 0
       THEN Put(d, [job[d] EXCEPT !.pc = "handle", !.conn = TRUE])
       ELSE Goto(d, "connect")
  /\ UNCHANGED <<toolVars, busy>>

Connected(d) ==
  /\ job[d].pc = "connect"
  /\ PoolFree > 0
  /\ Put(d, [job[d] EXCEPT !.pc = "handle", !.conn = TRUE])
  /\ UNCHANGED <<toolVars, busy>>

\* The admin webhook answers an exception with an apology; in the user webhook it
\* ends the request, and the messages that are left get no answer.
Raised(d) ==
  IF d \in Admin
    THEN Reply(d)
    ELSE Put(d, [Idle EXCEPT !.pc = "closing", !.conn = job[d].conn])

\* Mutant of NoConnection: the checkout waits as long as it takes.
NoConnectionEver(d) == FALSE /\ Raised(d) /\ UNCHANGED <<toolVars, busy>>

NoConnection(d) ==
  /\ job[d].pc = "connect"
  /\ job[d].age >= PoolTimeout
  /\ Raised(d)
  /\ UNCHANGED <<toolVars, busy>>

\* A command, a language setting, a look-up: it may commit, which gives the
\* connection back, or raise.
HandleMessage(d) ==
  /\ job[d].pc = "handle"
  /\ \/ \E kept \in BOOLEAN : Put(d, [Replied(job[d]) EXCEPT !.conn = kept])
     \/ Raised(d)
  /\ UNCHANGED <<toolVars, busy>>

\* Other text of a user goes to a model; httpx leaves the loop to others, and
\* whatever it raises is caught and answered.
AskUserModel(d) ==
  /\ d \in User
  /\ job[d].pc = "handle"
  /\ Put(d, [job[d] EXCEPT !.pc = "await", !.age = 0])
  /\ UNCHANGED <<toolVars, busy>>

UserModelAnswers(d) ==
  /\ job[d].pc = "await"
  /\ LoopFree
  /\ Reply(d)
  /\ UNCHANGED <<toolVars, busy>>

\* Mutant of Close: the session is not closed.
CloseForgotten(d) ==
  /\ job[d].pc = "closing"
  /\ Put(d, [Idle EXCEPT !.conn = job[d].conn])
  /\ UNCHANGED <<toolVars, busy>>

\* get_db closes the session in a thread of its own.
Close(d) ==
  /\ job[d].pc = "closing"
  /\ Put(d, Idle)
  /\ UNCHANGED <<toolVars, busy>>

(***************************************************************************)
(* AdminChatbotService.get_reply.                                          *)
(***************************************************************************)
\* Mutant of CallModel: the second call gets the whole deadline again.
CallModelAfresh(d, pc) ==
  IF job[d].age < Deadline
    THEN Put(d, [job[d] EXCEPT !.pc = pc, !.until = job[d].age + Phases * Deadline])
    ELSE Reply(d)

\* requests.post with what _remaining_timeout leaves, for connecting and for
\* reading; with nothing left it raises, which get_reply answers with an apology.
CallModel(d, pc) ==
  IF job[d].age < Deadline
    THEN Put(d, [job[d] EXCEPT !.pc = pc, !.until = job[d].age + Phases * (Deadline - job[d].age)])
    ELSE Reply(d)

AskModel(d) ==
  /\ d \in Admin
  /\ job[d].pc = "handle"
  /\ CallModel(d, "model")
  /\ UNCHANGED <<toolVars, busy>>

\* The model answers, or the call fails.
ModelAnswers(d) ==
  /\ job[d].pc \in {"model", "again"}
  /\ Reply(d)
  /\ UNCHANGED <<toolVars, busy>>

\* It asks for tools: the loop is left to them at the first call.
ModelAsksTools(d) ==
  /\ job[d].pc = "model"
  /\ \E n \in 1..MaxTools[d] : Put(d, [job[d] EXCEPT !.pc = "tool", !.until = 0, !.tools = n])
  /\ calls' = calls \cup {d}
  /\ UNCHANGED <<orphans, serving, inTools, busy, window, admitted>>

\* Mutant of ToolAnswered: it is not waited for.
ToolAnsweredEarly(d) ==
  /\ job[d].pc = "tool"
  /\ LoopFree
  /\ \/ /\ job[d].tools > 1
        /\ Put(d, [job[d] EXCEPT !.tools = @ - 1])
        /\ calls' = calls \cup {d}
     \/ UNCHANGED calls /\ CallModel(d, "again")
     \/ UNCHANGED calls /\ Reply(d)
  /\ UNCHANGED <<orphans, serving, inTools, busy, window, admitted>>

\* The next tool; after the last one the second model call.  A tool that does not
\* exist or arguments that do not parse are told to the model or end in an apology.
ToolAnswered(d) ==
  /\ job[d].pc = "tool" /\ d \notin calls
  /\ LoopFree
  /\ \/ /\ job[d].tools > 1
        /\ Put(d, [job[d] EXCEPT !.tools = @ - 1])
        /\ calls' = calls \cup {d}
     \/ UNCHANGED calls /\ CallModel(d, "again")
     \/ UNCHANGED calls /\ Reply(d)
  /\ UNCHANGED <<orphans, serving, inTools, busy, window, admitted>>

\* McpClientError: the call is lost, refused with 401 or 503, or times out while
\* the server still has it.
ToolFails(d) ==
  /\ d \in calls /\ serving.call # d
  /\ LoopFree
  /\ calls' = calls \ {d}
  /\ orphans' \in {orphans} \cup {orphans + 1 : n \in 1..(MaxOrphans - orphans)}
  /\ UNCHANGED <<job, serving, inTools, busy, window, admitted>>

(***************************************************************************)
(* check_rate_limit.  All chats call with the bot's token and share its    *)
(* window.                                                                 *)
(***************************************************************************)
\* Mutant of Live: only one stale invocation is popped, an if for the while.
LivePopsOne(ages) == IF ages # <<>> /\ ages[1] >= Window THEN Tail(ages) ELSE ages

\* What is left when the stale ones have been popped from the left.
Stale(ages) == {i \in DOMAIN ages : \A j \in 1..i : ages[j] >= Window}
Live(ages) == SubSeq(ages, Cardinality(Stale(ages)) + 1, Len(ages))

\* Mutant of RetryAfter: the seconds are not rounded up.
RetryAfterTruncated(ages) == (Window - ages[1]) \div Second

RetryAfter(ages) == (Window - ages[1]) \div Second + 1

Counted == admitted' = [admitted EXCEPT ![0] = @ + 1]

\* Mutant of Admit: the invocation is appended on the left.
AdmitOnTheLeft == window' = <<0>> \o Live(window) /\ Counted

\* Mutant of Admit: the invocation is not appended.
AdmitQuietly == window' = Live(window) /\ Counted

Admit ==
  /\ window' = Append(Live(window), 0)
  /\ Counted

(***************************************************************************)
(* A tool is called: the window, the arguments, a session of its own.      *)
(***************************************************************************)
Call == calls \cup (IF orphans > 0 THEN {Orphan} ELSE {})
Answered(c) ==
  IF c = Orphan THEN orphans' = orphans - 1 /\ UNCHANGED calls
                ELSE calls' = calls \ {c} /\ UNCHANGED orphans
\* stage: waiting for a connection or having one; wrote: it has committed.
Serving == [call : Admin \cup {None, Orphan}, stage : {"connect", "query"}, age : Nat, wrote : BOOLEAN]
Served(c, stage) == [call |-> c, stage |-> stage, age |-> 0, wrote |-> FALSE]
NotServing == Served(None, "connect")

\* ToolError: too many calls, and when to come back.
RefuseCall(c) ==
  /\ LoopFree /\ c \in Call
  /\ Len(Live(window)) >= Limit
  /\ window' = Live(window)
  /\ Answered(c)
  /\ UNCHANGED <<job, serving, inTools, busy, admitted>>

\* ToolError: the lot, the type or a date is not valid.
RejectCall(c) ==
  /\ LoopFree /\ c \in Call
  /\ Len(Live(window)) < Limit
  /\ Admit
  /\ Answered(c)
  /\ UNCHANGED <<job, serving, inTools, busy>>

StartCall(c) ==
  /\ LoopFree /\ c \in Call
  /\ Len(Live(window)) < Limit
  /\ Admit
  /\ IF PoolFree > 0
       THEN serving' = Served(c, "query") /\ inTools' = inTools + 1
       ELSE serving' = Served(c, "connect") /\ UNCHANGED inTools
  /\ UNCHANGED <<job, calls, orphans, busy>>

CallConnected ==
  /\ serving.call # None /\ serving.stage = "connect"
  /\ PoolFree > 0
  /\ serving' = [serving EXCEPT !.stage = "query", !.age = 0]
  /\ inTools' = inTools + 1
  /\ UNCHANGED <<job, calls, orphans, busy, window, admitted>>

CallUnconnected ==
  /\ serving.call # None /\ serving.stage = "connect"
  /\ serving.age >= PoolTimeout
  /\ serving' = NotServing
  /\ Answered(serving.call)
  /\ UNCHANGED <<job, inTools, busy, window, admitted>>

\* mark_anomaly_reviewed commits, which gives the connection back, and refreshes
\* its row, which takes one again if a thread has not been quicker.
CommitCall ==
  /\ serving.call # None /\ serving.stage = "query" /\ ~serving.wrote
  /\ serving' = [serving EXCEPT !.stage = "connect", !.wrote = TRUE]
  /\ inTools' = inTools - 1
  /\ UNCHANGED <<job, calls, orphans, busy, window, admitted>>

\* Mutant of FinishCall: a ToolError leaves the session open.
FinishCallInError ==
  /\ serving.call # None /\ serving.stage = "query"
  /\ inTools' \in {inTools, inTools - 1}
  /\ serving' = NotServing
  /\ Answered(serving.call)
  /\ UNCHANGED <<job, busy, window, admitted>>

\* The service answers or the tool raises; session_scope closes the session.
FinishCall ==
  /\ serving.call # None /\ serving.stage = "query"
  /\ inTools' = inTools - 1
  /\ serving' = NotServing
  /\ Answered(serving.call)
  /\ UNCHANGED <<job, busy, window, admitted>>

(***************************************************************************)
(* Threads of the rest of the program, and time.                           *)
(***************************************************************************)
Borrow(w) ==
  /\ w \notin busy /\ PoolFree > 0
  /\ busy' = busy \cup {w}
  /\ UNCHANGED <<job, toolVars>>

Return(w) ==
  /\ w \in busy
  /\ busy' = busy \ {w}
  /\ UNCHANGED <<job, toolVars>>

Longest(a, b) == IF a > b THEN a ELSE b
Older(age, limit) == IF age < limit THEN age + 1 ELSE age
InModel(d) == job[d].pc \in {"model", "again"}

\* A chat's message ages from when it was taken, a user's while it waits for a
\* connection; an age past what it is compared with stays there.
Aged(d) ==
  IF InModel(d) THEN job[d].age + 1
  ELSE IF job[d].pc = "connect" \/ (d \in Admin /\ job[d].pc \in {"handle", "tool"})
         THEN Older(job[d].age, Longest(PoolTimeout, Deadline))
         ELSE job[d].age

\* Time passes; a model call that is due ends first.
Tick ==
  /\ \A d \in Delivery : InModel(d) => job[d].age < job[d].until
  /\ job' = [d \in Delivery |-> [job[d] EXCEPT !.age = Aged(d)]]
  /\ serving' = IF serving.call = None \/ serving.stage = "query" THEN serving
                  ELSE [serving EXCEPT !.age = Older(@, PoolTimeout)]
  /\ window' = [i \in DOMAIN window |-> Older(window[i], Window)]
  /\ admitted' = [a \in 0..(Window - 1) |-> IF a = 0 THEN 0 ELSE admitted[a - 1]]
  /\ UNCHANGED <<calls, orphans, inTools, busy>>

-----------------------------------------------------------------------------
Init ==
  /\ job = [d \in Delivery |-> Idle]
  /\ calls = {} /\ orphans = 0
  /\ serving = NotServing
  /\ inTools = 0
  /\ busy = {}
  /\ window = <<>> /\ admitted = [a \in 0..(Window - 1) |-> 0]

Handle(d) ==
  \/ AnswerAtOnce(d) \/ TakeMessage(d) \/ Connected(d) \/ NoConnection(d) \/ HandleMessage(d)
  \/ AskUserModel(d) \/ UserModelAnswers(d) \/ Close(d)
  \/ AskModel(d) \/ ModelAnswers(d) \/ ModelAsksTools(d) \/ ToolAnswered(d)

Serve(c) == RefuseCall(c) \/ RejectCall(c) \/ StartCall(c)
EndCall == CallConnected \/ CallUnconnected \/ CommitCall \/ FinishCall

Next ==
  \/ \E d \in Delivery : \E n \in 1..MaxMessages[d] : Deliver(d, n)
  \/ \E d \in Delivery : Handle(d) \/ ToolFails(d)
  \/ \E c \in Admin \cup {Orphan} : Serve(c)
  \/ EndCall
  \/ \E w \in Worker : Borrow(w) \/ Return(w)
  \/ Tick

\* The loop runs what is ready first in, first out, so what is ready again and
\* again gets its turn; the model and LINE answer in the end, and time passes.
\* The thread that closes a session is started by the loop.  Nothing obliges LINE
\* to deliver, a call to fail or a worker to give its connection back.
Fairness ==
  /\ \A d \in Delivery : SF_botVars(Handle(d) /\ (job[d].pc = "closing" => LoopFree))
  /\ \A c \in Admin : SF_botVars(Serve(c))
  /\ WF_botVars(EndCall)
  /\ WF_botVars(Tick)

Spec == Init /\ [][Next]_botVars /\ Fairness

-----------------------------------------------------------------------------
(***************************************************************************)
(* Properties.                                                             *)
(***************************************************************************)
\* Every variable has its type; a call belongs to a chat that waits for it.
BotsTypeOK ==
  /\ job \in [Delivery -> Job]
  /\ calls \subseteq {d \in Admin : job[d].pc = "tool"}
  /\ orphans \in Nat
  /\ serving \in Serving
  /\ inTools \in Int
  /\ busy \in SUBSET Worker
  /\ window \in Seq(0..Window) /\ admitted \in [0..(Window - 1) -> Nat]

\* However a message or a tool ends (an answer, an exception, a timeout, a caller
\* that has given up), its connection is back in the pool: a session of a tool is
\* open only while its query keeps the loop, a delivery that has ended holds
\* nothing, and the pool never gives out more than it has.
ConnectionsReturned ==
  /\ PoolFree \in 0..PoolSize
  /\ \A d \in Delivery : job[d].pc = "idle" => ~job[d].conn
  /\ inTools = IF serving.call # None /\ serving.stage = "query" THEN 1 ELSE 0

\* A question keeps the loop waiting for the model no later than Phases deadlines
\* after it was taken, whatever its connection and its tools have cost it: the
\* second call of the model gets what they have left, or is not made.
DeadlineKept == \A d \in Delivery : InModel(d) => job[d].age <= Phases * Deadline

\* Every call that was admitted, also one that failed, is in the window for as long
\* as it counts.
CountsEveryCall ==
  \A a \in 0..(Window - 1) : admitted[a] = Cardinality({i \in DOMAIN window : window[i] = a})

\* No more than Limit calls are admitted within a window.
QuotaKept == Cardinality({i \in DOMAIN window : window[i] < Window}) <= Limit

\* What is popped from the left is the oldest.
OldestFirst == \A i, j \in DOMAIN window : i < j => window[i] >= window[j]

\* No call is refused for one that no longer counts.
OnlyLiveCount == \A i \in DOMAIN Live(window) : Live(window)[i] < Window

\* Who comes back after the seconds a refusal names finds the oldest call gone.
RetryFindsRoom ==
  LET live == Live(window) IN
  live # <<>> => live[1] + RetryAfter(live) * Second >= Window

\* The sliding window of check_rate_limit, which every chat of the bot shares,
\* means what it tells a client.
WindowHonest ==
  CountsEveryCall /\ QuotaKept /\ OldestFirst /\ OnlyLiveCount /\ RetryFindsRoom

\* Every delivery ends, although a chat keeps its connection while it waits for a
\* tool that needs another one on the loop the chat may keep: a pool emptied by
\* chats and workers delays it, and never stops the bots for good.
EveryDeliveryEnds ==
  \A d \in Delivery : job[d].pc # "idle" ~> job[d].pc = "idle"
=============================================================================
