-------------------------- MODULE AdminAccessProofs -------------------------
(***************************************************************************)
(* Proofs about admin access, for any addresses, threads and lifetimes:    *)
(* types, one account per address and identity, the attempt to mail, and   *)
(* the stream sessions as StreamAccess promises them.                      *)
(***************************************************************************)
EXTENDS AdminAccess, TLAPS

Request == [pc : Pc, id : Nat, seen : Admin, email : Email,
            want : Status \cup Role, token : Token]

IdsDrawn == \A a \in admins : a.id <= lastId

\* A token is valid no longer than its login allows, and that login is on record.
TokenOK(t) ==
  /\ t.exp <= t.login + TokenLife
  /\ \E u \in tokens : u.purpose = "access" /\ u.id = t.id /\ u.by = t.by /\ u.login = t.login

\* What a request relies on.
RequestOK(q) ==
  /\ q.pc = "cookie" => q.token \in tokens
  /\ q.pc \in {"load", "mail", "decide"} => q.want \in Decision
  /\ q.pc = "decide" /\ q.want = "approved" => Tried(q.id)

AccessInv ==
  /\ AccessTypeOK
  /\ IdsDrawn
  /\ OneAccountEach
  /\ MailTriedFirst
  /\ \A t \in tokens : TokenOK(t)
  /\ \A h \in Handler : RequestOK(handler[h])

-----------------------------------------------------------------------------
LEMMA IdleType == Idle \in Request /\ RequestOK(Idle)
BY AccessAssumption DEF Idle, Request, NoRow, NoToken, Admin, Token, Role, Status, Decision, Pc, RequestOK, Tried

\* The rows do not change: a request moves on.
LEMMA RequestMoves ==
  ASSUME AccessInv, NEW h \in Handler, NEW q \in Request, Set(h, q),
         UNCHANGED <<admins, lastId, tokens, served, now>>,
         mailed \subseteq mailed', mailed' \in SUBSET [account : Nat, sent : BOOLEAN], requests' \in Nat, faults' \in Nat,
         RequestOK(q)'
  PROVE  AccessInv'
<1>1. handler \in [Handler -> Request]
  BY DEF AccessInv, AccessTypeOK, Request
<1>2. handler' \in [Handler -> Request] /\ \A g \in Handler : handler'[g] = IF g = h THEN q ELSE handler[g]
  BY <1>1 DEF Set
<1>3. AccessTypeOK'
  BY <1>2 DEF AccessInv, AccessTypeOK, Request
<1>4. IdsDrawn' /\ OneAccountEach' /\ MailTriedFirst'
  BY DEF AccessInv, IdsDrawn, OneAccountEach, MailTriedFirst, Tried
<1>5. \A t \in tokens' : TokenOK(t)'
  BY DEF AccessInv, TokenOK
<1>6. \A g \in Handler : RequestOK(handler[g])'
  BY <1>2 DEF AccessInv, RequestOK, Tried
<1> QED
  BY <1>3, <1>4, <1>5, <1>6 DEF AccessInv

\* The rows change, and a request moves on.
LEMMA RowsMove ==
  ASSUME AccessInv, NEW h \in Handler, NEW q \in Request, Set(h, q) \/ UNCHANGED handler,
         UNCHANGED <<tokens, mailed, served, now, faults>>, requests' \in Nat,
         admins' \in SUBSET Admin, lastId' \in Nat,
         IdsDrawn', OneAccountEach', MailTriedFirst',
         q.pc \in {"idle", "answer"}
  PROVE  AccessInv'
<1>1. handler \in [Handler -> Request]
  BY DEF AccessInv, AccessTypeOK, Request
<1>2. handler' \in [Handler -> Request]
      /\ \A g \in Handler : handler'[g] = handler[g] \/ handler'[g] = q
  BY <1>1 DEF Set
<1>3. AccessTypeOK'
  BY <1>2 DEF AccessInv, AccessTypeOK, Request
<1>4. \A t \in tokens' : TokenOK(t)'
  BY DEF AccessInv, TokenOK
<1>5. \A g \in Handler : RequestOK(handler[g])'
  BY <1>2 DEF AccessInv, RequestOK, Tried
<1> QED
  BY <1>3, <1>4, <1>5 DEF AccessInv

\* A token is signed, and the request ends.
LEMMA TokenSigned ==
  ASSUME AccessInv, NEW h \in Handler, NEW t \in Token, tokens' = tokens \cup {t},
         t.exp <= t.login + TokenLife,
         \E u \in tokens' : u.purpose = "access" /\ u.id = t.id /\ u.by = t.by /\ u.login = t.login,
         Set(h, Idle), UNCHANGED <<admins, lastId, mailed, served, now, requests, faults>>
  PROVE  AccessInv'
<1>1. handler \in [Handler -> Request]
  BY DEF AccessInv, AccessTypeOK, Request
<1>2. handler' \in [Handler -> Request] /\ \A g \in Handler : handler'[g] = IF g = h THEN Idle ELSE handler[g]
  BY <1>1, IdleType DEF Set
<1>3. AccessTypeOK'
  BY <1>2 DEF AccessInv, AccessTypeOK, Request
<1>4. IdsDrawn' /\ OneAccountEach' /\ MailTriedFirst'
  BY DEF AccessInv, IdsDrawn, OneAccountEach, MailTriedFirst, Tried
<1>5. \A u \in tokens' : TokenOK(u)'
  BY DEF AccessInv, TokenOK
<1>6. \A g \in Handler : RequestOK(handler[g])'
  BY <1>2 DEF AccessInv, RequestOK, Idle, Tried
<1> QED
  BY <1>3, <1>4, <1>5, <1>6 DEF AccessInv

-----------------------------------------------------------------------------
LEMMA InitInv == Init => AccessInv
<1> SUFFICES ASSUME Init PROVE AccessInv
  OBVIOUS
<1>1. AccessTypeOK
  BY IdleType, AccessAssumption DEF Init, AccessTypeOK, Request, Admin, Token, Role, Status, Decision
<1>2. IdsDrawn /\ OneAccountEach /\ MailTriedFirst
  BY DEF Init, IdsDrawn, OneAccountEach, MailTriedFirst, Tried
<1>3. \A t \in tokens : TokenOK(t)
  BY AccessAssumption DEF Init, TokenOK
<1>4. \A h \in Handler : RequestOK(handler[h])
  BY DEF Init, RequestOK, Idle, Tried
<1> QED
  BY <1>1, <1>2, <1>3, <1>4 DEF AccessInv

\* The requests that start, and those that only read.
LEMMA SignInInv ==
  ASSUME AccessInv, NEW e \in Email, SignIn(e)
  PROVE  AccessInv'
<1>1. PICK q : /\ Set(Loop, q)
               /\ \/ q = [Idle EXCEPT !.pc = "insert", !.email = e]
                  \/ \E a \in admins : q = [Idle EXCEPT !.pc = "rejoin", !.email = e, !.id = a.id, !.seen = a]
  BY DEF SignIn, Named
<1>2. q \in Request /\ q.pc \in {"insert", "rejoin"}
  BY <1>1, IdleType DEF Request, Pc, Admin, AccessInv, AccessTypeOK
<1>3. /\ UNCHANGED <<admins, lastId, tokens, served, now>> /\ mailed \subseteq mailed'
      /\ mailed' \in SUBSET [account : Nat, sent : BOOLEAN] /\ requests' \in Nat /\ faults' \in Nat
  <2>1. UNCHANGED <<admins, lastId, tokens, mailed, served, now, faults>> /\ Begin
    BY Zenon DEF SignIn
  <2> QED
    BY <2>1 DEF Begin, AccessInv, AccessTypeOK
<1>4. RequestOK(q)'
  BY <1>2 DEF RequestOK, Tried
<1>5. Loop \in Handler /\ Set(Loop, q)
  BY <1>1 DEF Handler, Set
<1> QED
  BY <1>2, <1>3, <1>4, <1>5, RequestMoves

Starts(q) ==
  /\ q.pc # "decide"
  /\ q.pc = "cookie" => q.token \in tokens
  /\ q.pc \in {"load", "mail"} => q.want \in Decision

LEMMA StartInv ==
  ASSUME AccessInv, NEW h \in Thread,
         \/ \E e \in Email : Login(h, e)
         \/ \E t \in tokens, i \in 1..lastId, d \in Decision : Review(h, t, i, d)
         \/ \E t \in tokens, e \in Email : StartCreate(h, t, e)
         \/ \E t \in tokens : StartSession(h, t)
  PROVE  AccessInv'
<1>1. UNCHANGED <<admins, lastId, tokens, mailed, served, now, faults>> /\ Begin
  BY ZenonT(30) DEF Login, Review, StartCreate, StartSession
<1>2. PICK q \in Request : Set(h, q) /\ Starts(q)
  <2>1. ASSUME NEW e \in Email, Login(h, e)
        PROVE  \E q \in Request : Set(h, q) /\ Starts(q)
    <3>1. PICK a \in admins : Set(h, [Idle EXCEPT !.pc = "issue", !.id = a.id])
      BY <2>1 DEF Login, Named
    <3>2. a.id \in Nat
      BY DEF AccessInv, AccessTypeOK, Admin
    <3>3. [Idle EXCEPT !.pc = "issue", !.id = a.id] \in Request
      BY <3>2, IdleType DEF Request, Pc
    <3> QED
      BY <3>1, <3>3, IdleType DEF Request, Starts
  <2>2. ASSUME NEW t \in tokens, NEW i \in 1..lastId, NEW d \in Decision, Review(h, t, i, d)
        PROVE  \E q \in Request : Set(h, q) /\ Starts(q)
    <3>1. Set(h, [Idle EXCEPT !.pc = "load", !.id = i, !.want = d])
      BY <2>2 DEF Review
    <3>2. i \in Nat
      BY DEF AccessInv, AccessTypeOK
    <3>3. [Idle EXCEPT !.pc = "load", !.id = i, !.want = d] \in Request
      BY <3>2, IdleType DEF Request, Pc, Status
    <3> QED
      BY <3>1, <3>3, IdleType DEF Request, Starts
  <2>3. ASSUME NEW t \in tokens, NEW e \in Email, StartCreate(h, t, e)
        PROVE  \E q \in Request : Set(h, q) /\ Starts(q)
    <3>1. [Idle EXCEPT !.pc = "check", !.email = e] \in Request
      BY IdleType DEF Request, Pc
    <3> QED
      BY <2>3, <3>1, IdleType DEF Request, StartCreate, Starts
  <2>4. ASSUME NEW t \in tokens, StartSession(h, t)
        PROVE  \E q \in Request : Set(h, q) /\ Starts(q)
    <3>1. t \in Token
      BY DEF AccessInv, AccessTypeOK
    <3>2. [Idle EXCEPT !.pc = "cookie", !.token = t] \in Request
      BY <3>1, IdleType DEF Request, Pc
    <3> QED
      BY <2>4, <3>2, IdleType DEF Request, StartSession, Starts
  <2> QED
    BY <2>1, <2>2, <2>3, <2>4
<1>3. RequestOK(q)'
  BY <1>1, <1>2 DEF RequestOK, Starts, Tried
<1>4. h \in Handler /\ mailed \subseteq mailed' /\ mailed' \in SUBSET [account : Nat, sent : BOOLEAN] /\ requests' \in Nat /\ faults' \in Nat
  BY <1>1 DEF Handler, AccessInv, AccessTypeOK, Begin
<1> QED
  BY <1>1, <1>2, <1>3, <1>4, RequestMoves

LEMMA ReadInv ==
  ASSUME AccessInv, NEW h \in Thread, Load(h) \/ Mail(h) \/ Check(h)
  PROVE  AccessInv'
<1>0. handler[h] \in Request /\ h \in Handler /\ RequestOK(handler[h])
  BY DEF AccessInv, AccessTypeOK, Request, Handler
<1>1. /\ UNCHANGED <<admins, lastId, tokens, served, now>> /\ mailed \subseteq mailed'
      /\ requests' \in Nat /\ faults' \in Nat
  BY DEF Load, Mail, Check, AccessInv, AccessTypeOK
<1>2. CASE Load(h)
  <2>1. PICK q : /\ Set(h, q)
                 /\ \/ q = Idle
                    \/ \E a \in Admin : q = [handler[h] EXCEPT !.pc = "mail", !.seen = a]
                    \/ /\ \E a \in Admin : q = [handler[h] EXCEPT !.pc = "decide", !.seen = a]
                       /\ handler[h].want # "approved"
    BY <1>0, <1>2 DEF Load, Rows, AccessInv, AccessTypeOK, Request
  <2>2. q \in Request
    BY <1>0, <2>1, IdleType DEF Request, Pc
  <2>3. /\ q.pc # "cookie"
        /\ q.pc = "decide" => q.want # "approved"
        /\ q.pc \in {"load", "mail", "decide"} => q.want \in Decision
    <3>0. handler[h].want \in Decision
      BY <1>0, <1>2 DEF Load, At, RequestOK, Tried
    <3>1. CASE q = Idle
      BY <3>1 DEF Idle
    <3>2. CASE \E a \in Admin : q = [handler[h] EXCEPT !.pc = "mail", !.seen = a]
      BY <1>0, <3>0, <3>2 DEF Request
    <3>3. CASE /\ \E a \in Admin : q = [handler[h] EXCEPT !.pc = "decide", !.seen = a]
               /\ handler[h].want # "approved"
      BY <1>0, <3>0, <3>3 DEF Request
    <3> QED
      BY <2>1, <3>1, <3>2, <3>3
  <2>4. RequestOK(q)' /\ mailed' \in SUBSET [account : Nat, sent : BOOLEAN]
    BY <1>2, <2>3 DEF RequestOK, Load, AccessInv, AccessTypeOK, Tried
  <2>5. Set(h, q)
    BY <2>1 DEF Set
  <2> QED
    BY <1>0, <1>1, <2>2, <2>4, <2>5, RequestMoves
<1>3. CASE Mail(h)
  <2>1. PICK q : q = [handler[h] EXCEPT !.pc = "decide"]
    OBVIOUS
  <2>2. q \in Request /\ q.pc = "decide" /\ q.id = handler[h].id /\ q.id \in Nat
        /\ q.want = handler[h].want
    BY <1>0, <2>1 DEF Request, Pc
  <2>3. Set(h, q) /\ \E sent \in BOOLEAN : mailed' = mailed \cup {[account |-> q.id, sent |-> sent]}
    BY <1>3, <2>1, <2>2 DEF Mail, Go
  <2>4. PICK m \in [account : Nat, sent : BOOLEAN] : m.account = q.id /\ mailed' = mailed \cup {m}
    BY <2>2, <2>3
  <2>5. mailed' \in SUBSET [account : Nat, sent : BOOLEAN]
    BY <2>4 DEF AccessInv, AccessTypeOK
  <2>6. Tried(q.id)'
    BY <2>4 DEF Tried
  <2>7. q.want \in Decision
    BY <1>0, <1>3, <2>2 DEF RequestOK, Mail, At
  <2>8. RequestOK(q)'
    BY <2>2, <2>6, <2>7 DEF RequestOK
  <2> QED
    BY <1>0, <1>1, <2>2, <2>3, <2>5, <2>8, RequestMoves
<1>4. CASE Check(h)
  <2>1. PICK q : Set(h, q) /\ (q = Idle \/ q = [handler[h] EXCEPT !.pc = "create"])
    BY <1>4 DEF Check, Go
  <2>2. q \in Request /\ q.pc \in {"idle", "create"}
    BY <1>0, <2>1, IdleType DEF Request, Pc, Idle
  <2>3. RequestOK(q)' /\ mailed' \in SUBSET [account : Nat, sent : BOOLEAN]
    BY <1>4, <2>2 DEF RequestOK, Check, AccessInv, AccessTypeOK, Tried
  <2> QED
    BY <1>0, <1>1, <2>1, <2>2, <2>3, RequestMoves
<1> QED
  BY <1>2, <1>3, <1>4

\* The requests that write rows.
LEMMA InsertNewInv ==
  ASSUME AccessInv, InsertNew
  PROVE  AccessInv'
<1>0. handler[Loop] \in Request /\ Loop \in Handler /\ lastId \in Nat
  BY DEF AccessInv, AccessTypeOK, Request, Handler
<1>1. PICK a : a = [id |-> lastId + 1, email |-> handler[Loop].email, sub |-> handler[Loop].email,
                    password |-> FALSE, role |-> "operator", status |-> "pending"]
  OBVIOUS
<1>2. a \in Admin /\ a.id = lastId + 1 /\ a.status = "pending"
  BY <1>0, <1>1 DEF Admin, Role, Status, Request
<1>3. /\ lastId' = lastId + 1
      /\ UNCHANGED <<tokens, mailed, served, now, requests, faults>>
      /\ \/ Set(Loop, Idle) /\ UNCHANGED admins
         \/ /\ ~Clash(a)
            /\ admins' = admins \cup {a}
            /\ Set(Loop, [handler[Loop] EXCEPT !.pc = "answer", !.id = a.id])
  BY <1>1 DEF InsertNew
<1>4. PICK q \in Request : Set(Loop, q) /\ q.pc \in {"idle", "answer"}
  <2>1. a.id \in Nat
    BY <1>0, <1>2
  <2>2. [handler[Loop] EXCEPT !.pc = "answer", !.id = a.id] \in Request
    BY <1>0, <2>1 DEF Request, Pc
  <2>3. CASE Set(Loop, Idle)
    BY <2>3, IdleType DEF Idle
  <2>4. CASE Set(Loop, [handler[Loop] EXCEPT !.pc = "answer", !.id = a.id])
    BY <1>0, <2>2, <2>4 DEF Request
  <2> QED
    BY <1>3, <2>3, <2>4
<1>5. admins' = admins \/ (~Clash(a) /\ admins' = admins \cup {a})
  BY <1>3
<1>6. admins' \in SUBSET Admin /\ IdsDrawn'
  BY <1>0, <1>2, <1>3, <1>5 DEF AccessInv, AccessTypeOK, IdsDrawn, Admin
<1>7. OneAccountEach'
  <2>1. \A b \in admins : b.id # a.id
    BY <1>0, <1>2 DEF AccessInv, AccessTypeOK, IdsDrawn, Admin
  <2>2. ~Clash(a) => \A b \in admins : ~(b.email = a.email \/ (b.sub = a.sub /\ a.sub # NoSub))
    BY <2>1 DEF Clash
  <2> QED
    BY <1>5, <2>1, <2>2 DEF AccessInv, OneAccountEach
<1>8. MailTriedFirst'
  BY <1>2, <1>3, <1>5 DEF AccessInv, MailTriedFirst, Tried
<1>9. requests' \in Nat /\ lastId' \in Nat
  BY <1>0, <1>3 DEF AccessInv, AccessTypeOK
<1> QED
  BY <1>0, <1>3, <1>4, <1>6, <1>7, <1>8, <1>9, RowsMove

LEMMA CreateInv ==
  ASSUME AccessInv, NEW h \in Thread, Create(h)
  PROVE  AccessInv'
<1>0. handler[h] \in Request /\ h \in Handler /\ lastId \in Nat
  BY DEF AccessInv, AccessTypeOK, Request, Handler
<1>1. PICK a : /\ \E role \in Role : a = [id |-> lastId + 1, email |-> handler[h].email, sub |-> NoSub,
                                          password |-> TRUE, role |-> role, status |-> "approved"]
               /\ admins' = IF Clash(a) THEN admins ELSE admins \cup {a}
  BY DEF Create
<1>2. a \in Admin /\ a.id = lastId + 1 /\ a.password /\ a.sub = NoSub
  BY <1>0, <1>1 DEF Admin, Role, Status, Request, Decision
<1>3. lastId' = lastId + 1 /\ UNCHANGED <<tokens, mailed, served, now, requests, faults>> /\ Set(h, Idle)
  BY DEF Create
<1>4. Idle.pc = "idle"
  BY DEF Idle
<1>5. admins' = admins \/ (~Clash(a) /\ admins' = admins \cup {a})
  BY <1>1
<1>6. admins' \in SUBSET Admin /\ IdsDrawn'
  BY <1>0, <1>2, <1>3, <1>5 DEF AccessInv, AccessTypeOK, IdsDrawn, Admin
<1>7. OneAccountEach'
  <2>1. \A b \in admins : b.id # a.id
    BY <1>0, <1>2 DEF AccessInv, AccessTypeOK, IdsDrawn, Admin
  <2>2. ~Clash(a) => \A b \in admins : b.email # a.email
    BY <2>1 DEF Clash
  <2> QED
    BY <1>2, <1>5, <2>1, <2>2 DEF AccessInv, OneAccountEach
<1>8. MailTriedFirst'
  BY <1>2, <1>3, <1>5 DEF AccessInv, MailTriedFirst, Tried
<1>9. requests' \in Nat /\ lastId' \in Nat
  BY <1>0, <1>3 DEF AccessInv, AccessTypeOK
<1> QED
  BY <1>0, <1>3, <1>4, <1>6, <1>7, <1>8, <1>9, IdleType, RowsMove

LEMMA RejoinInv ==
  ASSUME AccessInv, Rejoin
  PROVE  AccessInv'
<1>0. handler[Loop] \in Request /\ Loop \in Handler
  BY DEF AccessInv, AccessTypeOK, Request, Handler
<1>1. UNCHANGED <<lastId, tokens, mailed, served, now, requests, faults>>
  BY DEF Rejoin
<1>2. PICK q \in Request : Set(Loop, q) /\ q.pc \in {"idle", "answer"}
  <2>1. [handler[Loop] EXCEPT !.pc = "answer"] \in Request
    BY <1>0 DEF Request, Pc
  <2>2. Set(Loop, Idle) \/ Go(Loop, "answer")
    BY DEF Rejoin
  <2> QED
    BY <1>0, <2>1, <2>2, IdleType DEF Request, Idle, Go
<1>3. requests' \in Nat /\ lastId' \in Nat
  BY <1>1 DEF AccessInv, AccessTypeOK
<1>4. admins' \in SUBSET Admin /\ IdsDrawn' /\ OneAccountEach' /\ MailTriedFirst'
  <2>1. CASE UNCHANGED admins
    BY <1>1, <2>1 DEF AccessInv, AccessTypeOK, IdsDrawn, OneAccountEach, MailTriedFirst, Tried
  <2>2. CASE ~UNCHANGED admins
    <3>0. PICK a \in admins : LET b == Rejoined(a, handler[Loop].seen, handler[Loop].email)
                              IN ~Clash(b) /\ admins' = (admins \ {a}) \cup {b}
      BY <2>2 DEF Rejoin, Rows
    <3>1. PICK b : /\ b = Rejoined(a, handler[Loop].seen, handler[Loop].email)
                   /\ ~Clash(b) /\ admins' = (admins \ {a}) \cup {b}
      BY <3>0
    <3>2. a \in Admin /\ handler[Loop].email \in Email
      BY <1>0 DEF AccessInv, AccessTypeOK, Request
    <3>3. /\ b \in Admin /\ b.id = a.id /\ b.email = a.email /\ b.password = a.password
          /\ b.status = a.status \/ b.status = "pending"
      BY <3>1, <3>2 DEF Rejoined, Admin, Status
    <3>4. admins' \in SUBSET Admin /\ IdsDrawn'
      BY <1>1, <3>1, <3>3 DEF AccessInv, AccessTypeOK, IdsDrawn
    <3>5. OneAccountEach'
      BY <3>1, <3>3 DEF AccessInv, OneAccountEach, Clash
    <3>6. MailTriedFirst'
      BY <1>1, <3>1, <3>3 DEF AccessInv, MailTriedFirst, Tried
    <3> QED
      BY <3>4, <3>5, <3>6
  <2> QED
    BY <2>1, <2>2
<1> QED
  BY <1>0, <1>1, <1>2, <1>3, <1>4, RowsMove

LEMMA DecideInv ==
  ASSUME AccessInv, NEW h \in Thread, Decide(h)
  PROVE  AccessInv'
<1>0. handler[h] \in Request /\ h \in Handler /\ RequestOK(handler[h])
  BY DEF AccessInv, AccessTypeOK, Request, Handler
<1>1. UNCHANGED <<lastId, tokens, mailed, served, now, requests, faults>> /\ Set(h, Idle) /\ At(h, "decide")
  BY DEF Decide
<1>2. requests' \in Nat /\ lastId' \in Nat /\ Idle.pc = "idle"
  BY <1>1 DEF AccessInv, AccessTypeOK, Idle
<1>3. admins' \in SUBSET Admin /\ IdsDrawn' /\ OneAccountEach' /\ MailTriedFirst'
  <2>1. CASE UNCHANGED admins
    BY <1>1, <2>1 DEF AccessInv, AccessTypeOK, IdsDrawn, OneAccountEach, MailTriedFirst, Tried
  <2>2. CASE ~UNCHANGED admins
    <3>1. PICK i, want : i = handler[h].id /\ want = handler[h].want
      OBVIOUS
    <3>2. PICK f : f = [a \in admins |-> IF a.id = i THEN [a EXCEPT !.status = want] ELSE a]
      OBVIOUS
    <3>3. admins' = {f[a] : a \in admins}
      BY <2>2, <3>1, <3>2 DEF Decide
    <3>4. want \in Status
      <4>1. want \in Decision
        BY <1>0, <1>1, <3>1 DEF At, RequestOK, Tried
      <4> QED
        BY <4>1 DEF Status
    <3>5. \A a \in admins : /\ f[a] \in Admin /\ f[a].id = a.id /\ f[a].email = a.email
                            /\ f[a].sub = a.sub /\ f[a].password = a.password
                            /\ f[a].status = a.status \/ (a.id = i /\ f[a].status = want)
      BY <3>2, <3>4 DEF AccessInv, AccessTypeOK, Admin
    <3>6. admins' \in SUBSET Admin /\ IdsDrawn'
      BY <1>1, <3>3, <3>5 DEF AccessInv, IdsDrawn
    <3>7. OneAccountEach'
      BY <3>3, <3>5 DEF AccessInv, OneAccountEach
    <3>8. want = "approved" => Tried(i)
      BY <1>0, <1>1, <3>1 DEF At, RequestOK, Tried
    <3>9. MailTriedFirst'
      BY <1>1, <3>3, <3>5, <3>8 DEF AccessInv, MailTriedFirst, Tried
    <3> QED
      BY <3>6, <3>7, <3>9
  <2> QED
    BY <2>1, <2>2
<1> QED
  BY <1>0, <1>1, <1>2, <1>3, IdleType, RowsMove

LEMMA UpdateInv ==
  ASSUME AccessInv, NEW t \in tokens, NEW i \in 1..lastId, Update(t, i)
  PROVE  AccessInv'
<1>1. PICK a \in admins, caller \in admins :
        Set(Loop, [Idle EXCEPT !.pc = "edit", !.id = i, !.seen = a, !.want = caller.role])
  BY DEF Update, Rows
<1>2. PICK q : q = [Idle EXCEPT !.pc = "edit", !.id = i, !.seen = a, !.want = caller.role]
  OBVIOUS
<1>3. q \in Request /\ q.pc = "edit"
  <2>1. a \in Admin /\ caller.role \in Role /\ i \in Nat
    BY DEF AccessInv, AccessTypeOK, Admin
  <2> QED
    BY <1>2, <2>1, IdleType DEF Request, Pc
<1>4. UNCHANGED <<admins, lastId, tokens, mailed, served, now, faults>> /\ Begin
  BY DEF Update
<1>5. /\ mailed \subseteq mailed' /\ mailed' \in SUBSET [account : Nat, sent : BOOLEAN] /\ requests' \in Nat /\ faults' \in Nat
      /\ RequestOK(q)' /\ Loop \in Handler
  BY <1>3, <1>4 DEF AccessInv, AccessTypeOK, Begin, RequestOK, Handler, Tried
<1> QED
  BY <1>1, <1>2, <1>3, <1>4, <1>5, RequestMoves

LEMMA EditInv ==
  ASSUME AccessInv, NEW e \in Email, NEW role \in Role, NEW password \in BOOLEAN, Edit(e, role, password)
  PROVE  AccessInv'
<1>0. handler[Loop] \in Request /\ Loop \in Handler
  BY DEF AccessInv, AccessTypeOK, Request, Handler
<1>1. UNCHANGED <<lastId, tokens, mailed, served, now, requests, faults>> /\ Set(Loop, Idle)
  BY DEF Edit
<1>2. requests' \in Nat /\ lastId' \in Nat /\ Idle.pc = "idle"
  BY <1>1 DEF AccessInv, AccessTypeOK, Idle
<1>3a. PICK seen : seen = handler[Loop].seen
  OBVIOUS
<1>3b. PICK g : g = [a \in admins |-> [a EXCEPT !.email = IF e = seen.email THEN @ ELSE e,
                                              !.role = IF role = seen.role THEN @ ELSE role,
                                              !.password = @ \/ password]]
  OBVIOUS
<1>3. admins' = {IF a.id = seen.id /\ ~Clash(g[a]) THEN g[a] ELSE a : a \in admins}
  BY <1>3a, <1>3b DEF Edit
<1>4. \A a \in admins : /\ g[a] \in Admin /\ g[a].id = a.id /\ g[a].sub = a.sub
                        /\ g[a].status = a.status
                        /\ a.password => g[a].password
  BY <1>3b DEF AccessInv, AccessTypeOK, Admin
<1>5. PICK f : f = [a \in admins |-> IF a.id = seen.id /\ ~Clash(g[a]) THEN g[a] ELSE a]
  OBVIOUS
<1>6. admins' = {f[a] : a \in admins}
  BY <1>3, <1>5
<1>7. \A a \in admins : /\ f[a] \in Admin /\ f[a].id = a.id /\ f[a].sub = a.sub
                        /\ f[a].status = a.status /\ (a.password => f[a].password)
                        /\ f[a] = a \/ (a.id = seen.id /\ ~Clash(f[a]))
  BY <1>4, <1>5 DEF AccessInv, AccessTypeOK
<1>8. admins' \in SUBSET Admin /\ IdsDrawn'
  BY <1>1, <1>6, <1>7 DEF AccessInv, IdsDrawn
<1>9. MailTriedFirst'
  BY <1>1, <1>6, <1>7 DEF AccessInv, MailTriedFirst, Tried
<1>10. OneAccountEach'
  <2>1. SUFFICES ASSUME NEW a \in admins, NEW b \in admins,
                        f[a].id = f[b].id \/ f[a].email = f[b].email \/ (f[a].sub = f[b].sub /\ f[a].sub # NoSub)
                 PROVE  a = b
    BY <1>6 DEF OneAccountEach
  <2>2. CASE a.id = b.id
    BY <2>2 DEF AccessInv, OneAccountEach
  <2>3. CASE a.sub = b.sub /\ a.sub # NoSub
    BY <2>3 DEF AccessInv, OneAccountEach
  <2>4. CASE a.id # b.id /\ f[a].email = f[b].email
    <3>1. f[a] = a \/ f[b] = b
      BY <1>7, <2>4
    <3>2. CASE f[a] = a /\ f[b] = b
      BY <2>4, <3>2 DEF AccessInv, OneAccountEach
    <3>3. CASE f[a] = a /\ f[b] # b
      BY <1>7, <2>4, <3>3 DEF Clash
    <3>4. CASE f[b] = b /\ f[a] # a
      BY <1>7, <2>4, <3>4 DEF Clash
    <3> QED
      BY <3>1, <3>2, <3>3, <3>4
  <2> QED
    BY <1>7, <2>1, <2>2, <2>3, <2>4
<1> QED
  BY <1>0, <1>1, <1>2, <1>8, <1>9, <1>10, IdleType, RowsMove

LEMMA DeleteInv ==
  ASSUME AccessInv, NEW t \in tokens, NEW i \in 1..lastId, Delete(t, i)
  PROVE  AccessInv'
<1>1. UNCHANGED <<lastId, handler, tokens, mailed, served, now, faults>> /\ Begin /\ admins' \subseteq admins
  BY DEF Delete
<1>2. requests' \in Nat /\ lastId' \in Nat /\ admins' \in SUBSET Admin
  BY <1>1 DEF AccessInv, AccessTypeOK, Begin
<1>3. IdsDrawn' /\ OneAccountEach' /\ MailTriedFirst'
  BY <1>1 DEF AccessInv, IdsDrawn, OneAccountEach, MailTriedFirst, Tried
<1>4. Idle.pc = "idle" /\ Loop \in Handler
  BY DEF Idle, Handler
<1> QED
  BY <1>1, <1>2, <1>3, <1>4, IdleType, RowsMove

\* The requests that sign tokens, and the rest.
LEMMA LoginTokenInv ==
  ASSUME AccessInv, NEW h \in Handler, NEW i \in Nat, NEW by \in {"password", "google"},
         Issue(i, "access", now + TokenLife, now, by),
         Set(h, Idle), UNCHANGED <<admins, lastId, mailed, served, now, requests, faults>>
  PROVE  AccessInv'
<1>1. PICK t : t = [id |-> i, purpose |-> "access", exp |-> now + TokenLife, login |-> now, by |-> by]
  OBVIOUS
<1>2. t \in Token /\ t.exp <= t.login + TokenLife
  BY <1>1, AccessAssumption DEF Token, AccessInv, AccessTypeOK
<1>3. tokens' = tokens \cup {t} /\ t.purpose = "access"
  BY <1>1 DEF Issue
<1> QED
  BY <1>2, <1>3, TokenSigned

LEMMA AnswerInv ==
  ASSUME AccessInv, Answer
  PROVE  AccessInv'
<1>1. Loop \in Handler /\ handler[Loop] \in Request
  BY DEF AccessInv, AccessTypeOK, Request, Handler
<1>2. handler[Loop].id \in Nat
  BY <1>1 DEF Request
<1>3. Set(Loop, Idle) /\ UNCHANGED <<admins, lastId, mailed, served, now, requests, faults>>
  BY DEF Answer
<1>4. CASE Issue(handler[Loop].id, "access", now + TokenLife, now, "google")
  BY <1>1, <1>2, <1>3, <1>4, LoginTokenInv
<1>5. CASE UNCHANGED tokens
  <2>1. RequestOK(Idle)'
    BY DEF RequestOK, Idle, Tried
  <2>2. mailed' \in SUBSET [account : Nat, sent : BOOLEAN] /\ requests' \in Nat /\ faults' \in Nat
    BY <1>3 DEF AccessInv, AccessTypeOK
  <2> QED
    BY <1>1, <1>3, <1>5, <2>1, <2>2, IdleType, RequestMoves
<1> QED
  BY <1>4, <1>5 DEF Answer

\* The token a request asks a cookie for, and the one it gets.
LEMMA SetCookieInv ==
  ASSUME AccessInv, NEW h \in Thread, SetCookie(h)
  PROVE  AccessInv'
<1>1. h \in Handler /\ handler[h] \in Request /\ handler[h].token \in tokens
  BY DEF AccessInv, AccessTypeOK, Request, Handler, SetCookie, At, RequestOK, Tried
<1>2. Set(h, Idle) /\ UNCHANGED <<admins, lastId, mailed, served, now, requests, faults>>
  BY DEF SetCookie
<1>3. PICK t \in tokens : t = handler[h].token
  BY <1>1
<1>4. t \in Token /\ TokenOK(t)
  BY DEF AccessInv, AccessTypeOK
<1>5. CASE /\ CookieExpiry(t) > now
           /\ Issue(t.id, "stream", CookieExpiry(t), t.login, t.by)
  <2>1. PICK u : u = [id |-> t.id, purpose |-> "stream", exp |-> CookieExpiry(t), login |-> t.login, by |-> t.by]
    OBVIOUS
  <2>2. CookieExpiry(t) \in Nat /\ CookieExpiry(t) <= t.exp
    BY <1>4, AccessAssumption DEF CookieExpiry, Token, AccessInv, AccessTypeOK
  <2>3. u \in Token /\ u.exp <= u.login + TokenLife
    BY <1>4, <2>1, <2>2, AccessAssumption DEF Token, TokenOK
  <2>4. tokens' = tokens \cup {u}
    BY <1>5, <2>1 DEF Issue
  <2>5. \E v \in tokens' : v.purpose = "access" /\ v.id = u.id /\ v.by = u.by /\ v.login = u.login
    BY <1>4, <2>1, <2>4 DEF TokenOK
  <2> QED
    BY <1>1, <1>2, <2>3, <2>4, <2>5, TokenSigned
<1>6. CASE UNCHANGED tokens
  <2>1. RequestOK(Idle)'
    BY DEF RequestOK, Idle, Tried
  <2>2. mailed' \in SUBSET [account : Nat, sent : BOOLEAN] /\ requests' \in Nat /\ faults' \in Nat
    BY <1>2 DEF AccessInv, AccessTypeOK
  <2> QED
    BY <1>1, <1>2, <1>6, <2>1, <2>2, IdleType, RequestMoves
<1> QED
  BY <1>3, <1>5, <1>6 DEF SetCookie

LEMMA DieInv ==
  ASSUME AccessInv, NEW h \in Handler, Die(h)
  PROVE  AccessInv'
<1>1. Set(h, Idle) /\ UNCHANGED <<admins, lastId, tokens, mailed, served, now, requests>> /\ faults' \in Nat
  BY DEF Die, AccessInv, AccessTypeOK
<1>2. RequestOK(Idle)'
  BY DEF RequestOK, Idle, Tried
<1>3. mailed' \in SUBSET [account : Nat, sent : BOOLEAN] /\ requests' \in Nat
  BY <1>1 DEF AccessInv, AccessTypeOK
<1> QED
  BY <1>1, <1>2, <1>3, IdleType, RequestMoves

\* The clock and the streams touch neither rows, nor tokens, nor requests.
LEMMA ViewInv ==
  ASSUME AccessInv, UNCHANGED <<admins, lastId, handler, tokens, mailed, requests, faults>>,
         now' \in Nat, served' \in SUBSET [account : Nat, at : Nat]
  PROVE  AccessInv'
<1>1. AccessTypeOK'
  BY DEF AccessInv, AccessTypeOK
<1>2. IdsDrawn' /\ OneAccountEach' /\ MailTriedFirst'
  BY DEF AccessInv, IdsDrawn, OneAccountEach, MailTriedFirst, Tried
<1>3. (\A t \in tokens' : TokenOK(t)') /\ \A h \in Handler : RequestOK(handler[h])'
  BY DEF AccessInv, TokenOK, RequestOK, Tried
<1> QED
  BY <1>1, <1>2, <1>3 DEF AccessInv

LEMMA NextInv == AccessInv /\ [Next]_vars => AccessInv'
<1> SUFFICES ASSUME AccessInv, [Next]_vars PROVE AccessInv'
  OBVIOUS
<1>1. CASE Tick
  <2>1. UNCHANGED <<admins, lastId, handler, tokens, mailed, served, requests, faults>> /\ now' \in Nat
    BY <1>1 DEF Tick, AccessInv, AccessTypeOK
  <2>2. served' \in SUBSET [account : Nat, at : Nat]
    BY <2>1 DEF AccessInv, AccessTypeOK
  <2> QED
    BY <2>1, <2>2, ViewInv
<1>2. CASE OnLoop
  BY <1>2, SignInInv, InsertNewInv, RejoinInv, AnswerInv, UpdateInv, DeleteInv, EditInv DEF OnLoop
<1>3. ASSUME NEW h \in Thread, OnThread(h) PROVE AccessInv'
  <2>1. h \in Handler /\ handler[h].id \in Nat
    BY DEF AccessInv, AccessTypeOK, Handler
  <2>2. CASE IssueToken(h)
    BY <2>1, <2>2, LoginTokenInv DEF IssueToken
  <2>3. CASE Load(h) \/ Mail(h) \/ Check(h)
    BY <2>3, ReadInv
  <2>4. CASE Decide(h) \/ Create(h) \/ SetCookie(h)
    BY <2>4, DecideInv, CreateInv, SetCookieInv
  <2>5. CASE \/ \E e \in Email : Login(h, e)
             \/ \E t \in tokens, i \in 1..lastId, d \in Decision : Review(h, t, i, d)
             \/ \E t \in tokens, e \in Email : StartCreate(h, t, e)
             \/ \E t \in tokens : StartSession(h, t)
    BY <2>5, StartInv
  <2> QED
    BY <1>3, <2>2, <2>3, <2>4, <2>5 DEF OnThread
<1>4. ASSUME NEW h \in Handler, Die(h) PROVE AccessInv'
  BY <1>4, DieInv
<1>5. ASSUME NEW t \in tokens, Stream(t) PROVE AccessInv'
  <2>1. UNCHANGED <<admins, lastId, handler, tokens, mailed, now, requests, faults>>
        /\ served' = {[account |-> t.id, at |-> now]}
    BY <1>5 DEF Stream
  <2>2. t.id \in Nat /\ now \in Nat
    BY DEF AccessInv, AccessTypeOK, Token
  <2> QED
    BY <2>1, <2>2, ViewInv
<1>6. CASE UNCHANGED vars
  <2>1. UNCHANGED <<admins, lastId, handler, tokens, mailed, served, now, requests, faults>>
    BY <1>6 DEF vars
  <2>2. now' \in Nat /\ served' \in SUBSET [account : Nat, at : Nat]
    BY <2>1 DEF AccessInv, AccessTypeOK
  <2> QED
    BY <2>1, <2>2, ViewInv
<1> QED
  BY <1>1, <1>2, <1>3, <1>4, <1>5, <1>6 DEF Next

LEMMA AlwaysInv == Spec => []AccessInv
BY InitInv, NextInv, PTL DEF Spec

-----------------------------------------------------------------------------
\* Rows, requests, tokens and mails keep their types in every execution.
THEOREM AccessTypeCorrect == Spec => []AccessTypeOK
BY AlwaysInv, PTL DEF AccessInv

\* However sign-ins, creations and renamings overlap, an address and a Google
\* identity lead to at most one account: the unique indexes settle every race.
THEOREM OneAccountPerPerson == Spec => []OneAccountEach
BY AlwaysInv, PTL DEF AccessInv

\* Whatever reviews, sign-ins and edits overlap, the welcome mail of an approved account
\* without a password was tried: the attempt precedes the commit, and what the commit
\* writes is the decision it was made for.
THEOREM ApprovalTriesMail == Spec => []MailTriedFirst
BY AlwaysInv, PTL DEF AccessInv

-----------------------------------------------------------------------------
\* Which rows a step may leave behind: those there were, and one with a fresh id.
LEMMA RowsStay ==
  ASSUME AccessInv, [Next]_vars
  PROVE  \A a \in admins' : a.id <= lastId => Rows(a.id) # {}
<1>0. lastId \in Nat /\ admins \in SUBSET Admin
  BY DEF AccessInv, AccessTypeOK
<1>1. SUFFICES \A a \in admins' : a.id = lastId + 1 \/ \E b \in admins : b.id = a.id
  BY <1>0 DEF Rows
<1>2. CASE UNCHANGED admins
  BY <1>2
<1>3. CASE InsertNew
  <2>1. \A a \in admins' : a.id = lastId + 1 \/ a \in admins
    BY <1>3 DEF InsertNew
  <2> QED
    BY <2>1
<1>4. CASE Rejoin /\ ~UNCHANGED admins
  <2>0. PICK a \in admins :
          admins' = (admins \ {a}) \cup {Rejoined(a, handler[Loop].seen, handler[Loop].email)}
    BY <1>4 DEF Rejoin, Rows
  <2>1. PICK b : /\ b = Rejoined(a, handler[Loop].seen, handler[Loop].email)
                 /\ admins' = (admins \ {a}) \cup {b}
    BY <2>0
  <2>2. b.id = a.id
    BY <1>0, <2>1 DEF Rejoined, Admin
  <2> QED
    BY <2>1, <2>2
<1>5. ASSUME NEW h \in Thread, Create(h)
      PROVE  \A a \in admins' : a.id = lastId + 1 \/ \E b \in admins : b.id = a.id
  <2>1. \A a \in admins' : a.id = lastId + 1 \/ a \in admins
    BY <1>5 DEF Create
  <2> QED
    BY <2>1
<1>6. ASSUME NEW h \in Thread, Decide(h)
      PROVE  \A a \in admins' : a.id = lastId + 1 \/ \E b \in admins : b.id = a.id
  <2>1. CASE UNCHANGED admins
    BY <2>1
  <2>2. CASE ~UNCHANGED admins
    <3>1. PICK f : f = [a \in admins |-> IF a.id = handler[h].id THEN [a EXCEPT !.status = handler[h].want] ELSE a]
      OBVIOUS
    <3>2. admins' = {f[a] : a \in admins}
      BY <1>6, <2>2, <3>1 DEF Decide
    <3>3. \A a \in admins : f[a].id = a.id
      BY <1>0, <3>1 DEF Admin
    <3> QED
      BY <3>2, <3>3
  <2> QED
    BY <2>1, <2>2
<1>7. ASSUME NEW e \in Email, NEW role \in Role, NEW password \in BOOLEAN, Edit(e, role, password)
      PROVE  \A a \in admins' : a.id = lastId + 1 \/ \E b \in admins : b.id = a.id
  <2>1. PICK seen : seen = handler[Loop].seen
    OBVIOUS
  <2>2. PICK g : g = [a \in admins |-> [a EXCEPT !.email = IF e = seen.email THEN @ ELSE e,
                                                !.role = IF role = seen.role THEN @ ELSE role,
                                                !.password = @ \/ password]]
    OBVIOUS
  <2>3. admins' = {IF a.id = seen.id /\ ~Clash(g[a]) THEN g[a] ELSE a : a \in admins}
    BY <1>7, <2>1, <2>2 DEF Edit
  <2>4. \A a \in admins : g[a].id = a.id
    BY <1>0, <2>2 DEF Admin
  <2> QED
    BY <2>3, <2>4
<1>8. ASSUME NEW t \in tokens, NEW i \in 1..lastId, Delete(t, i)
      PROVE  \A a \in admins' : a.id = lastId + 1 \/ \E b \in admins : b.id = a.id
  BY <1>8 DEF Delete
<1>9. UNCHANGED admins \/ InsertNew \/ Rejoin
      \/ (\E h \in Thread : Create(h) \/ Decide(h))
      \/ (\E e \in Email, role \in Role, password \in BOOLEAN : Edit(e, role, password))
      \/ (\E t \in tokens, i \in 1..lastId : Delete(t, i))
  BY ZenonT(60) DEF Next, OnLoop, OnThread, Tick, Die, Stream, SignIn, Answer, Update, Login, Review,
     StartCreate, StartSession, IssueToken, Load, Mail, Check, SetCookie, vars
<1> QED
  BY <1>2, <1>3, <1>4, <1>5, <1>6, <1>7, <1>8, <1>9

\* No step brings a deleted account back, in any state: what a review or an edit
\* has loaded before the deletion only changes a row that is still there.
THEOREM DeletedStayDeleted == Spec => DeletedForGood
<1>1. AccessInv /\ [Next]_vars => [\A a \in admins' : a.id <= lastId => Rows(a.id) # {}]_vars
  BY RowsStay
<1> QED
  BY <1>1, AlwaysInv, PTL DEF Spec, DeletedForGood

-----------------------------------------------------------------------------
\* The abstract logins and sessions are those of the tokens.
Logins == {[account |-> t.id, by |-> t.by, at |-> t.login] : t \in {u \in tokens : u.purpose = "access"}}
Sessions == {[account |-> t.id, until |-> t.exp] : t \in {u \in tokens : u.purpose = "stream"}}
Approved == {a.id : a \in {b \in admins : b.status = "approved"}}

\* A step that signs nothing and serves nothing: accounts are decided about, or nothing.
LEMMA QuietStep ==
  ASSUME UNCHANGED <<tokens, served, now>>
  PROVE  [Access!Next]_(Access!vars)
BY DEF Access!Next, Access!Decide, Access!vars

LEMMA LoginStep ==
  ASSUME NEW i, NEW by, Issue(i, "access", now + TokenLife, now, by),
         by = "google" => i \in Approved, UNCHANGED <<admins, served, now>>
  PROVE  Access!Next
<1>1. PICK login : login = [account |-> i, by |-> by, at |-> now]
  OBVIOUS
<1>2. Logins' = Logins \cup {login} /\ Sessions' = Sessions
  <2>1. PICK t : /\ t = [id |-> i, purpose |-> "access", exp |-> now + TokenLife, login |-> now, by |-> by]
                 /\ tokens' = tokens \cup {t}
    BY DEF Issue
  <2>2. t.purpose = "access" /\ login = [account |-> t.id, by |-> t.by, at |-> t.login]
    BY <1>1, <2>1
  <2>3. {u \in tokens' : u.purpose = "access"} = {u \in tokens : u.purpose = "access"} \cup {t}
    BY <2>1, <2>2
  <2>4. {u \in tokens' : u.purpose = "stream"} = {u \in tokens : u.purpose = "stream"}
    BY <2>1, <2>2
  <2> QED
    BY <2>2, <2>3, <2>4 DEF Logins, Sessions
<1>3. Access!Login(login)
  BY <1>1, <1>2 DEF Access!Login, Logins, Sessions, Approved
<1>4. login \in Logins'
  BY <1>2
<1> QED
  BY <1>3, <1>4 DEF Access!Next, Logins

LEMMA OpenStep ==
  ASSUME AccessInv, NEW t \in tokens, CookieExpiry(t) > now,
         Issue(t.id, "stream", CookieExpiry(t), t.login, t.by), UNCHANGED <<admins, served, now>>
  PROVE  Access!Next
<1>1. t \in Token /\ TokenOK(t) /\ now \in Nat
  BY DEF AccessInv, AccessTypeOK
<1>2. PICK u \in tokens : u.purpose = "access" /\ u.id = t.id /\ u.by = t.by /\ u.login = t.login
  BY <1>1 DEF TokenOK
<1>3. PICK login, until : login = [account |-> t.id, by |-> t.by, at |-> t.login] /\ until = CookieExpiry(t)
  OBVIOUS
<1>4. login \in Logins
  BY <1>2, <1>3 DEF Logins
<1>5. /\ until \in 1..(now + CookieLife) /\ now < until /\ until <= now + CookieLife
      /\ until <= login.at + TokenLife
  <2>1. until \in Nat /\ until > now /\ until <= now + CookieLife /\ until <= t.exp
    BY <1>1, <1>3, AccessAssumption DEF CookieExpiry, Token
  <2>2. t.exp \in Nat /\ t.login \in Nat /\ t.exp <= t.login + TokenLife
    BY <1>1 DEF Token, TokenOK
  <2> QED
    BY <1>1, <1>3, <2>1, <2>2, AccessAssumption
<1>6. Logins' = Logins /\ Sessions' = Sessions \cup {[account |-> t.id, until |-> until]}
  <2>1. PICK v : /\ v = [id |-> t.id, purpose |-> "stream", exp |-> until, login |-> t.login, by |-> t.by]
                 /\ tokens' = tokens \cup {v}
    BY <1>3 DEF Issue
  <2>2. v.purpose = "stream" /\ v.id = t.id /\ v.exp = until
    BY <2>1
  <2>3. {w \in tokens' : w.purpose = "access"} = {w \in tokens : w.purpose = "access"}
    BY <2>1, <2>2
  <2>4. {w \in tokens' : w.purpose = "stream"} = {w \in tokens : w.purpose = "stream"} \cup {v}
    BY <2>1, <2>2
  <2> QED
    BY <2>2, <2>3, <2>4 DEF Logins, Sessions
<1>7. Access!Open(login, until)
  BY <1>3, <1>5, <1>6 DEF Access!Open, Logins, Sessions
<1> QED
  BY <1>4, <1>5, <1>7 DEF Access!Next, Logins

LEMMA ServeStep ==
  ASSUME NEW t \in tokens, Stream(t)
  PROVE  Access!Next
<1>1. PICK session : session = [account |-> t.id, until |-> t.exp]
  OBVIOUS
<1>2. session \in Sessions /\ now <= t.exp
  BY <1>1 DEF Stream, Caller, Sessions
<1>3. t.id \in Approved
  BY DEF Stream, Caller, Rows, Approved
<1>4. UNCHANGED <<admins, tokens, now>> /\ served' = {[account |-> t.id, at |-> now]}
  BY DEF Stream
<1>5. Access!Serve(session)
  BY <1>1, <1>2, <1>3, <1>4 DEF Access!Serve, Approved
<1> QED
  BY <1>2, <1>5 DEF Access!Next, Sessions

LEMMA StepIsAccess ==
  ASSUME AccessInv, [Next]_vars
  PROVE  [Access!Next]_(Access!vars)
<1>1. CASE UNCHANGED <<tokens, served, now>>
  BY <1>1, QuietStep
<1>2. CASE Tick
  <2>1. UNCHANGED <<admins, tokens, served>> /\ now' = now + 1
    BY <1>2 DEF Tick
  <2> QED
    BY <2>1 DEF Access!Next, Access!Tick
<1>3. CASE Answer
  <2>1. UNCHANGED <<admins, served, now>>
    BY <1>3 DEF Answer
  <2>2. CASE /\ \E a \in Rows(handler[Loop].id) : a.status = "approved"
             /\ Issue(handler[Loop].id, "access", now + TokenLife, now, "google")
    <3>1. handler[Loop].id \in Approved
      BY <2>2 DEF Rows, Approved
    <3> QED
      BY <2>1, <2>2, <3>1, LoginStep
  <2> QED
    BY <1>1, <1>3, <2>1, <2>2 DEF Answer
<1>4. ASSUME NEW h \in Thread, IssueToken(h)
      PROVE  [Access!Next]_(Access!vars)
  <2>1. UNCHANGED <<admins, served, now>> /\ Issue(handler[h].id, "access", now + TokenLife, now, "password")
    BY <1>4 DEF IssueToken
  <2> QED
    BY <2>1, LoginStep
<1>5. ASSUME NEW h \in Thread, SetCookie(h)
      PROVE  [Access!Next]_(Access!vars)
  <2>1. UNCHANGED <<admins, served, now>> /\ handler[h].token \in tokens
    BY <1>5 DEF SetCookie, At, Handler, AccessInv, RequestOK, Tried
  <2>2. CASE UNCHANGED tokens
    BY <1>1, <2>1, <2>2
  <2>3. CASE ~UNCHANGED tokens
    <3>1. PICK t \in tokens : t = handler[h].token
      BY <2>1
    <3>2. CookieExpiry(t) > now /\ Issue(t.id, "stream", CookieExpiry(t), t.login, t.by)
      BY <1>5, <2>3, <3>1 DEF SetCookie
    <3> QED
      BY <2>1, <3>2, OpenStep
  <2> QED
    BY <2>2, <2>3
<1>6. ASSUME NEW t \in tokens, Stream(t)
      PROVE  [Access!Next]_(Access!vars)
  BY <1>6, ServeStep
<1>7. \/ UNCHANGED <<tokens, served, now>> \/ Tick \/ Answer
      \/ (\E h \in Thread : IssueToken(h) \/ SetCookie(h))
      \/ (\E t \in tokens : Stream(t))
  BY ZenonT(60) DEF Next, OnLoop, OnThread, Die, SignIn, InsertNew, Rejoin, Update, Edit, Delete, Login,
     Review, StartCreate, StartSession, Load, Mail, Decide, Check, Create, vars
<1> QED
  BY <1>1, <1>2, <1>3, <1>4, <1>5, <1>6, <1>7

\* Streams are served as StreamAccess promises, for all lifetimes and any number of
\* exchanges: a cookie carries on the login its token descends from.
THEOREM AccessImplementsStreams == Spec => AccessSpec
<1>1. Init => Access!Init
  <2> SUFFICES ASSUME Init PROVE Access!Init
    OBVIOUS
  <2>1. 1 \in Approved
    <3>1. PICK a \in admins : a.id = 1 /\ a.status = "approved"
      BY DEF Init
    <3> QED
      BY <3>1 DEF Approved
  <2>2. Logins = {[account |-> 1, by |-> "password", at |-> 0]} /\ Sessions = {}
    <3>1. PICK t : /\ tokens = {t} /\ t.purpose = "access" /\ t.id = 1
                   /\ t.by = "password" /\ t.login = 0
      <4>1. PICK t : /\ tokens = {t}
                     /\ t = [id |-> 1, purpose |-> "access", exp |-> TokenLife, login |-> 0, by |-> "password"]
        BY DEF Init
      <4> QED
        BY <4>1
    <3>2. {u \in tokens : u.purpose = "access"} = {t} /\ {u \in tokens : u.purpose = "stream"} = {}
      BY <3>1
    <3> QED
      BY <3>1, <3>2 DEF Logins, Sessions
  <2>3. served = {} /\ now = 0
    BY DEF Init
  <2> QED
    BY <2>1, <2>2, <2>3 DEF Access!Init, Approved, Logins, Sessions
<1>2. AccessInv /\ [Next]_vars => [Access!Next]_(Access!vars)
  BY StepIsAccess
<1> QED
  BY <1>1, <1>2, AlwaysInv, PTL DEF Spec, AccessSpec, Access!Spec
=============================================================================
