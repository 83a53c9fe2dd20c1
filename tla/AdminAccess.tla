----------------------------- MODULE AdminAccess ----------------------------
(***************************************************************************)
(* Admin accounts: sign-in with Google, login with a password, the review  *)
(* of access requests, direct administration, and the stream sessions that *)
(* are opened with a bearer token.                                         *)
(*                                                                         *)
(* The async routes (Google's callback, update, delete) and the look-up of *)
(* the caller run on the event loop one at a time: after the exchange of   *)
(* Google's code none of them awaits anything.  The other routes run on    *)
(* threads, statement by statement.  A session writes the columns it has   *)
(* changed, as compared to what it has loaded.  Left out: revoked_at, which *)
(* is written and never read, the display name, and null as an address.    *)
(***************************************************************************)
EXTENDS Naturals, FiniteSets

CONSTANTS
  Email,        \* e-mail addresses; a Google identity is named by its address
  Founder,      \* the address of the first administrator
  NoSub,        \* oauth_sub of an account Google has not signed in
  Thread,       \* worker threads
  Loop,         \* the event loop
  TokenLife,    \* ACCESS_TOKEN_EXPIRE_MINUTES
  CookieLife,   \* STREAM_COOKIE_MAX_AGE_SECONDS
  MaxTime,      \* bound: the clock
  MaxRequests,  \* bound: requests that write or wait
  MaxFaults     \* bound: requests that die

ASSUME AccessAssumption ==
  /\ Founder \in Email /\ NoSub \notin Email /\ Loop \notin Thread
  /\ TokenLife \in Nat /\ CookieLife \in Nat /\ MaxTime \in Nat
  /\ MaxRequests \in Nat /\ MaxFaults \in Nat

Handler == Thread \cup {Loop}
Role == {"admin", "operator"}
Decision == {"approved", "rejected", "revoked"}
Status == Decision \cup {"pending"}

Admin == [id : Nat, email : Email, sub : Email \cup {NoSub}, password : BOOLEAN,
          role : Role, status : Status]

\* A signed token.  login and by are history: the login it descends from.
Token == [id : Nat, purpose : {"access", "stream"}, exp : Nat,
          login : Nat, by : {"password", "google"}]

VARIABLES
  admins,    \* the committed rows
  lastId,    \* the ids drawn so far
  handler,   \* per handler, the request it executes
  tokens,    \* the tokens signed so far
  mailed,    \* the welcome mails that were tried: to which account, and whether they went out
  served,    \* the account and time of the stream served last
  now, requests, faults

vars == <<admins, lastId, handler, tokens, mailed, served, now, requests, faults>>

(***************************************************************************)
(* A request.  id: the account it is about; seen: that row as the session  *)
(* has loaded it; email: the identity that signs in or the new account's;  *)
(* want: the decision or the caller's role; token: the bearer token.       *)
(***************************************************************************)
Pc == {"idle", "insert", "rejoin", "answer", "edit", "issue",
       "load", "mail", "decide", "check", "create", "cookie"}

NoRow == [id |-> 0, email |-> Founder, sub |-> NoSub, password |-> FALSE,
          role |-> "operator", status |-> "pending"]
NoToken == [id |-> 0, purpose |-> "access", exp |-> 0, login |-> 0, by |-> "password"]
Idle == [pc |-> "idle", id |-> 0, seen |-> NoRow, email |-> Founder, want |-> "pending", token |-> NoToken]

At(h, pc) == handler[h].pc = pc
Set(h, new) == handler' = [handler EXCEPT ![h] = new]
Go(h, pc) == Set(h, [handler[h] EXCEPT !.pc = pc])
Free(h) == At(h, "idle")

Rows(i) == {a \in admins : a.id = i}
Named(e) == {a \in admins : a.email = e}

\* The unique indexes on email and oauth_sub refuse the row.
Clash(a) ==
  \E b \in admins : b.id # a.id /\ (b.email = a.email \/ (b.sub = a.sub /\ a.sub # NoSub))

Begin == requests < MaxRequests /\ requests' = requests + 1

\* A valid bearer token and the account it names; the purpose is not looked at.
Caller(t, a) == t \in tokens /\ now <= t.exp /\ a \in Rows(t.id)

Issue(i, purpose, exp, login, by) ==
  tokens' = tokens \cup {[id |-> i, purpose |-> purpose, exp |-> exp, login |-> login, by |-> by]}

-----------------------------------------------------------------------------
(***************************************************************************)
(* GET /api/oauth/google/callback, on the event loop.                      *)
(***************************************************************************)
SignIn(e) ==
  /\ Free(Loop) /\ Begin
  /\ \/ Named(e) = {} /\ Set(Loop, [Idle EXCEPT !.pc = "insert", !.email = e])
     \/ \E a \in Named(e) :
          Set(Loop, [Idle EXCEPT !.pc = "rejoin", !.email = e, !.id = a.id, !.seen = a])
  /\ UNCHANGED <<admins, lastId, tokens, mailed, served, now, faults>>

\* Mutant of InsertNew: approval_status is not set.
InsertNewUndecided ==
  /\ At(Loop, "insert")
  /\ lastId' = lastId + 1
  /\ admins' = admins \cup {[id |-> lastId + 1, email |-> handler[Loop].email, sub |-> handler[Loop].email,
                            password |-> FALSE, role |-> "operator", status |-> NoSub]}
  /\ Set(Loop, Idle)
  /\ UNCHANGED <<tokens, mailed, served, now, requests, faults>>

\* The INSERT of a new account, in state pending.
InsertNew ==
  /\ At(Loop, "insert")
  /\ lastId' = lastId + 1
  /\ LET a == [id |-> lastId + 1, email |-> handler[Loop].email, sub |-> handler[Loop].email,
               password |-> FALSE, role |-> "operator", status |-> "pending"]
     IN IF Clash(a) THEN Set(Loop, Idle) /\ UNCHANGED admins
                    ELSE /\ admins' = admins \cup {a}
                         /\ Set(Loop, [handler[Loop] EXCEPT !.pc = "answer", !.id = a.id])
  /\ UNCHANGED <<tokens, mailed, served, now, requests, faults>>

\* A rejected account goes back to pending; what was loaded decides.
Rejoined(a, seen, e) ==
  [a EXCEPT !.sub = IF seen.sub = e THEN @ ELSE e,
            !.status = IF seen.status = "rejected" THEN "pending" ELSE @]

\* The UPDATE of a known account; it raises if the account is gone.
Rejoin ==
  /\ At(Loop, "rejoin")
  /\ \/ /\ Rows(handler[Loop].id) = {}
        /\ Set(Loop, Idle) /\ UNCHANGED admins
     \/ \E a \in Rows(handler[Loop].id) :
          LET b == Rejoined(a, handler[Loop].seen, handler[Loop].email)
          IN IF Clash(b) THEN Set(Loop, Idle) /\ UNCHANGED admins
                         ELSE admins' = (admins \ {a}) \cup {b} /\ Go(Loop, "answer")
  /\ UNCHANGED <<lastId, tokens, mailed, served, now, requests, faults>>

\* The row is read again; an approved account gets its token.
Answer ==
  /\ At(Loop, "answer")
  /\ IF \E a \in Rows(handler[Loop].id) : a.status = "approved"
       THEN Issue(handler[Loop].id, "access", now + TokenLife, now, "google")
       ELSE UNCHANGED tokens
  /\ Set(Loop, Idle)
  /\ UNCHANGED <<admins, lastId, mailed, served, now, requests, faults>>

(***************************************************************************)
(* POST /api/login: the password is verified between the look-up and the   *)
(* token.                                                                  *)
(***************************************************************************)
Login(h, e) ==
  /\ Free(h) /\ Begin
  /\ \E a \in Named(e) : a.password /\ Set(h, [Idle EXCEPT !.pc = "issue", !.id = a.id])
  /\ UNCHANGED <<admins, lastId, tokens, mailed, served, now, faults>>

IssueToken(h) ==
  /\ At(h, "issue")
  /\ Issue(handler[h].id, "access", now + TokenLife, now, "password")
  /\ Set(h, Idle)
  /\ UNCHANGED <<admins, lastId, mailed, served, now, requests, faults>>

(***************************************************************************)
(* PUT /api/admin-access/requests/{admin_id}.  The event loop has looked   *)
(* up the caller; the account is read again, his own too.                  *)
(***************************************************************************)
Review(h, t, i, decision) ==
  /\ Free(h) /\ Free(Loop) /\ Begin
  /\ \E a \in admins : Caller(t, a) /\ a.role = "admin"
  /\ Set(h, [Idle EXCEPT !.pc = "load", !.id = i, !.want = decision])
  /\ UNCHANGED <<admins, lastId, tokens, mailed, served, now, faults>>

\* Mutant of Load: only a pending account is welcomed.
LoadWelcomesPending(h) ==
  /\ At(h, "load")
  /\ LET next(a) == IF handler[h].want = "approved" /\ a.status = "pending" THEN "mail" ELSE "decide"
     IN \/ Rows(handler[h].id) = {} /\ Set(h, Idle)
        \/ \E a \in Rows(handler[h].id) : Set(h, [handler[h] EXCEPT !.pc = next(a), !.seen = a])
  /\ UNCHANGED <<admins, lastId, tokens, mailed, served, now, requests, faults>>

Load(h) ==
  /\ At(h, "load")
  /\ LET next == IF handler[h].want = "approved" THEN "mail" ELSE "decide"
     IN \/ Rows(handler[h].id) = {} /\ Set(h, Idle)
        \/ \E a \in Rows(handler[h].id) : Set(h, [handler[h] EXCEPT !.pc = next, !.seen = a])
  /\ UNCHANGED <<admins, lastId, tokens, mailed, served, now, requests, faults>>

\* send_line_qr_email, whose result nobody looks at: the mail goes out, or the server
\* refuses it, or mail is switched off.
Mail(h) ==
  /\ At(h, "mail")
  /\ \E sent \in BOOLEAN : mailed' = mailed \cup {[account |-> handler[h].id, sent |-> sent]}
  /\ Go(h, "decide")
  /\ UNCHANGED <<admins, lastId, tokens, served, now, requests, faults>>

\* Mutant of Decide: the whole row is written back as it was loaded.
DecideMerged(h) ==
  /\ At(h, "decide")
  /\ admins' = (admins \ Rows(handler[h].id)) \cup {[handler[h].seen EXCEPT !.status = handler[h].want]}
  /\ Set(h, Idle)
  /\ UNCHANGED <<lastId, tokens, mailed, served, now, requests, faults>>

\* The commit: without a change of the loaded status there is no UPDATE.
Decide(h) ==
  /\ At(h, "decide")
  /\ IF handler[h].seen.status = handler[h].want
       THEN UNCHANGED admins
       ELSE admins' = {IF a.id = handler[h].id THEN [a EXCEPT !.status = handler[h].want] ELSE a : a \in admins}
  /\ Set(h, Idle)
  /\ UNCHANGED <<lastId, tokens, mailed, served, now, requests, faults>>

(***************************************************************************)
(* POST, PATCH and DELETE /api/admins.                                     *)
(***************************************************************************)
StartCreate(h, t, e) ==
  /\ Free(h) /\ Free(Loop) /\ Begin
  /\ \E a \in admins : Caller(t, a) /\ a.role = "admin"
  /\ Set(h, [Idle EXCEPT !.pc = "check", !.email = e])
  /\ UNCHANGED <<admins, lastId, tokens, mailed, served, now, faults>>

Check(h) ==
  /\ At(h, "check")
  /\ IF Named(handler[h].email) = {} THEN Go(h, "create") ELSE Set(h, Idle)
  /\ UNCHANGED <<admins, lastId, tokens, mailed, served, now, requests, faults>>

\* Mutant of Create: email is not unique.
CreateUnchecked(h) ==
  /\ At(h, "create")
  /\ lastId' = lastId + 1
  /\ \E role \in Role :
       admins' = admins \cup {[id |-> lastId + 1, email |-> handler[h].email, sub |-> NoSub,
                               password |-> TRUE, role |-> role, status |-> "approved"]}
  /\ Set(h, Idle)
  /\ UNCHANGED <<tokens, mailed, served, now, requests, faults>>

\* The INSERT, after the password is hashed; a new account is approved.
Create(h) ==
  /\ At(h, "create")
  /\ lastId' = lastId + 1
  /\ \E role \in Role :
       LET a == [id |-> lastId + 1, email |-> handler[h].email, sub |-> NoSub,
                 password |-> TRUE, role |-> role, status |-> "approved"]
       IN admins' = IF Clash(a) THEN admins ELSE admins \cup {a}
  /\ Set(h, Idle)
  /\ UNCHANGED <<tokens, mailed, served, now, requests, faults>>

\* authorize_admin_or_self.
Authorized(t, i) == \E a \in admins : Caller(t, a) /\ (a.role = "admin" \/ a.id = i)

Update(t, i) ==
  /\ Free(Loop) /\ Begin
  /\ Authorized(t, i)
  /\ \E a \in Rows(i), caller \in Rows(t.id) :
       Set(Loop, [Idle EXCEPT !.pc = "edit", !.id = i, !.seen = a, !.want = caller.role])
  /\ UNCHANGED <<admins, lastId, tokens, mailed, served, now, faults>>

\* The UPDATE of the changed columns; only an admin changes a role.
Edit(e, role, password) ==
  /\ At(Loop, "edit")
  /\ role = handler[Loop].seen.role \/ handler[Loop].want = "admin"
  /\ LET seen == handler[Loop].seen
         edited(a) == [a EXCEPT !.email = IF e = seen.email THEN @ ELSE e,
                                !.role = IF role = seen.role THEN @ ELSE role,
                                !.password = @ \/ password]
     IN admins' = {IF a.id = seen.id /\ ~Clash(edited(a)) THEN edited(a) ELSE a : a \in admins}
  /\ Set(Loop, Idle)
  /\ UNCHANGED <<lastId, tokens, mailed, served, now, requests, faults>>

\* Nobody else deletes: between the look-up and the DELETE the row stays.
Delete(t, i) ==
  /\ Free(Loop) /\ Begin
  /\ Authorized(t, i)
  /\ Rows(i) # {}
  /\ admins' = admins \ Rows(i)
  /\ UNCHANGED <<lastId, handler, tokens, mailed, served, now, faults>>

(***************************************************************************)
(* POST /api/parking/stream-session, and the requests for the stream.      *)
(***************************************************************************)
StartSession(h, t) ==
  /\ Free(h) /\ Free(Loop) /\ Begin
  /\ \E a \in admins : Caller(t, a) /\ a.status = "approved"
  /\ Set(h, [Idle EXCEPT !.pc = "cookie", !.token = t])
  /\ UNCHANGED <<admins, lastId, tokens, mailed, served, now, faults>>

\* Mutant of CookieExpiry: the token's own expiry is left out.
CookieExpiryAlone(t) == now + CookieLife

CookieExpiry(t) == IF t.exp < now + CookieLife THEN t.exp ELSE now + CookieLife

\* The token is decoded again, and an expired one refused.
SetCookie(h) ==
  /\ At(h, "cookie")
  /\ LET t == handler[h].token
     IN IF CookieExpiry(t) > now THEN Issue(t.id, "stream", CookieExpiry(t), t.login, t.by)
                                 ELSE UNCHANGED tokens
  /\ Set(h, Idle)
  /\ UNCHANGED <<admins, lastId, mailed, served, now, requests, faults>>

\* GET /{camera}/...: the cookie is decoded and the account looked up, in one step:
\* a cookie that expires between the two statements is served a moment longer.
Stream(t) ==
  /\ \E a \in admins : Caller(t, a) /\ t.purpose = "stream" /\ a.status = "approved"
  /\ served' = {[account |-> t.id, at |-> now]}
  /\ UNCHANGED <<admins, lastId, handler, tokens, mailed, now, requests, faults>>

-----------------------------------------------------------------------------
\* A request dies: a refused statement, a display name that is taken, a crash.
Die(h) ==
  /\ ~Free(h)
  /\ faults < MaxFaults /\ faults' = faults + 1
  /\ Set(h, Idle)
  /\ UNCHANGED <<admins, lastId, tokens, mailed, served, now, requests>>

Tick ==
  /\ now < MaxTime
  /\ now' = now + 1
  /\ UNCHANGED <<admins, lastId, handler, tokens, mailed, served, requests, faults>>

\* The first administrator, stored by hand, has just logged in: no route creates
\* one, and seed.py fails, since Admin has no column password_hash.
Init ==
  /\ admins = {[id |-> 1, email |-> Founder, sub |-> NoSub, password |-> TRUE,
                role |-> "admin", status |-> "approved"]}
  /\ lastId = 1
  /\ handler = [h \in Handler |-> Idle]
  /\ tokens = {[id |-> 1, purpose |-> "access", exp |-> TokenLife, login |-> 0, by |-> "password"]}
  /\ mailed = {}
  /\ served = {}
  /\ now = 0
  /\ requests = 0
  /\ faults = 0

OnLoop ==
  \/ \E e \in Email : SignIn(e)
  \/ InsertNew \/ Rejoin \/ Answer
  \/ \E t \in tokens, i \in 1..lastId : Update(t, i) \/ Delete(t, i)
  \/ \E e \in Email, role \in Role, password \in BOOLEAN : Edit(e, role, password)

OnThread(h) ==
  \/ \E e \in Email : Login(h, e)
  \/ \E t \in tokens, i \in 1..lastId, d \in Decision : Review(h, t, i, d)
  \/ \E t \in tokens, e \in Email : StartCreate(h, t, e)
  \/ \E t \in tokens : StartSession(h, t)
  \/ IssueToken(h) \/ Load(h) \/ Mail(h) \/ Decide(h) \/ Check(h) \/ Create(h) \/ SetCookie(h)

Next ==
  \/ Tick
  \/ OnLoop
  \/ \E h \in Thread : OnThread(h)
  \/ \E h \in Handler : Die(h)
  \/ \E t \in tokens : Stream(t)

Spec == Init /\ [][Next]_vars

-----------------------------------------------------------------------------
AccessTypeOK ==
  /\ admins \in SUBSET Admin
  /\ lastId \in Nat
  /\ handler \in [Handler -> [pc : Pc, id : Nat, seen : Admin, email : Email,
                              want : Status \cup Role, token : Token]]
  /\ tokens \in SUBSET Token
  /\ mailed \in SUBSET [account : Nat, sent : BOOLEAN]
  /\ served \in SUBSET [account : Nat, at : Nat]
  /\ now \in Nat /\ requests \in Nat /\ faults \in Nat

\* Sign-ins, creations and renamings race for addresses: an address and a Google
\* identity lead to at most one account.
OneAccountEach ==
  \A a, b \in admins :
    a.id = b.id \/ a.email = b.email \/ (a.sub = b.sub /\ a.sub # NoSub) => a = b

\* "A stream cookie lasting at most five minutes and never beyond the bearer token
\* expiry": however tokens are exchanged and statuses change in between.
Access == INSTANCE StreamAccess WITH
  approved <- {a.id : a \in {b \in admins : b.status = "approved"}},
  logins <- {[account |-> t.id, by |-> t.by, at |-> t.login] : t \in {u \in tokens : u.purpose = "access"}},
  sessions <- {[account |-> t.id, until |-> t.exp] : t \in {u \in tokens : u.purpose = "stream"}}
AccessSpec == Access!Spec

Tried(i) == \E m \in mailed : m.account = i

\* Nobody who came through Google is approved before the mail with the QR code was at
\* least tried, whatever reviews and sign-ins overlap.  (That it went out nobody checks.)
MailTriedFirst ==
  \A a \in admins : a.status = "approved" /\ ~a.password => Tried(a.id)

\* A deleted account is never approved again: its tokens stay worthless.
DeletedForGood ==
  [][\A a \in admins' : a.id <= lastId => Rows(a.id) # {}]_vars
=============================================================================
