---------------------------- MODULE StreamAccess ----------------------------
(***************************************************************************)
(* What the camera streams promise: a stream is served to an account that  *)
(* is approved at that moment, within a session of at most CookieLife that *)
(* does not outlast the login it was opened with, and Google signs nobody  *)
(* in who is not approved at that moment.                                  *)
(***************************************************************************)
EXTENDS Naturals

CONSTANTS TokenLife, CookieLife

VARIABLES
  now,
  approved,   \* the accounts approved at present
  logins,     \* account, way and time of the logins so far
  sessions,   \* account and end of the stream sessions so far
  served      \* account and time of the stream served last

vars == <<now, approved, logins, sessions, served>>

Init ==
  /\ now = 0
  /\ logins \subseteq [account : approved, by : {"password"}, at : {0}]
  /\ sessions = {}
  /\ served = {}

Tick ==
  /\ now' = now + 1
  /\ UNCHANGED <<approved, logins, sessions, served>>

\* Accounts are approved, revoked, created and deleted.
Decide ==
  /\ approved' # approved
  /\ UNCHANGED <<now, logins, sessions, served>>

Login(login) ==
  /\ login.at = now
  /\ login.by = "google" => login.account \in approved
  /\ logins' = logins \cup {login}
  /\ UNCHANGED <<now, approved, sessions, served>>

Open(login, until) ==
  /\ now < until
  /\ until <= now + CookieLife
  /\ until <= login.at + TokenLife
  /\ sessions' = sessions \cup {[account |-> login.account, until |-> until]}
  /\ UNCHANGED <<now, approved, logins, served>>

Serve(session) ==
  /\ now <= session.until
  /\ session.account \in approved
  /\ served' = {[account |-> session.account, at |-> now]}
  /\ UNCHANGED <<now, approved, logins, sessions>>

Next ==
  \/ Tick
  \/ Decide
  \/ \E login \in logins' : Login(login)
  \/ \E login \in logins, until \in 1..(now + CookieLife) : Open(login, until)
  \/ \E session \in sessions : Serve(session)

Spec == Init /\ [][Next]_vars
=============================================================================
