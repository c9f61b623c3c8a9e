------------------------------- MODULE Sessions -------------------------------
(***************************************************************************)
(* Accounts, their sign-in sessions and the tokens issued for them:        *)
(* chat_app_be/src/auth and the role change of users.service.ts.  A        *)
(* handler reads first (its token, the account, the session row) and       *)
(* writes later, and what it has read may have changed meanwhile.          *)
(***************************************************************************)
EXTENDS Naturals

CONSTANTS
  Users,        \* accounts that may be registered
  FirstAdmin,   \* the account whose role was set to admin in the database
  Roles,        \* the platform roles in use
  SessionIds,   \* AuthSession ids (bounds the rows there are at a time)
  Requests,     \* slots for requests in flight (bounds concurrency)
  TTL,          \* the lifetime of an access token, in ticks
  MaxPassword   \* bounds the passwords chosen, over all accounts

ASSUME FirstAdminAssumption == FirstAdmin \in Users
ASSUME RolesAssumption == {"user", "admin"} \subseteq Roles
ASSUME TTLAssumption == TTL \in Nat \ {0}
ASSUME MaxPasswordAssumption == MaxPassword \in Nat \ {0}

VARIABLES
  account,   \* account[u]: the User row, or NoAccount
  session,   \* session[s]: the AuthSession row, or NoSession
  req,       \* req[r]: the request in slot r, or Idle
  issued,    \* the access tokens that have not expired
  chosen,    \* how many passwords have been chosen
  gone,      \* history: gone[s]: ticks since the row of s was last there
  fallen     \* history: fallen[u]: ticks since u last had the role admin

vars == <<account, session, req, issued, chosen, gone, fallen>>

----------------------------------------------------------------------------
\* Passwords are numbered in the order they are chosen.  reset: a token's hash is stored;
\* spent: and that token has set a password (history).
Account == [password : 1..MaxPassword, role : Roles, reset : BOOLEAN, spent : BOOLEAN]
NoAccount == [password |-> 0]

\* password is the one the login was given; overtaken, that it was changed while the
\* login was in progress (history).
Session == [user : Users, password : 1..MaxPassword, overtaken : BOOLEAN]
NoSession == [password |-> 0]

\* What the JWT says, and the ticks it still has.
Token == [user : Users, sid : SessionIds, role : Roles, life : 1..TTL]

Registered(u) == account[u] # NoAccount
Exists(s) == session[s] # NoSession

\* Ticks are counted as far as the properties look; an id may be drawn again after that.
Long == TTL + 1
Later(n) == IF n < Long THEN n + 1 ELSE Long

\* A request that has read and is going to write: the account it is about, the token's
\* session or the one named, the password compared, the role read or to be set, the
\* account that gets it.  spent: its reset token had set a password before it began
\* (history).
Ops == {"register", "login", "refresh", "revoke", "logout", "change", "forgot", "reset",
        "setRole"}
Idle == [op |-> "idle"]
Request == [op : Ops, user : Users, sid : SessionIds \union {"none"},
            given : 0..MaxPassword, role : Roles, target : Users,
            spent : BOOLEAN]

Busy(r) == req[r] # Idle
At(r, op) == Busy(r) /\ req[r].op = op
Finish(r) == req' = [req EXCEPT ![r] = Idle]

Begin(r, op, user, sid, given, role, target) ==
  /\ ~Busy(r)
  /\ req' = [req EXCEPT ![r] =
       [op |-> op, user |-> user, sid |-> sid, given |-> given, role |-> role,
        target |-> target, spent |-> op = "reset" /\ account[user].spent]]
  /\ UNCHANGED <<account, session, issued, chosen, gone, fallen>>

----------------------------------------------------------------------------
\* (mutant: tokens do not expire)
TickWithoutExpiry ==
  /\ \A r \in Requests : ~Busy(r)
  /\ gone' = [s \in SessionIds |-> IF Exists(s) THEN 0 ELSE Later(gone[s])]
  /\ fallen' = [u \in Users |-> IF Registered(u) /\ account[u].role = "admin"
                                 THEN 0 ELSE Later(fallen[u])]
  /\ UNCHANGED <<account, session, req, chosen, issued>>

\* Time passes, in ticks much longer than a request takes.
Tick ==
  /\ \A r \in Requests : ~Busy(r)
  /\ issued' = {[t EXCEPT !.life = @ - 1] : t \in {x \in issued : x.life > 1}}
  /\ gone' = [s \in SessionIds |-> IF Exists(s) THEN 0 ELSE Later(gone[s])]
  /\ fallen' = [u \in Users |-> IF Registered(u) /\ account[u].role = "admin"
                                 THEN 0 ELSE Later(fallen[u])]
  /\ UNCHANGED <<account, session, req, chosen>>

----------------------------------------------------------------------------
\* register: the name and the address are free.
BeginRegister(r, u) ==
  ~Registered(u) /\ Begin(r, "register", u, "none", 0, "user", u)

\* login: the row has the password given.
BeginLogin(r, u) ==
  /\ Registered(u)
  /\ Begin(r, "login", u, "none", account[u].password, account[u].role, u)

\* refreshToken: the row is there, within its thirty days, with the role of its user.
BeginRefresh(r, s) ==
  /\ Exists(s)
  /\ LET u == session[s].user IN Begin(r, "refresh", u, s, 0, account[u].role, u)

\* requestPasswordReset: the account is there (if not the answer is the same).
BeginForgot(r, u) == Registered(u) /\ Begin(r, "forgot", u, "none", 0, "user", u)

\* resetPassword: a token is stored, within its hour, and it is the one given.
BeginReset(r, u) ==
  Registered(u) /\ account[u].reset /\ Begin(r, "reset", u, "none", 0, "user", u)

\* The guard of every other call: JwtStrategy lets pass a token that has not expired, and
\* does not look its session up.  revokeSession, logout: then the row is deleted.
BeginRevoke(r, t, s) == Begin(r, "revoke", t.user, s, 0, "user", t.user)
BeginLogout(r, t) == Begin(r, "logout", t.user, t.sid, 0, "user", t.user)

\* changePassword: the row has the password given.
BeginChange(r, t) ==
  Begin(r, "change", t.user, t.sid, account[t.user].password, "user", t.user)

\* (mutant: the role change is open to every account)
MayCallAnything(t) == TRUE

\* RolesGuard: by the role in the token.
MaySetRoles(t) == t.role = "admin"

\* setPlatformRole: not one's own; the target exists.
BeginSetRole(r, t, u, role) ==
  /\ MaySetRoles(t)
  /\ u # t.user /\ Registered(u)
  /\ Begin(r, "setRole", t.user, t.sid, 0, role, u)

----------------------------------------------------------------------------
\* A row is added for a session of u, with the password the user gave.
OpenSession(s, u, password, current) ==
  /\ ~Exists(s) /\ gone[s] = Long
  /\ session' = [session EXCEPT ![s] = [user |-> u, password |-> password,
                                        overtaken |-> password # current]]
  /\ gone' = [gone EXCEPT ![s] = 0]

\* A token is signed for a session with the role that was read.
Sign(u, s, role) ==
  issued' = issued \union {[user |-> u, sid |-> s, role |-> role, life |-> TTL]}

\* register: the transaction, which the unique keys make fail when they are taken.
CreateAccount(r) ==
  /\ At(r, "register")
  /\ LET u == req[r].user IN
     IF Registered(u)
     THEN UNCHANGED <<account, session, issued, chosen, gone>>
     ELSE /\ chosen < MaxPassword
          /\ chosen' = chosen + 1
          /\ account' = [account EXCEPT ![u] = [password |-> chosen', role |-> "user",
                                                reset |-> FALSE, spent |-> FALSE]]
          /\ \E s \in SessionIds : OpenSession(s, u, chosen', chosen') /\ Sign(u, s, "user")
  /\ Finish(r)
  /\ UNCHANGED fallen

\* login: create the session and sign.
CreateSession(r) ==
  /\ At(r, "login")
  /\ LET u == req[r].user IN
     \E s \in SessionIds :
       OpenSession(s, u, req[r].given, account[u].password) /\ Sign(u, s, req[r].role)
  /\ Finish(r)
  /\ UNCHANGED <<account, chosen, fallen>>

\* refreshToken: the hash is compared, then a token signed.
Refresh(r) ==
  /\ At(r, "refresh")
  /\ Sign(req[r].user, req[r].sid, req[r].role)
  /\ Finish(r)
  /\ UNCHANGED <<account, session, chosen, gone, fallen>>

\* revokeSession, logout: deleteMany of one id of the caller's.
Revoke(r) ==
  /\ At(r, "revoke") \/ At(r, "logout")
  /\ session' = IF Exists(req[r].sid) /\ session[req[r].sid].user = req[r].user
                THEN [session EXCEPT ![req[r].sid] = NoSession] ELSE session
  /\ Finish(r)
  /\ UNCHANGED <<account, issued, chosen, gone, fallen>>

\* The sessions that are left after a password has been set for u.
SessionsWithout(u) ==
  [s \in SessionIds |-> IF Exists(s) /\ session[s].user = u THEN NoSession ELSE session[s]]

\* (mutant: a session is kept, the caller's)
ChangeKeepingSession(r) ==
  /\ At(r, "change")
  /\ chosen < MaxPassword
  /\ chosen' = chosen + 1
  /\ account' = [account EXCEPT ![req[r].user].password = chosen']
  /\ session' = [SessionsWithout(req[r].user) EXCEPT ![req[r].sid] = session[req[r].sid]]
  /\ Finish(r)
  /\ UNCHANGED <<issued, gone, fallen>>

\* changePassword: the transaction.
ChangePassword(r) ==
  /\ At(r, "change")
  /\ chosen < MaxPassword
  /\ chosen' = chosen + 1
  /\ account' = [account EXCEPT ![req[r].user].password = chosen']
  /\ session' = SessionsWithout(req[r].user)
  /\ Finish(r)
  /\ UNCHANGED <<issued, gone, fallen>>

\* requestPasswordReset: the token's hash replaces any other.
SendReset(r) ==
  /\ At(r, "forgot")
  /\ account' = [account EXCEPT ![req[r].user].reset = TRUE, ![req[r].user].spent = FALSE]
  /\ Finish(r)
  /\ UNCHANGED <<session, issued, chosen, gone, fallen>>

\* (mutant: the token is left in the row)
ResetKeepingToken(r) ==
  /\ At(r, "reset")
  /\ chosen < MaxPassword
  /\ chosen' = chosen + 1
  /\ account' = [account EXCEPT ![req[r].user].password = chosen',
                                ![req[r].user].spent = TRUE]
  /\ session' = SessionsWithout(req[r].user)
  /\ Finish(r)
  /\ UNCHANGED <<issued, gone, fallen>>

\* resetPassword: the transaction.
ResetPassword(r) ==
  /\ At(r, "reset")
  /\ chosen < MaxPassword
  /\ chosen' = chosen + 1
  /\ account' = [account EXCEPT ![req[r].user].password = chosen',
                                ![req[r].user].reset = FALSE,
                                ![req[r].user].spent = TRUE]
  /\ session' = SessionsWithout(req[r].user)
  /\ Finish(r)
  /\ UNCHANGED <<issued, gone, fallen>>

\* setPlatformRole: the update.
SetRole(r) ==
  /\ At(r, "setRole")
  /\ account' = [account EXCEPT ![req[r].target].role = req[r].role]
  /\ fallen' = IF "admin" \in {req[r].role, account[req[r].target].role}
               THEN [fallen EXCEPT ![req[r].target] = 0] ELSE fallen
  /\ Finish(r)
  /\ UNCHANGED <<session, issued, chosen, gone>>

\* The process stops, or an error is thrown, before the write.
Abort(r) ==
  /\ Busy(r)
  /\ Finish(r)
  /\ UNCHANGED <<account, session, issued, chosen, gone, fallen>>

----------------------------------------------------------------------------
Init ==
  /\ account = [u \in Users |->
       IF u = FirstAdmin
       THEN [password |-> 1, role |-> "admin", reset |-> FALSE, spent |-> FALSE]
       ELSE NoAccount]
  /\ session = [s \in SessionIds |-> NoSession]
  /\ req = [r \in Requests |-> Idle]
  /\ issued = {}
  /\ chosen = 1
  /\ gone = [s \in SessionIds |-> Long]
  /\ fallen = [u \in Users |-> IF u = FirstAdmin THEN 0 ELSE Long]

Start(r) ==
  \/ \E u \in Users :
       BeginRegister(r, u) \/ BeginLogin(r, u) \/ BeginForgot(r, u) \/ BeginReset(r, u)
  \/ \E s \in SessionIds : BeginRefresh(r, s)
  \/ \E t \in issued :
       \/ BeginLogout(r, t) \/ BeginChange(r, t)
       \/ \E s \in SessionIds : BeginRevoke(r, t, s)
       \/ \E u \in Users, role \in Roles : BeginSetRole(r, t, u, role)

Handle(r) ==
  \/ CreateAccount(r) \/ CreateSession(r) \/ Refresh(r) \/ Revoke(r)
  \/ ChangePassword(r) \/ SendReset(r) \/ ResetPassword(r) \/ SetRole(r)
  \/ Abort(r)

Next == Tick \/ \E r \in Requests : Start(r) \/ Handle(r)

Spec == Init /\ [][Next]_vars

----------------------------------------------------------------------------
\* The shape of the state.
TypeOK ==
  /\ account \in [Users -> Account \union {NoAccount}]
  /\ session \in [SessionIds -> Session \union {NoSession}]
  /\ req \in [Requests -> Request \union {Idle}]
  /\ issued \subseteq Token
  /\ chosen \in 1..MaxPassword
  /\ gone \in [SessionIds -> 0..Long]
  /\ fallen \in [Users -> 0..Long]

\* A revoked session stops working: whatever token is still accepted belongs to a session
\* whose row was there no longer ago than a token lives, although the guard never looks
\* there, and a refresh that read the row before it was deleted signs a token after.
RevocationTakesEffect == \A t \in issued : gone[t.sid] < TTL

\* No session survives its password, however it is changed, except one whose login had
\* compared before and inserts after.
SessionsKnowThePassword ==
  \A s \in SessionIds :
    Exists(s) /\ ~session[s].overtaken
      => session[s].password = account[session[s].user].password

\* A reset token that has set a password is not accepted for another: of two resets with
\* one token the second passes only if it is compared before the first is done.
ResetOnce == \A r \in Requests : At(r, "reset") => ~req[r].spent

\* A platform role is changed by an account that was admin no longer ago than a token
\* lives, although the guard reads the role from the token.
RolesByAdmins ==
  [][\A r \in Requests : At(r, "setRole") /\ account' # account /\ req'[r] = Idle
       => fallen[req[r].user] < TTL]_vars
=============================================================================
