---------------------------- MODULE SessionsProofs ----------------------------
(***************************************************************************)
(* Theorems about Sessions for every set of accounts, sessions, requests   *)
(* and platform roles, every lifetime of a token and every number of       *)
(* passwords.                                                              *)
(***************************************************************************)
EXTENDS Sessions, TLAPS

----------------------------------------------------------------------------
(* The invariant.  None of its parts is inductive without the ones before it: an       *)
(* account once registered stays, and whatever refers to an account refers to one that *)
(* is registered.                                                                      *)

\* Sessions, tokens and requests are of accounts that are registered, but for the requests
\* to register one.
KnownAccounts ==
  /\ \A s \in SessionIds : Exists(s) => Registered(session[s].user)
  /\ \A t \in issued : Registered(t.user)
  /\ \A r \in Requests : Busy(r) =>
       /\ req[r].op # "register" => Registered(req[r].user)
       /\ req[r].op = "login" => req[r].given # 0
       /\ req[r].op \in {"refresh", "revoke", "logout"} => req[r].sid \in SessionIds
       /\ Registered(req[r].target) \/ req[r].op # "setRole"

\* What has been handled between two ticks is as fresh as the tick: a session that exists,
\* or that a refresh in flight has seen, is not gone yet.
PresentNotGone ==
  /\ \A s \in SessionIds : Exists(s) => gone[s] = 0
  /\ \A r \in Requests : At(r, "refresh") => gone[req[r].sid] = 0

\* The ticks that a token has left and those its session has been gone add up to a token's
\* lifetime at most.
LifeCoversAbsence == \A t \in issued : t.life + gone[t.sid] <= TTL

\* The same for the role admin: who holds it has not lost it, nor has who is about to be
\* given a token with it.
AdminsNotFallen ==
  /\ \A u \in Users : Registered(u) /\ account[u].role = "admin" => fallen[u] = 0
  /\ \A r \in Requests : /\ At(r, "login") \/ At(r, "refresh")
                         /\ req[r].role = "admin"
                         => fallen[req[r].user] = 0

LifeCoversFall ==
  /\ \A t \in issued : t.role = "admin" => t.life + fallen[t.user] <= TTL
  /\ \A r \in Requests : At(r, "setRole") => fallen[req[r].user] < TTL

\* A reset token that is stored has not been used.
StoredNotSpent ==
  \A u \in Users : Registered(u) /\ account[u].reset => ~account[u].spent

SessionsInv ==
  /\ TypeOK
  /\ KnownAccounts
  /\ PresentNotGone
  /\ LifeCoversAbsence
  /\ AdminsNotFallen
  /\ LifeCoversFall
  /\ SessionsKnowThePassword
  /\ StoredNotSpent
  /\ ResetOnce

----------------------------------------------------------------------------
(* Facts about requests *)

LEMMA BusyRequest ==
  ASSUME TypeOK, NEW r \in Requests, Busy(r)
  PROVE  /\ req[r] \in Request
         /\ req[r].op \in Ops
         /\ req[r].user \in Users
         /\ req[r].target \in Users
         /\ req[r].role \in Roles
         /\ req[r].given \in 0..MaxPassword
BY DEF TypeOK, Busy, Request

\* The slot of a request that is answered is free, and the others are as they were.
LEMMA Finished ==
  ASSUME TypeOK, NEW r \in Requests, Finish(r)
  PROVE  /\ req' \in [Requests -> Request \union {Idle}]
         /\ ~Busy(r)'
         /\ \A q \in Requests : Busy(q)' => req'[q] = req[q] /\ Busy(q)
BY DEF TypeOK, Finish, Busy

\* What a registered account has in its row.
LEMMA RegisteredAccount ==
  ASSUME TypeOK, NEW u \in Users
  PROVE  /\ Registered(u) <=> account[u] \in Account
         /\ Registered(u) => account[u].password \in 1..MaxPassword /\ account[u].role \in Roles
BY MaxPasswordAssumption DEF TypeOK, Registered, Account, NoAccount

LEMMA InvInit == Init => SessionsInv
<1> SUFFICES ASSUME Init PROVE SessionsInv
  OBVIOUS
<1> USE FirstAdminAssumption, RolesAssumption, TTLAssumption, MaxPasswordAssumption
<1>1. TypeOK
  BY DEF Init, TypeOK, Account, Long
<1>2. /\ \A s \in SessionIds : ~Exists(s)
      /\ \A r \in Requests : ~Busy(r)
      /\ issued = {}
  BY DEF Init, Exists, Busy
<1>3. KnownAccounts /\ PresentNotGone /\ LifeCoversAbsence /\ SessionsKnowThePassword /\ ResetOnce
  BY <1>2 DEF KnownAccounts, PresentNotGone, LifeCoversAbsence, SessionsKnowThePassword,
     ResetOnce, At
<1>4. AdminsNotFallen /\ LifeCoversFall /\ StoredNotSpent
  BY <1>2 DEF Init, AdminsNotFallen, LifeCoversFall, StoredNotSpent, Registered, At, NoAccount
<1> QED BY <1>1, <1>3, <1>4 DEF SessionsInv

----------------------------------------------------------------------------
(* A request begins *)

\* A request that knows what its operation needs to know keeps the invariant.
LEMMA BeginKeeps ==
  ASSUME SessionsInv, NEW r \in Requests, NEW op \in Ops, NEW u \in Users,
         NEW sid \in SessionIds \union {"none"}, NEW given \in 0..MaxPassword,
         NEW role \in Roles, NEW target \in Users,
         Begin(r, op, u, sid, given, role, target),
         op # "register" => Registered(u),
         op = "login" => given # 0,
         op \in {"refresh", "revoke", "logout"} => sid \in SessionIds,
         op = "refresh" => gone[sid] = 0,
         op \in {"login", "refresh"} /\ role = "admin" => fallen[u] = 0,
         op = "setRole" => fallen[u] < TTL /\ Registered(target),
         op = "reset" => account[u].reset
  PROVE  SessionsInv'
<1> USE DEF SessionsInv
<1> DEFINE new == [op |-> op, user |-> u, sid |-> sid, given |-> given, role |-> role,
                   target |-> target, spent |-> op = "reset" /\ account[u].spent]
<1>1. new \in Request /\ (op = "reset" => ~new.spent)
  <2>1. CASE op = "reset"
    <3>1. account[u].spent = FALSE
      BY <2>1, RegisteredAccount DEF StoredNotSpent, Account
    <3> QED BY <2>1, <3>1 DEF Request
  <2>2. CASE op # "reset"
    BY <2>2 DEF Request
  <2> QED BY <2>1, <2>2
<1>2. /\ req' = [req EXCEPT ![r] = new]
      /\ UNCHANGED <<account, session, issued, chosen, gone, fallen>>
  BY DEF Begin
<1>3. TypeOK'
  BY <1>1, <1>2 DEF TypeOK
<1>4. /\ req'[r] = new
      /\ \A q \in Requests \ {r} : req'[q] = req[q]
  BY <1>2 DEF TypeOK
<1>5. KnownAccounts'
  BY <1>2, <1>4 DEF KnownAccounts, Exists, Registered, Busy
<1>6. PresentNotGone'
  BY <1>2, <1>4 DEF PresentNotGone, Exists, At, Busy
<1>7. AdminsNotFallen'
  BY <1>2, <1>4 DEF AdminsNotFallen, Registered, At, Busy
<1>8. LifeCoversAbsence' /\ LifeCoversFall'
  BY <1>2, <1>4 DEF LifeCoversAbsence, LifeCoversFall, At, Busy
<1>9. SessionsKnowThePassword' /\ StoredNotSpent'
  BY <1>2 DEF SessionsKnowThePassword, StoredNotSpent, Exists, Registered
<1>10. ResetOnce'
  BY <1>1, <1>4 DEF ResetOnce, At, Busy
<1> QED BY <1>3, <1>5, <1>6, <1>7, <1>8, <1>9, <1>10

LEMMA StartKeeps ==
  ASSUME SessionsInv, NEW r \in Requests, Start(r)
  PROVE  SessionsInv'
<1> USE RolesAssumption, MaxPasswordAssumption DEF Ops
<1>a. TypeOK /\ KnownAccounts
  BY DEF SessionsInv
<1>1. ASSUME NEW u \in Users,
             BeginRegister(r, u) \/ BeginLogin(r, u) \/ BeginForgot(r, u) \/ BeginReset(r, u)
      PROVE  SessionsInv'
  <2>1. CASE BeginRegister(r, u)
    BY <2>1, BeginKeeps DEF BeginRegister
  <2>2. CASE BeginLogin(r, u)
    <3>1. /\ account[u].password \in 0..MaxPassword /\ account[u].password # 0
          /\ account[u].role \in Roles
          /\ account[u].role = "admin" => fallen[u] = 0
      BY <1>a, <2>2, RegisteredAccount DEF BeginLogin, SessionsInv, AdminsNotFallen
    <3> QED BY <2>2, <3>1, BeginKeeps DEF BeginLogin
  <2>3. CASE BeginForgot(r, u)
    BY <2>3, BeginKeeps DEF BeginForgot
  <2>4. CASE BeginReset(r, u)
    BY <2>4, BeginKeeps DEF BeginReset
  <2> QED BY <1>1, <2>1, <2>2, <2>3, <2>4
<1>2. ASSUME NEW s \in SessionIds, BeginRefresh(r, s) PROVE SessionsInv'
  <2> DEFINE u == session[s].user
  <2>1. u \in Users /\ Registered(u) /\ gone[s] = 0
    BY <1>a, <1>2 DEF BeginRefresh, TypeOK, KnownAccounts, Exists, Session, SessionsInv,
       PresentNotGone
  <2>2. account[u].role \in Roles /\ (account[u].role = "admin" => fallen[u] = 0)
    BY <1>a, <2>1, RegisteredAccount DEF SessionsInv, AdminsNotFallen
  <2> QED BY <1>2, <2>1, <2>2, BeginKeeps DEF BeginRefresh
<1>3. ASSUME NEW t \in issued,
             \/ BeginLogout(r, t) \/ BeginChange(r, t)
             \/ \E s \in SessionIds : BeginRevoke(r, t, s)
             \/ \E u \in Users, role \in Roles : BeginSetRole(r, t, u, role)
      PROVE  SessionsInv'
  <2>1. t \in Token /\ t.user \in Users /\ t.sid \in SessionIds /\ Registered(t.user)
    BY <1>a DEF TypeOK, Token, KnownAccounts
  <2>2. CASE BeginLogout(r, t)
    BY <2>1, <2>2, BeginKeeps DEF BeginLogout
  <2>3. CASE BeginChange(r, t)
    <3>1. account[t.user].password \in 0..MaxPassword
      BY <1>a, <2>1, RegisteredAccount
    <3> QED BY <2>1, <2>3, <3>1, BeginKeeps DEF BeginChange
  <2>4. ASSUME NEW s \in SessionIds, BeginRevoke(r, t, s) PROVE SessionsInv'
    BY <2>1, <2>4, BeginKeeps DEF BeginRevoke
  <2>5. ASSUME NEW u \in Users, NEW role \in Roles, BeginSetRole(r, t, u, role)
        PROVE  SessionsInv'
    <3>1. fallen[t.user] < TTL
      <4>1. t.life \in 1..TTL /\ t.life + fallen[t.user] <= TTL
        BY <2>1, <2>5 DEF BeginSetRole, MaySetRoles, SessionsInv, LifeCoversFall, Token
      <4>2. fallen[t.user] \in Nat
        BY <1>a, <2>1, TTLAssumption DEF TypeOK, Long
      <4> QED BY <4>1, <4>2, TTLAssumption
    <3> QED BY <2>1, <2>5, <3>1, BeginKeeps DEF BeginSetRole
  <2> QED BY <1>3, <2>2, <2>3, <2>4, <2>5
<1> QED BY <1>1, <1>2, <1>3 DEF Start

----------------------------------------------------------------------------
(* Time passes *)

LEMMA TickKeeps ==
  ASSUME SessionsInv, Tick
  PROVE  SessionsInv'
<1> USE TTLAssumption DEF SessionsInv
<1>1. /\ \A r \in Requests : ~Busy(r) /\ ~Busy(r)'
      /\ UNCHANGED <<account, session, req, chosen>>
  BY DEF Tick, Busy
<1>2. /\ gone' \in [SessionIds -> 0..Long]
      /\ \A s \in SessionIds : gone'[s] <= gone[s] + 1 /\ (Exists(s) => gone'[s] = 0)
  BY DEF Tick, TypeOK, Later, Long
<1>3. /\ fallen' \in [Users -> 0..Long]
      /\ \A u \in Users : /\ fallen'[u] <= fallen[u] + 1
                          /\ Registered(u) /\ account[u].role = "admin" => fallen'[u] = 0
  BY DEF Tick, TypeOK, Later, Long
<1>4. \A t \in issued' : \E x \in issued : /\ t = [x EXCEPT !.life = @ - 1]
                                           /\ x.life > 1 /\ x \in Token
  BY DEF Tick, TypeOK
<1>5. \A t \in issued' : \E x \in issued :
        /\ t \in Token /\ x \in Token
        /\ t.user = x.user /\ t.sid = x.sid /\ t.role = x.role /\ t.life = x.life - 1
  BY <1>4 DEF Token
<1>6. TypeOK'
  BY <1>1, <1>2, <1>3, <1>5 DEF TypeOK
<1>7. KnownAccounts'
  BY <1>1, <1>5 DEF KnownAccounts, Exists, Registered
<1>8. PresentNotGone' /\ AdminsNotFallen'
  BY <1>1, <1>2, <1>3 DEF PresentNotGone, AdminsNotFallen, Exists, Registered, At
<1>9. LifeCoversAbsence'
  <2> SUFFICES ASSUME NEW t \in issued' PROVE t.life + gone'[t.sid] <= TTL
    BY DEF LifeCoversAbsence
  <2>1. PICK x \in issued :
          t \in Token /\ x \in Token /\ t.sid = x.sid /\ t.life = x.life - 1
    BY <1>5
  <2>2. /\ gone[x.sid] \in Nat /\ gone'[x.sid] \in Nat
        /\ gone'[x.sid] <= gone[x.sid] + 1 /\ x.life + gone[x.sid] <= TTL
        /\ x.life \in Nat
    BY <1>2, <2>1 DEF TypeOK, Long, LifeCoversAbsence, Token
  <2> QED BY <2>1, <2>2
<1>10. LifeCoversFall'
  <2> SUFFICES ASSUME NEW t \in issued', t.role = "admin"
               PROVE  t.life + fallen'[t.user] <= TTL
    BY <1>1 DEF LifeCoversFall, At
  <2>1. PICK x \in issued :
          /\ t \in Token /\ x \in Token /\ t.user = x.user /\ t.life = x.life - 1
          /\ x.role = "admin"
    BY <1>5
  <2>2. /\ fallen[x.user] \in Nat /\ fallen'[x.user] \in Nat
        /\ fallen'[x.user] <= fallen[x.user] + 1 /\ x.life + fallen[x.user] <= TTL
        /\ x.life \in Nat
    BY <1>3, <2>1 DEF TypeOK, Long, LifeCoversFall, Token
  <2> QED BY <2>1, <2>2
<1>11. SessionsKnowThePassword' /\ StoredNotSpent' /\ ResetOnce'
  BY <1>1 DEF SessionsKnowThePassword, StoredNotSpent, ResetOnce, Exists, Registered, At
<1> QED BY <1>6, <1>7, <1>8, <1>9, <1>10, <1>11

----------------------------------------------------------------------------
(* A request writes, and is answered *)

\* A token signed for a session that is there, or that was when it was refreshed, with a
\* role that its user had then, keeps what is said of tokens.
LEMMA SignKeeps ==
  ASSUME SessionsInv, NEW u \in Users, NEW s \in SessionIds, NEW role \in Roles,
         Sign(u, s, role), Registered(u)', gone'[s] = 0, role = "admin" => fallen'[u] = 0,
         \A x \in Users : Registered(x) => Registered(x)',
         \A x \in SessionIds : gone'[x] = gone[x] \/ gone'[x] = 0,
         fallen' = fallen
  PROVE  /\ issued' \subseteq Token
         /\ \A t \in issued' : Registered(t.user)'
         /\ LifeCoversAbsence'
         /\ \A t \in issued' : t.role = "admin" => t.life + fallen'[t.user] <= TTL
<1> USE TTLAssumption DEF SessionsInv
<1> DEFINE new == [user |-> u, sid |-> s, role |-> role, life |-> TTL]
<1>1. new \in Token /\ issued' = issued \union {new} /\ issued \subseteq Token
  BY DEF Sign, Token, TypeOK
<1>2. \A t \in issued' : Registered(t.user)'
  BY <1>1 DEF KnownAccounts, Token
<1>3. \A t \in issued : t.life + gone'[t.sid] <= TTL
  <2> SUFFICES ASSUME NEW t \in issued PROVE t.life + gone'[t.sid] <= TTL
    OBVIOUS
  <2>1. /\ t.sid \in SessionIds /\ t.life \in 1..TTL /\ t.life + gone[t.sid] <= TTL
        /\ gone[t.sid] \in Nat
    BY <1>1 DEF LifeCoversAbsence, Token, TypeOK, Long
  <2> QED BY <2>1
<1>4. LifeCoversAbsence'
  BY <1>1, <1>3 DEF LifeCoversAbsence
<1>5. \A t \in issued' : t.role = "admin" => t.life + fallen'[t.user] <= TTL
  BY <1>1 DEF LifeCoversFall
<1> QED BY <1>1, <1>2, <1>4, <1>5

\* A session opened for a registered account.
LEMMA OpenKeeps ==
  ASSUME SessionsInv, NEW s \in SessionIds, NEW u \in Users, NEW password \in 1..MaxPassword,
         NEW current, OpenSession(s, u, password, current)
  PROVE  /\ session' \in [SessionIds -> Session \union {NoSession}]
         /\ gone' \in [SessionIds -> 0..Long]
         /\ gone'[s] = 0
         /\ \A x \in SessionIds : gone'[x] = gone[x] \/ gone'[x] = 0
         /\ \A x \in SessionIds : Exists(x)' => gone'[x] = 0
         /\ session'[s] = [user |-> u, password |-> password,
                           overtaken |-> password # current]
         /\ \A x \in SessionIds \ {s} : session'[x] = session[x]
<1> DEFINE new == [user |-> u, password |-> password, overtaken |-> password # current]
<1>1. new \in Session
  BY DEF Session
<1> QED BY <1>1, TTLAssumption DEF OpenSession, SessionsInv, TypeOK, PresentNotGone, Exists, Long

\* A step that deletes sessions and leaves the rest.
LEMMA DeletionKeeps ==
  ASSUME SessionsInv, NEW r \in Requests, Finish(r),
         UNCHANGED <<account, issued, chosen, gone, fallen>>,
         session' \in [SessionIds -> Session \union {NoSession}],
         \A s \in SessionIds : Exists(s)' => session'[s] = session[s]
  PROVE  SessionsInv'
<1> USE DEF SessionsInv
<1>1. /\ req' \in [Requests -> Request \union {Idle}]
      /\ \A q \in Requests : Busy(q)' => req'[q] = req[q] /\ Busy(q)
  BY Finished
<1>2. \A x \in Users : Registered(x)' <=> Registered(x)
  BY DEF Registered
<1>3. TypeOK'
  BY <1>1 DEF TypeOK
<1>4. KnownAccounts' /\ PresentNotGone'
  BY <1>1 DEF KnownAccounts, PresentNotGone, At, Exists, Registered
<1>5. LifeCoversAbsence' /\ AdminsNotFallen' /\ LifeCoversFall'
  BY <1>1, <1>2 DEF LifeCoversAbsence, AdminsNotFallen, LifeCoversFall, At
<1>6. SessionsKnowThePassword' /\ StoredNotSpent' /\ ResetOnce'
  BY <1>1, <1>2 DEF SessionsKnowThePassword, StoredNotSpent, ResetOnce, At, Exists
<1> QED BY <1>3, <1>4, <1>5, <1>6

LEMMA CreateAccountKeeps ==
  ASSUME SessionsInv, NEW r \in Requests, CreateAccount(r)
  PROVE  SessionsInv'
<1> USE RolesAssumption, MaxPasswordAssumption DEF SessionsInv
<1>1. PICK u \in Users :
        u = req[r].user /\ req[r] \in Request /\ Finish(r) /\ fallen' = fallen
  BY BusyRequest DEF CreateAccount, At
<1>2. /\ req' \in [Requests -> Request \union {Idle}]
      /\ \A q \in Requests : Busy(q)' => req'[q] = req[q] /\ Busy(q)
  BY <1>1, Finished
<1>3. CASE UNCHANGED <<account, session, issued, chosen, gone>>
  BY <1>1, <1>3, DeletionKeeps DEF TypeOK
<1>4. CASE ~Registered(u)
  <2> DEFINE new == [password |-> chosen', role |-> "user", reset |-> FALSE, spent |-> FALSE]
  <2>1. /\ chosen < MaxPassword /\ chosen' = chosen + 1
        /\ account' = [account EXCEPT ![u] = new]
    BY <1>1, <1>4 DEF CreateAccount
  <2>3. PICK n \in 1..MaxPassword : n = chosen' /\ new \in Account
    BY <2>1 DEF TypeOK, Account
  <2>2. PICK s \in SessionIds : OpenSession(s, u, n, n) /\ Sign(u, s, "user")
    BY <1>1, <1>4, <2>3 DEF CreateAccount
  <2>4. /\ account' \in [Users -> Account \union {NoAccount}]
        /\ account'[u] = new
        /\ \A x \in Users \ {u} : account'[x] = account[x]
        /\ Registered(u)'
        /\ \A x \in Users : Registered(x) => account'[x] = account[x]
    <3>1. /\ account' \in [Users -> Account \union {NoAccount}]
          /\ account'[u] = new
          /\ \A x \in Users \ {u} : account'[x] = account[x]
      BY <1>1, <2>1, <2>3 DEF TypeOK
    <3>2. new # NoAccount
      BY <2>3 DEF Account, NoAccount
    <3> QED BY <1>4, <3>1, <3>2 DEF Registered
  <2>5. /\ session' \in [SessionIds -> Session \union {NoSession}]
        /\ gone' \in [SessionIds -> 0..Long]
        /\ gone'[s] = 0
        /\ \A x \in SessionIds : gone'[x] = gone[x] \/ gone'[x] = 0
        /\ \A x \in SessionIds : Exists(x)' => gone'[x] = 0
        /\ session'[s] = [user |-> u, password |-> n, overtaken |-> FALSE]
        /\ \A x \in SessionIds \ {s} : session'[x] = session[x]
    BY <2>2, OpenKeeps
  <2>6. /\ issued' \subseteq Token
        /\ \A t \in issued' : Registered(t.user)'
        /\ LifeCoversAbsence'
        /\ \A t \in issued' : t.role = "admin" => t.life + fallen'[t.user] <= TTL
    BY <1>1, <2>2, <2>4, <2>5, SignKeeps DEF Registered
  <2>7. TypeOK'
    BY <1>1, <1>2, <2>3, <2>4, <2>5, <2>6 DEF TypeOK
  <2>8. KnownAccounts'
    <3>1. \A q \in Requests :
            Busy(q) => req[q] \in Request /\ req[q].user \in Users /\ req[q].target \in Users
      BY BusyRequest
    <3>2. \A x \in SessionIds :
            Exists(x)' => session'[x].user \in Users /\ account'[session'[x].user] # NoAccount
      BY <2>4, <2>5 DEF KnownAccounts, Exists, TypeOK, Session, Registered
    <3> QED BY <1>2, <2>4, <2>6, <3>1, <3>2 DEF KnownAccounts, Registered
  <2>9. PresentNotGone'
    BY <1>2, <2>5 DEF PresentNotGone, At, KnownAccounts
  <2>10. AdminsNotFallen' /\ LifeCoversFall'
    BY <1>1, <1>2, <2>4, <2>6 DEF AdminsNotFallen, LifeCoversFall, At, Registered
  <2>11. SessionsKnowThePassword'
    BY <1>4, <2>3, <2>4, <2>5 DEF SessionsKnowThePassword, KnownAccounts, Exists, TypeOK, Session
  <2>12. StoredNotSpent' /\ ResetOnce'
    BY <1>2, <2>4 DEF StoredNotSpent, ResetOnce, At, Registered
  <2> QED BY <2>6, <2>7, <2>8, <2>9, <2>10, <2>11, <2>12
<1> QED BY <1>1, <1>3, <1>4 DEF CreateAccount

LEMMA CreateSessionKeeps ==
  ASSUME SessionsInv, NEW r \in Requests, CreateSession(r)
  PROVE  SessionsInv'
<1> USE MaxPasswordAssumption DEF SessionsInv
<1>1. PICK u \in Users :
      /\ u = req[r].user /\ req[r] \in Request /\ req[r].role \in Roles
      /\ Finish(r) /\ UNCHANGED <<account, chosen, fallen>>
      /\ Registered(u) /\ req[r].given \in 1..MaxPassword
      /\ req[r].role = "admin" => fallen[u] = 0
  BY BusyRequest DEF CreateSession, At, KnownAccounts, AdminsNotFallen
<1>2. /\ req' \in [Requests -> Request \union {Idle}]
      /\ \A q \in Requests : Busy(q)' => req'[q] = req[q] /\ Busy(q)
  BY <1>1, Finished
<1>3. PICK s \in SessionIds : /\ OpenSession(s, u, req[r].given, account[u].password)
                              /\ Sign(u, s, req[r].role)
  BY <1>1 DEF CreateSession
<1>4. /\ session' \in [SessionIds -> Session \union {NoSession}]
      /\ gone' \in [SessionIds -> 0..Long]
      /\ gone'[s] = 0
      /\ \A x \in SessionIds : gone'[x] = gone[x] \/ gone'[x] = 0
      /\ \A x \in SessionIds : Exists(x)' => gone'[x] = 0
      /\ session'[s] = [user |-> u, password |-> req[r].given,
                        overtaken |-> req[r].given # account[u].password]
      /\ \A x \in SessionIds \ {s} : session'[x] = session[x]
  BY <1>1, <1>3, OpenKeeps
<1>5. \A x \in Users : Registered(x)' <=> Registered(x)
  BY <1>1 DEF Registered
<1>6. /\ issued' \subseteq Token
      /\ \A t \in issued' : Registered(t.user)'
      /\ LifeCoversAbsence'
      /\ \A t \in issued' : t.role = "admin" => t.life + fallen'[t.user] <= TTL
  BY <1>1, <1>3, <1>4, <1>5, SignKeeps
<1>7. TypeOK'
  BY <1>1, <1>2, <1>4, <1>6 DEF TypeOK
<1>8. KnownAccounts'
  BY <1>1, <1>2, <1>4, <1>6 DEF KnownAccounts, Exists, TypeOK, Session, Request, Registered
<1>9. PresentNotGone' /\ AdminsNotFallen' /\ LifeCoversFall'
  BY <1>1, <1>2, <1>4, <1>5, <1>6
     DEF PresentNotGone, AdminsNotFallen, LifeCoversFall, At, KnownAccounts
<1>10. SessionsKnowThePassword'
  BY <1>1, <1>4 DEF SessionsKnowThePassword, Exists, TypeOK, Session
<1>11. StoredNotSpent' /\ ResetOnce'
  BY <1>1, <1>2, <1>5 DEF StoredNotSpent, ResetOnce, At
<1> QED BY <1>6, <1>7, <1>8, <1>9, <1>10, <1>11

LEMMA RefreshKeeps ==
  ASSUME SessionsInv, NEW r \in Requests, Refresh(r)
  PROVE  SessionsInv'
<1> USE DEF SessionsInv
<1>1. PICK u \in Users, s \in SessionIds :
      /\ u = req[r].user /\ s = req[r].sid /\ req[r].role \in Roles
      /\ Finish(r) /\ UNCHANGED <<account, session, chosen, gone, fallen>>
      /\ Registered(u) /\ gone[s] = 0
      /\ req[r].role = "admin" => fallen[u] = 0
      /\ Sign(u, s, req[r].role)
  BY BusyRequest DEF Refresh, At, KnownAccounts, AdminsNotFallen, PresentNotGone
<1>2. /\ req' \in [Requests -> Request \union {Idle}]
      /\ \A q \in Requests : Busy(q)' => req'[q] = req[q] /\ Busy(q)
  BY <1>1, Finished
<1>3. \A x \in Users : Registered(x)' <=> Registered(x)
  BY <1>1 DEF Registered
<1>4. /\ issued' \subseteq Token
      /\ \A t \in issued' : Registered(t.user)'
      /\ LifeCoversAbsence'
      /\ \A t \in issued' : t.role = "admin" => t.life + fallen'[t.user] <= TTL
  BY <1>1, <1>3, SignKeeps
<1>5. TypeOK'
  BY <1>1, <1>2, <1>4 DEF TypeOK
<1>6. KnownAccounts' /\ PresentNotGone' /\ AdminsNotFallen' /\ LifeCoversFall'
  BY <1>1, <1>2, <1>4
     DEF KnownAccounts, PresentNotGone, AdminsNotFallen, LifeCoversFall, At, Exists, Registered
<1>7. SessionsKnowThePassword' /\ StoredNotSpent' /\ ResetOnce'
  BY <1>1, <1>2, <1>3 DEF SessionsKnowThePassword, StoredNotSpent, ResetOnce, At, Exists
<1> QED BY <1>4, <1>5, <1>6, <1>7

LEMMA RevokeKeeps ==
  ASSUME SessionsInv, NEW r \in Requests, Revoke(r)
  PROVE  SessionsInv'
<1>1. /\ session' \in [SessionIds -> Session \union {NoSession}]
      /\ \A s \in SessionIds : Exists(s)' => session'[s] = session[s]
  BY DEF Revoke, SessionsInv, TypeOK, Exists
<1> QED BY <1>1, DeletionKeeps DEF Revoke

LEMMA AbortKeeps ==
  ASSUME SessionsInv, NEW r \in Requests, Abort(r)
  PROVE  SessionsInv'
BY DeletionKeeps DEF Abort, SessionsInv, TypeOK

\* A step that sets the password of a registered account and deletes all its sessions.
LEMMA PasswordKeeps ==
  ASSUME SessionsInv, NEW r \in Requests, NEW u \in Users, Registered(u), Finish(r),
         chosen < MaxPassword, chosen' = chosen + 1,
         session' = SessionsWithout(u), UNCHANGED <<issued, gone, fallen>>,
         account' \in [Users -> Account \union {NoAccount}],
         \A x \in Users \ {u} : account'[x] = account[x],
         account'[u].role = account[u].role, account'[u] \in Account,
         account'[u].reset => ~account'[u].spent
  PROVE  SessionsInv'
<1> USE MaxPasswordAssumption DEF SessionsInv
<1>1. /\ req' \in [Requests -> Request \union {Idle}]
      /\ \A q \in Requests : Busy(q)' => req'[q] = req[q] /\ Busy(q)
  BY Finished
<1>2. \A x \in Users : (account'[x] # NoAccount <=> account[x] # NoAccount)
                       /\ (account[x] # NoAccount => account'[x].role = account[x].role)
  BY RegisteredAccount DEF Registered, Account, NoAccount
<1>3. /\ session' \in [SessionIds -> Session \union {NoSession}]
      /\ \A s \in SessionIds : session'[s] # NoSession =>
           session'[s] = session[s] /\ session[s].user # u /\ session[s] # NoSession
  BY DEF SessionsWithout, Exists, TypeOK
<1>4. TypeOK'
  BY <1>1, <1>3 DEF TypeOK
<1>5. KnownAccounts'
  BY <1>1, <1>2, <1>3 DEF KnownAccounts, Exists, Registered, TypeOK, Session, Request, Token, Busy
<1>6. PresentNotGone' /\ LifeCoversAbsence'
  BY <1>1, <1>3 DEF PresentNotGone, LifeCoversAbsence, Exists, At
<1>7. AdminsNotFallen' /\ LifeCoversFall'
  BY <1>1, <1>2 DEF AdminsNotFallen, LifeCoversFall, Registered, At
<1>8. SessionsKnowThePassword'
  BY <1>3 DEF SessionsKnowThePassword, Exists, TypeOK, Session
<1>9. StoredNotSpent' /\ ResetOnce'
  BY <1>1, <1>2 DEF StoredNotSpent, ResetOnce, Registered, At
<1> QED BY <1>4, <1>5, <1>6, <1>7, <1>8, <1>9

LEMMA ChangePasswordKeeps ==
  ASSUME SessionsInv, NEW r \in Requests, ChangePassword(r)
  PROVE  SessionsInv'
<1>1. PICK u \in Users : u = req[r].user /\ Registered(u) /\ account[u] \in Account
  BY BusyRequest, RegisteredAccount DEF ChangePassword, At, SessionsInv, KnownAccounts
<1> DEFINE new == [account[u] EXCEPT !.password = chosen']
<1>2. /\ chosen < MaxPassword /\ chosen' = chosen + 1 /\ Finish(r)
      /\ account' = [account EXCEPT ![u] = new]
      /\ session' = SessionsWithout(u) /\ UNCHANGED <<issued, gone, fallen>>
  BY <1>1 DEF ChangePassword
<1>3. /\ new \in Account /\ new.role = account[u].role
      /\ new.reset = account[u].reset /\ new.spent = account[u].spent
  BY <1>1, <1>2, MaxPasswordAssumption DEF Account, SessionsInv, TypeOK
<1>4. /\ account' \in [Users -> Account \union {NoAccount}]
      /\ account'[u] = new
      /\ \A x \in Users \ {u} : account'[x] = account[x]
  BY <1>2, <1>3 DEF SessionsInv, TypeOK
<1>5. new.reset => ~new.spent
  BY <1>1, <1>3 DEF SessionsInv, StoredNotSpent
<1> QED BY <1>1, <1>2, <1>3, <1>4, <1>5, PasswordKeeps

LEMMA ResetPasswordKeeps ==
  ASSUME SessionsInv, NEW r \in Requests, ResetPassword(r)
  PROVE  SessionsInv'
<1>1. PICK u \in Users : u = req[r].user /\ Registered(u) /\ account[u] \in Account
  BY BusyRequest, RegisteredAccount DEF ResetPassword, At, SessionsInv, KnownAccounts
<1> DEFINE new == [account[u] EXCEPT !.password = chosen', !.reset = FALSE, !.spent = TRUE]
<1>2. /\ chosen < MaxPassword /\ chosen' = chosen + 1 /\ Finish(r)
      /\ account' = [account EXCEPT ![u] = new]
      /\ session' = SessionsWithout(u) /\ UNCHANGED <<issued, gone, fallen>>
  BY <1>1 DEF ResetPassword
<1>3. new \in Account /\ new.role = account[u].role /\ ~new.reset
  <2>1. chosen' \in 1..MaxPassword
    BY <1>2, MaxPasswordAssumption DEF SessionsInv, TypeOK
  <2> QED BY <1>1, <2>1 DEF Account
<1>4. /\ account' \in [Users -> Account \union {NoAccount}]
      /\ account'[u] = new
      /\ \A x \in Users \ {u} : account'[x] = account[x]
  BY <1>2, <1>3 DEF SessionsInv, TypeOK
<1> QED BY <1>1, <1>2, <1>3, <1>4, PasswordKeeps

LEMMA SendResetKeeps ==
  ASSUME SessionsInv, NEW r \in Requests, SendReset(r)
  PROVE  SessionsInv'
<1> USE DEF SessionsInv
<1>1. PICK u \in Users : u = req[r].user /\ Registered(u) /\ account[u] \in Account
  BY BusyRequest, RegisteredAccount DEF SendReset, At, KnownAccounts
<1> DEFINE new == [account[u] EXCEPT !.reset = TRUE, !.spent = FALSE]
<1>2. /\ Finish(r) /\ account' = [account EXCEPT ![u] = new]
      /\ UNCHANGED <<session, issued, chosen, gone, fallen>>
  BY <1>1 DEF SendReset
<1>3. /\ new \in Account /\ new.role = account[u].role /\ ~new.spent
      /\ new.password = account[u].password
  BY <1>1 DEF Account
<1>4. /\ account' \in [Users -> Account \union {NoAccount}]
      /\ account'[u] = new
      /\ \A x \in Users \ {u} : account'[x] = account[x]
  BY <1>2, <1>3 DEF TypeOK
<1>5. /\ req' \in [Requests -> Request \union {Idle}]
      /\ \A q \in Requests : Busy(q)' => req'[q] = req[q] /\ Busy(q)
  BY <1>2, Finished
<1>6. \A x \in Users : /\ account'[x] # NoAccount <=> account[x] # NoAccount
                       /\ account'[x].password = account[x].password
                       /\ account'[x].role = account[x].role
  <2>1. account'[u] # NoAccount /\ account[u] # NoAccount
    BY <1>1, <1>3, <1>4 DEF Account, NoAccount
  <2> QED BY <1>3, <1>4, <2>1
<1>7. TypeOK'
  BY <1>2, <1>4, <1>5 DEF TypeOK
<1>8. KnownAccounts' /\ PresentNotGone' /\ LifeCoversAbsence'
  BY <1>2, <1>5, <1>6
     DEF KnownAccounts, PresentNotGone, LifeCoversAbsence, Exists, Registered, At, TypeOK,
         Session, Request, Token, Busy
<1>9. AdminsNotFallen' /\ LifeCoversFall'
  BY <1>2, <1>5, <1>6 DEF AdminsNotFallen, LifeCoversFall, Registered, At
<1>10. SessionsKnowThePassword'
  BY <1>2, <1>6 DEF SessionsKnowThePassword, Exists, TypeOK, Session
<1>11. StoredNotSpent' /\ ResetOnce'
  BY <1>3, <1>4, <1>5, <1>6 DEF StoredNotSpent, ResetOnce, Registered, At
<1> QED BY <1>7, <1>8, <1>9, <1>10, <1>11

LEMMA SetRoleKeeps ==
  ASSUME SessionsInv, NEW r \in Requests, SetRole(r)
  PROVE  SessionsInv'
<1> USE TTLAssumption DEF SessionsInv
<1>1. PICK u \in Users :
        u = req[r].target /\ Registered(u) /\ account[u] \in Account /\ req[r].role \in Roles
  BY BusyRequest, RegisteredAccount DEF SetRole, At, KnownAccounts
<1> DEFINE new == [account[u] EXCEPT !.role = req[r].role]
<1>2. /\ Finish(r) /\ account' = [account EXCEPT ![u] = new]
      /\ UNCHANGED <<session, issued, chosen, gone>>
      /\ fallen' = IF "admin" \in {req[r].role, account[u].role}
                   THEN [fallen EXCEPT ![u] = 0] ELSE fallen
  BY <1>1 DEF SetRole
<1>3. /\ new \in Account /\ new.role = req[r].role /\ new.password = account[u].password
      /\ new.reset = account[u].reset /\ new.spent = account[u].spent
  BY <1>1 DEF Account
<1>4. /\ account' \in [Users -> Account \union {NoAccount}]
      /\ account'[u] = new
      /\ \A x \in Users \ {u} : account'[x] = account[x]
  BY <1>2, <1>3 DEF TypeOK
<1>5. /\ req' \in [Requests -> Request \union {Idle}]
      /\ \A q \in Requests : Busy(q)' => req'[q] = req[q] /\ Busy(q)
  BY <1>2, Finished
<1>6. \A x \in Users : /\ account'[x] # NoAccount <=> account[x] # NoAccount
                       /\ account'[x].password = account[x].password
                       /\ account'[x].reset = account[x].reset
                       /\ account'[x].spent = account[x].spent
  BY <1>1, <1>3, <1>4 DEF Registered, Account, NoAccount
<1>7. /\ fallen' \in [Users -> 0..Long]
      /\ \A x \in Users : fallen'[x] = 0 \/ fallen'[x] = fallen[x]
      /\ \A x \in Users : account'[x] # NoAccount /\ account'[x].role = "admin"
                          => fallen'[x] = 0
  BY <1>2, <1>3, <1>4, <1>6 DEF TypeOK, Long, AdminsNotFallen, Registered
<1>8. TypeOK'
  BY <1>2, <1>4, <1>5, <1>7 DEF TypeOK
<1>9. KnownAccounts' /\ PresentNotGone' /\ LifeCoversAbsence'
  BY <1>2, <1>5, <1>6
     DEF KnownAccounts, PresentNotGone, LifeCoversAbsence, Exists, Registered, At, TypeOK,
         Session, Request, Token, Busy
<1>10. AdminsNotFallen'
  BY <1>5, <1>7, BusyRequest DEF AdminsNotFallen, Registered, At
<1>11. LifeCoversFall'
  <2>1. \A t \in issued : t.role = "admin" => t.life + fallen'[t.user] <= TTL
    <3> SUFFICES ASSUME NEW t \in issued, t.role = "admin"
                 PROVE  t.life + fallen'[t.user] <= TTL
      OBVIOUS
    <3>1. t.user \in Users /\ t.life \in 1..TTL /\ t.life + fallen[t.user] <= TTL
      BY DEF TypeOK, Token, LifeCoversFall
    <3> QED BY <1>7, <3>1
  <2>2. \A q \in Requests : At(q, "setRole")' => fallen'[req'[q].user] < TTL
    BY <1>5, <1>7, BusyRequest DEF LifeCoversFall, At
  <2> QED BY <1>2, <2>1, <2>2 DEF LifeCoversFall
<1>12. SessionsKnowThePassword'
  BY <1>2, <1>6 DEF SessionsKnowThePassword, Exists, TypeOK, Session
<1>13. StoredNotSpent' /\ ResetOnce'
  BY <1>5, <1>6 DEF StoredNotSpent, ResetOnce, Registered, At
<1> QED BY <1>8, <1>9, <1>10, <1>11, <1>12, <1>13

----------------------------------------------------------------------------
(* The theorems *)

LEMMA InvStep == SessionsInv /\ [Next]_vars => SessionsInv'
<1> SUFFICES ASSUME SessionsInv, [Next]_vars PROVE SessionsInv'
  OBVIOUS
<1>1. CASE Tick
  BY <1>1, TickKeeps
<1>2. ASSUME NEW r \in Requests, Start(r) PROVE SessionsInv'
  BY <1>2, StartKeeps
<1>3. ASSUME NEW r \in Requests, Handle(r) PROVE SessionsInv'
  BY <1>3, CreateAccountKeeps, CreateSessionKeeps, RefreshKeeps, RevokeKeeps,
     ChangePasswordKeeps, SendResetKeeps, ResetPasswordKeeps, SetRoleKeeps, AbortKeeps
     DEF Handle
<1>4. CASE UNCHANGED vars
  BY <1>4 DEF vars, SessionsInv, TypeOK, KnownAccounts, PresentNotGone, LifeCoversAbsence,
     AdminsNotFallen, LifeCoversFall, SessionsKnowThePassword, StoredNotSpent, ResetOnce,
     Exists, Registered, Busy, At
<1> QED BY <1>1, <1>2, <1>3, <1>4 DEF Next

\* SessionsInv is an invariant of the specification.
THEOREM InvHolds == Spec => []SessionsInv
BY InvInit, InvStep, PTL DEF Spec

\* The type invariant.
THEOREM TypeCorrect == Spec => []TypeOK
<1>1. SessionsInv => TypeOK
  BY DEF SessionsInv
<1> QED BY <1>1, InvHolds, PTL

\* A token that is still accepted is of a session whose row was there no longer ago than a
\* token lives: the guard that does not look sessions up (jwt.strategy.ts) and a refresh
\* that signs after its row has been deleted cost that much and no more.
THEOREM RevocationIsBounded == Spec => []RevocationTakesEffect
<1>1. SessionsInv => RevocationTakesEffect
  <2> SUFFICES ASSUME SessionsInv, NEW t \in issued PROVE gone[t.sid] < TTL
    BY DEF RevocationTakesEffect
  <2>1. /\ t.life \in 1..TTL /\ gone[t.sid] \in 0..Long
        /\ t.life + gone[t.sid] <= TTL
    BY DEF SessionsInv, TypeOK, Token, LifeCoversAbsence
  <2> QED BY <2>1, TTLAssumption DEF Long
<1> QED BY <1>1, InvHolds, PTL

\* No session outlives the password it was opened with, unless the password was changed
\* while its login was under way.
THEOREM SessionsEndWithPassword == Spec => []SessionsKnowThePassword
<1>1. SessionsInv => SessionsKnowThePassword
  BY DEF SessionsInv
<1> QED BY <1>1, InvHolds, PTL

\* No request to reset a password gets past the check of its token once that token has set a
\* password.
THEOREM ResetTokenUsedOnce == Spec => []ResetOnce
<1>1. SessionsInv => ResetOnce
  BY DEF SessionsInv
<1> QED BY <1>1, InvHolds, PTL

\* A platform role is changed only by who was an administrator within a token's lifetime.
THEOREM RolesChangedByAdmins == Spec => RolesByAdmins
<1>1. SessionsInv /\ [Next]_vars =>
        [\A r \in Requests : At(r, "setRole") /\ account' # account /\ req'[r] = Idle
           => fallen[req[r].user] < TTL]_vars
  BY DEF SessionsInv, LifeCoversFall
<1> QED BY <1>1, InvHolds, PTL DEF Spec, RolesByAdmins
=============================================================================
