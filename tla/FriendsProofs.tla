---------------------------- MODULE FriendsProofs ----------------------------
(***************************************************************************)
(* Theorems about Friends for every set of accounts, of rows and of        *)
(* concurrent requests.                                                    *)
(***************************************************************************)
EXTENDS Friends, TLAPS

\* What the inductive invariant says of one request, and of one row.
RequestOK(x) ==
  /\ AboutRow(x) => req[x].id \in Ids
  /\ MakesFriends(x) /\ Exists(req[x].id) => req[x].peer \in asked[req[x].id]
  /\ (MakesFriends(x) \/ At(x, "renew")) /\ Exists(req[x].id) =>
       Between(req[x].id, req[x].me, req[x].peer)
  /\ At(x, "confirm") /\ req[x].op = "accept" /\ Exists(req[x].id) =>
       ~pairHasAnyBan(req[x].me, req[x].peer)

RowOK(id) ==
  Exists(id) =>
    /\ row[id].from \in asked[id]
    /\ row[id].status = "accepted" => {row[id].from, row[id].to} \subseteq asked[id]

FriendsInv ==
  /\ TypeOK
  /\ \A x \in Requests : RequestOK(x)
  /\ \A id \in Ids : RowOK(id)

\* It is the conjunction of the invariants that Friends names.
LEMMA FriendsInvParts ==
  FriendsInv <=> /\ TypeOK /\ RowsHeld /\ PeersAsked /\ PairsHeld
                 /\ RequestersAsked /\ BothAsked /\ AcceptAheadOfBan
BY DEF FriendsInv, RequestOK, RowOK, RowsHeld, PeersAsked, PairsHeld,
       RequestersAsked, BothAsked, AcceptAheadOfBan

----------------------------------------------------------------------------
(* Type correctness *)

LEMMA TypeInit == Init => TypeOK
BY DEF Init, TypeOK

LEMMA FinishType ==
  ASSUME TypeOK, NEW r \in Requests, Finish(r)
  PROVE  req' \in [Requests -> Request \union {Idle}]
BY DEF TypeOK, Finish

LEMMA RequestAtStage ==
  ASSUME TypeOK, NEW r \in Requests, NEW s \in Stages, At(r, s)
  PROVE  /\ Busy(r)
         /\ req[r] \in Request
         /\ req[r].op \in Ops
         /\ req[r].me \in Users
         /\ req[r].peer \in Users
<1>1. req[r] # Idle
  BY DEF At, Idle, Stages
<1>2. req[r] \in Request
  BY <1>1 DEF TypeOK
<1> QED BY <1>1, <1>2 DEF Busy, Request

LEMMA ProceedType ==
  ASSUME TypeOK, NEW r \in Requests, Busy(r), NEW s \in Stages, Proceed(r, s)
  PROVE  req' \in [Requests -> Request \union {Idle}]
<1>1. req[r] \in Request
  BY DEF TypeOK, Busy
<1>2. [req[r] EXCEPT !.stage = s] \in Request
  BY <1>1 DEF Request
<1> QED BY <1>2 DEF TypeOK, Proceed

LEMMA ProceedOnType ==
  ASSUME TypeOK, NEW r \in Requests, Busy(r), NEW s \in Stages, NEW id \in Ids,
         ProceedOn(r, s, id)
  PROVE  req' \in [Requests -> Request \union {Idle}]
<1>1. req[r] \in Request
  BY DEF TypeOK, Busy
<1>2. [req[r] EXCEPT !.stage = s, !.id = id] \in Request
  BY <1>1 DEF Request
<1> QED BY <1>2 DEF TypeOK, ProceedOn

LEMMA AfterFindStage ==
  ASSUME NEW r \in Requests, NEW id \in Ids, AfterFind(r, id) # "refuse"
  PROVE  AfterFind(r, id) \in {"delete", "renew", "confirm"}
BY DEF AfterFind

LEMMA TypeStep == TypeOK /\ RowsHeld /\ [Next]_vars => TypeOK'
<1> SUFFICES ASSUME TypeOK, RowsHeld, [Next]_vars PROVE TypeOK'
  OBVIOUS
<1> USE DEF tables
<1>1. ASSUME NEW r \in Requests, ReadBans(r) PROVE TypeOK'
  <2>1. Busy(r) /\ "confirm" \in Stages /\ "find" \in Stages
    BY <1>1, RequestAtStage DEF ReadBans, Stages
  <2> QED BY <1>1, <2>1, FinishType, ProceedType DEF ReadBans, TypeOK
<1>2. ASSUME NEW r \in Requests, Find(r) PROVE TypeOK'
  <2>1. Busy(r) /\ "create" \in Stages
    BY <1>2, RequestAtStage DEF Find, Stages
  <2>2. ASSUME NEW id \in Ids, AfterFind(r, id) # "refuse"
        PROVE  AfterFind(r, id) \in Stages
    BY <2>2, AfterFindStage DEF Stages
  <2>3. req' \in [Requests -> Request \union {Idle}]
    BY <1>2, <2>1, <2>2, FinishType, ProceedType, ProceedOnType DEF Find, PairRows
  <2> QED BY <1>2, <2>3 DEF Find, TypeOK
<1>3. ASSUME NEW r \in Requests, Create(r) PROVE TypeOK'
  <2>1. req[r].me \in Users /\ req[r].peer \in Users
    BY <1>3, RequestAtStage DEF Create, Stages
  <2> QED BY <1>3, <2>1, FinishType DEF Create, TypeOK, Row, Status
<1>4. ASSUME NEW r \in Requests, Confirm(r) PROVE TypeOK'
  <2>1. req[r].me \in Users
    BY <1>4, RequestAtStage DEF Confirm, Stages
  <2>2. row' \in [Ids -> Row \union {NoRow}]
    BY <1>4 DEF Confirm, TypeOK, Row, Status, Exists
  <2>3. asked' \in [Ids -> SUBSET Users]
    BY <1>4, <2>1 DEF Confirm, TypeOK
  <2> QED BY <1>4, <2>2, <2>3, FinishType DEF Confirm, TypeOK
<1>5. ASSUME NEW r \in Requests, Renew(r) PROVE TypeOK'
  <2>1. req[r].me \in Users /\ req[r].peer \in Users
    BY <1>5, RequestAtStage DEF Renew, Stages
  <2>2. row' \in [Ids -> Row \union {NoRow}]
    BY <1>5, <2>1 DEF Renew, TypeOK, Row, Status
  <2>3. asked' \in [Ids -> SUBSET Users]
    BY <1>5, <2>1 DEF Renew, TypeOK
  <2> QED BY <1>5, <2>2, <2>3, FinishType DEF Renew, TypeOK
<1>6. ASSUME NEW r \in Requests, ReadRow(r) PROVE TypeOK'
  <2>1. Busy(r) /\ req[r] \in Request /\ req[r].me \in Users
    BY <1>6, RequestAtStage DEF ReadRow, Stages
  <2> DEFINE id == req[r].id
             them == IF req[r].op = "cancel" THEN row[id].to ELSE row[id].from
  <2>2. CASE ~Answerable(req[r].op, req[r].me, id)
    BY <1>6, <2>2, FinishType DEF ReadRow, TypeOK
  <2>3. CASE Answerable(req[r].op, req[r].me, id)
    <3>1. AfterRead(req[r].op) \in Stages
      BY DEF AfterRead, Stages
    <3>2. req' = [req EXCEPT ![r].stage = AfterRead(req[r].op), ![r].peer = them]
      BY <1>6, <2>3 DEF ReadRow
    <3>3. id \in Ids
      BY <1>6, <2>1 DEF RowsHeld, AboutRow, ReadRow, At
    <3>4. them \in Users
      BY <2>3, <3>3 DEF Answerable, Exists, TypeOK, Row
    <3>5. [req[r] EXCEPT !.stage = AfterRead(req[r].op), !.peer = them] \in Request
      BY <2>1, <3>1, <3>4 DEF Request
    <3> QED BY <1>6, <3>2, <3>5 DEF ReadRow, TypeOK
  <2> QED BY <2>2, <2>3
<1>7. ASSUME NEW r \in Requests, Decline(r) PROVE TypeOK'
  BY <1>7, FinishType DEF Decline, TypeOK, Row, Status, Exists
<1>8. ASSUME NEW r \in Requests, Delete(r) PROVE TypeOK'
  BY <1>8, FinishType DEF Delete, TypeOK
<1>9. ASSUME NEW r \in Requests, Ban(r) PROVE TypeOK'
  <2>1. req[r].me \in Users /\ req[r].peer \in Users
    BY <1>9, RequestAtStage DEF Ban, Stages
  <2> QED BY <1>9, <2>1, FinishType DEF Ban, TypeOK
<1>10. ASSUME NEW r \in Requests, Unban(r) PROVE TypeOK'
  BY <1>10, FinishType DEF Unban, TypeOK
<1>11. ASSUME NEW r \in Requests, Abort(r) PROVE TypeOK'
  BY <1>11, FinishType DEF Abort, TypeOK
<1>12. ASSUME NEW r \in Requests, NEW op \in Ops, NEW me \in Users, NEW peer \in Users,
              Start(r, op, me, peer)
       PROVE  TypeOK'
  BY <1>12 DEF Start, TypeOK, Request, FirstStage, Stages, Ops, ByRowId
<1>13. ASSUME NEW r \in Requests, NEW op \in Ops, NEW me \in Users, NEW id \in Ids,
              StartById(r, op, me, id)
       PROVE  TypeOK'
  BY <1>13 DEF StartById, TypeOK, Request, FirstStage, Stages, ByRowId
<1>14. CASE UNCHANGED vars
  BY <1>14 DEF vars, TypeOK
<1> QED
  BY <1>1, <1>2, <1>3, <1>4, <1>5, <1>6, <1>7, <1>8, <1>9, <1>10, <1>11, <1>12,
     <1>13, <1>14
     DEF Next, Step

----------------------------------------------------------------------------
(* The inductive step *)

\* A row that another request may have read either goes for good or stays a row of
\* the same two accounts, of whom no fewer have asked.
RowKept(id) ==
  Exists(id)' =>
    /\ Exists(id)
    /\ {row'[id].from, row'[id].to} = {row[id].from, row[id].to}
    /\ asked[id] \subseteq asked'[id]

LEMMA OthersKept ==
  ASSUME NEW x \in Requests, RequestOK(x), req'[x] = req[x],
         AboutRow(x) => RowKept(req[x].id),
         banned' \subseteq banned
  PROVE  RequestOK(x)'
<1>1. AboutRow(x)' <=> AboutRow(x)
  BY DEF AboutRow, Busy
<1>2. CASE AboutRow(x)
  BY <1>1, <1>2 DEF RequestOK, RowKept, MakesFriends, At, Between, pairHasAnyBan, Exists
<1>3. CASE ~AboutRow(x)
  BY <1>1, <1>3 DEF RequestOK, AboutRow, Busy, MakesFriends, At, Idle
<1> QED BY <1>2, <1>3

\* A finished request is about nothing.
LEMMA IdleOK ==
  ASSUME NEW x \in Requests, req'[x] = Idle
  PROVE  RequestOK(x)'
BY DEF RequestOK, AboutRow, Busy, MakesFriends, At, Idle

LEMMA FinishOthers ==
  ASSUME TypeOK, NEW r \in Requests, Finish(r)
  PROVE  /\ req'[r] = Idle
         /\ \A x \in Requests \ {r} : req'[x] = req[x]
BY DEF TypeOK, Finish

LEMMA FriendsInvInit == Init => FriendsInv
BY TypeInit
   DEF Init, FriendsInv, RequestOK, RowOK, AboutRow, Busy, MakesFriends, At, Idle, Exists

\* A step that finishes r, keeps what the others have read and adds no ban.
LEMMA FinishKeeps ==
  ASSUME FriendsInv, NEW r \in Requests, Finish(r), banned' \subseteq banned,
         \A x \in Requests : AboutRow(x) => RowKept(req[x].id)
  PROVE  \A x \in Requests : RequestOK(x)'
BY FinishOthers, IdleOK, OthersKept DEF FriendsInv

\* ... in particular when it writes no row.
LEMMA RowsUnchangedKeep ==
  ASSUME FriendsInv, NEW r \in Requests, Finish(r), banned' \subseteq banned,
         UNCHANGED <<row, asked>>
  PROVE  /\ \A x \in Requests : RequestOK(x)'
         /\ \A id \in Ids : RowOK(id)'
<1>1. ASSUME NEW id PROVE RowKept(id)
  BY DEF RowKept, Exists
<1>2. \A x \in Requests : RequestOK(x)'
  BY <1>1, FinishKeeps
<1>3. \A id \in Ids : RowOK(id)'
  BY DEF FriendsInv, RowOK, Exists
<1> QED BY <1>2, <1>3

\* A step that only moves r on.
LEMMA TablesKeep ==
  ASSUME FriendsInv, NEW r \in Requests, UNCHANGED tables,
         \A x \in Requests \ {r} : req'[x] = req[x],
         RequestOK(r)'
  PROVE  /\ \A x \in Requests : RequestOK(x)'
         /\ \A id \in Ids : RowOK(id)'
<1>1. \A x \in Requests \ {r} : RequestOK(x)'
  BY OthersKept DEF FriendsInv, RowKept, Exists, tables
<1>2. \A id \in Ids : RowOK(id)'
  BY DEF FriendsInv, RowOK, Exists, tables
<1> QED BY <1>1, <1>2

LEMMA FriendsInvStep == FriendsInv /\ [Next]_vars => FriendsInv'
<1> SUFFICES ASSUME FriendsInv, [Next]_vars PROVE FriendsInv'
  OBVIOUS
<1>t. TypeOK /\ TypeOK'
  BY TypeStep, FriendsInvParts DEF FriendsInv
<1>f. \A x \in Requests : RequestOK(x)
  BY DEF FriendsInv
<1>o. \A id \in Ids : RowOK(id)
  BY DEF FriendsInv
<1> DEFINE Kept == /\ \A x \in Requests : RequestOK(x)'
                   /\ \A id \in Ids : RowOK(id)'
<1> SUFFICES Kept
  BY <1>t DEF FriendsInv
<1>1. ASSUME NEW r \in Requests, ReadBans(r) PROVE Kept
  <2>1. CASE pairHasAnyBan(req[r].me, req[r].peer)
    BY <1>1, <1>t, <2>1, FinishOthers, IdleOK, TablesKeep DEF ReadBans
  <2>2. CASE ~pairHasAnyBan(req[r].me, req[r].peer)
    <3>1. /\ req'[r].op = req[r].op /\ req'[r].me = req[r].me
          /\ req'[r].peer = req[r].peer /\ req'[r].id = req[r].id
          /\ req'[r].stage = (IF req[r].op = "accept" THEN "confirm" ELSE "find")
          /\ \A x \in Requests \ {r} : req'[x] = req[x]
      BY <1>1, <1>t, <2>2, RequestAtStage DEF ReadBans, Proceed, Stages, TypeOK, Request
    <3>2. RequestOK(r)'
      <4>1. CASE req[r].op = "accept"
        <5>1. MakesFriends(r) /\ AboutRow(r)
          BY <1>1, <1>t, <4>1, RequestAtStage
             DEF ReadBans, MakesFriends, AboutRow, At, Stages
        <5> QED BY <1>1, <1>f, <2>2, <3>1, <4>1, <5>1
               DEF RequestOK, ReadBans, MakesFriends, At, Between, pairHasAnyBan,
                   Exists, tables
      <4>2. CASE req[r].op # "accept"
        BY <3>1, <4>2 DEF RequestOK, AboutRow, MakesFriends, At
      <4> QED BY <4>1, <4>2
    <3> QED BY <1>1, <3>1, <3>2, TablesKeep DEF ReadBans
  <2> QED BY <2>1, <2>2
<1>2. ASSUME NEW r \in Requests, Find(r) PROVE Kept
  <2>1. CASE Finish(r)
    BY <1>2, <1>t, <2>1, FinishOthers, IdleOK, TablesKeep DEF Find
  <2>2. CASE Proceed(r, "create")
    <3>1. /\ req'[r].stage = "create"
          /\ \A x \in Requests \ {r} : req'[x] = req[x]
      BY <1>2, <1>t, <2>2, RequestAtStage DEF Find, Proceed, Stages, TypeOK, Request
    <3>2. RequestOK(r)'
      BY <3>1 DEF RequestOK, AboutRow, MakesFriends, At
    <3> QED BY <1>2, <3>1, <3>2, TablesKeep DEF Find
  <2>3. ASSUME NEW id \in PairRows(req[r].me, req[r].peer),
               AfterFind(r, id) # "refuse", ProceedOn(r, AfterFind(r, id), id)
        PROVE  Kept
    <3>1. /\ req'[r].op = req[r].op /\ req'[r].me = req[r].me
          /\ req'[r].peer = req[r].peer /\ req'[r].id = id
          /\ req'[r].stage = AfterFind(r, id)
          /\ \A x \in Requests \ {r} : req'[x] = req[x]
      BY <1>2, <1>t, <2>3, RequestAtStage DEF Find, ProceedOn, Stages, TypeOK, Request
    <3>2. id \in Ids /\ Between(id, req[r].me, req[r].peer)
      BY <2>3 DEF PairRows
    <3>3. AfterFind(r, id) \in {"delete", "renew", "confirm"}
      BY <2>3, <3>2, AfterFindStage
    <3>4. AfterFind(r, id) = "confirm" => req[r].op = "send" /\ row[id].from # req[r].me
      BY DEF AfterFind
    <3>5. AfterFind(r, id) = "confirm" => req[r].peer \in asked[id]
      BY <1>o, <3>2, <3>4 DEF RowOK, Between
    <3>6. RequestOK(r)'
      BY <1>2, <3>1, <3>2, <3>3, <3>4, <3>5
         DEF Find, RequestOK, AboutRow, MakesFriends, At, Between, Exists, tables
    <3> QED BY <1>2, <3>1, <3>6, TablesKeep DEF Find
  <2> QED BY <1>2, <2>1, <2>2, <2>3 DEF Find
<1>3. ASSUME NEW r \in Requests, Create(r) PROVE Kept
  <2>1. CASE Directed(req[r].me, req[r].peer) # {}
    BY <1>3, <2>1, RowsUnchangedKeep DEF Create
  <2>2. CASE Directed(req[r].me, req[r].peer) = {}
    <3>1. PICK id \in Ids :
            /\ Fresh(id)
            /\ row' = [row EXCEPT ![id] = [from |-> req[r].me, to |-> req[r].peer,
                                           status |-> "pending"]]
            /\ asked' = [asked EXCEPT ![id] = {req[r].me}]
      BY <1>3, <2>2 DEF Create
    <3>a. \A i \in Ids : i # id => row'[i] = row[i] /\ asked'[i] = asked[i]
      BY <1>t, <3>1 DEF TypeOK
    <3>b. \A i \in Ids : i # id => RowKept(i)
      BY <3>a DEF RowKept, Exists
    <3>2. \A x \in Requests : AboutRow(x) => RowKept(req[x].id)
      BY <1>f, <3>1, <3>b DEF RequestOK, Fresh, AboutRow
    <3>3. \A i \in Ids : RowOK(i)'
      BY <1>t, <1>o, <3>1 DEF RowOK, Exists, TypeOK
    <3> QED BY <1>3, <3>2, <3>3, FinishKeeps DEF Create
  <2> QED BY <2>1, <2>2
<1>4. ASSUME NEW r \in Requests, Confirm(r) PROVE Kept
  <2>1. CASE ~Exists(req[r].id)
    BY <1>4, <2>1, RowsUnchangedKeep DEF Confirm
  <2>2. CASE Exists(req[r].id)
    <3> DEFINE id == req[r].id
    <3>1. MakesFriends(r) /\ AboutRow(r)
      BY <1>4, <1>t, RequestAtStage DEF Confirm, MakesFriends, AboutRow, At, Stages
    <3>2. /\ id \in Ids
          /\ {row[id].from, row[id].to} = {req[r].me, req[r].peer}
          /\ req[r].peer \in asked[id]
      BY <1>f, <2>2, <3>1 DEF RequestOK, Between
    <3>3. /\ row' = [row EXCEPT ![id].status = "accepted"]
          /\ asked' = [asked EXCEPT ![id] = @ \union {req[r].me}]
      BY <1>4, <2>2 DEF Confirm
    <3>4. row[id] \in Row
      BY <1>t, <2>2, <3>2 DEF TypeOK, Exists
    <3>5. row'[id].from = row[id].from /\ row'[id].to = row[id].to
      BY <1>t, <3>2, <3>3, <3>4 DEF TypeOK, Row
    <3>6. \A i \in Ids : i # id => row'[i] = row[i] /\ asked'[i] = asked[i]
      BY <1>t, <3>3 DEF TypeOK
    <3>7. asked'[id] = asked[id] \union {req[r].me}
      BY <1>t, <3>2, <3>3 DEF TypeOK
    <3>8. \A i \in Ids : RowKept(i)
      BY <2>2, <3>5, <3>6, <3>7 DEF RowKept, Exists
    <3>9. \A x \in Requests : AboutRow(x) => RowKept(req[x].id)
      BY <1>f, <3>8 DEF RequestOK
    <3>10. \A i \in Ids : RowOK(i)'
      BY <1>o, <2>2, <3>2, <3>5, <3>6, <3>7 DEF RowOK, Exists
    <3> QED BY <1>4, <3>9, <3>10, FinishKeeps DEF Confirm
  <2> QED BY <2>1, <2>2
<1>5. ASSUME NEW r \in Requests, Renew(r) PROVE Kept
  <2> DEFINE id == req[r].id
  <2>1. CASE ~(Exists(id) /\ Directed(req[r].me, req[r].peer) \subseteq {id})
    BY <1>5, <2>1, RowsUnchangedKeep DEF Renew
  <2>2. CASE Exists(id) /\ Directed(req[r].me, req[r].peer) \subseteq {id}
    <3>1. AboutRow(r)
      BY <1>5, <1>t, RequestAtStage DEF Renew, AboutRow, At, Stages
    <3>2. id \in Ids /\ {row[id].from, row[id].to} = {req[r].me, req[r].peer}
      BY <1>5, <1>f, <2>2, <3>1 DEF RequestOK, Between, Renew
    <3>3. /\ row' = [row EXCEPT ![id] = [from |-> req[r].me, to |-> req[r].peer,
                                         status |-> "pending"]]
          /\ asked' = [asked EXCEPT ![id] = @ \union {req[r].me}]
      BY <1>5, <2>2 DEF Renew
    <3>4. \A i \in Ids : i # id => row'[i] = row[i] /\ asked'[i] = asked[i]
      BY <1>t, <3>3 DEF TypeOK
    <3>5. /\ asked'[id] = asked[id] \union {req[r].me}
          /\ row'[id].from = req[r].me /\ row'[id].to = req[r].peer
          /\ row'[id].status = "pending"
      BY <1>t, <3>2, <3>3 DEF TypeOK
    <3>6. \A i \in Ids : RowKept(i)
      BY <2>2, <3>2, <3>4, <3>5 DEF RowKept, Exists
    <3>7. \A x \in Requests : AboutRow(x) => RowKept(req[x].id)
      BY <1>f, <3>6 DEF RequestOK
    <3>8. \A i \in Ids : RowOK(i)'
      BY <1>o, <3>4, <3>5 DEF RowOK, Exists
    <3> QED BY <1>5, <3>7, <3>8, FinishKeeps DEF Renew
  <2> QED BY <2>1, <2>2
<1>6. ASSUME NEW r \in Requests, ReadRow(r) PROVE Kept
  <2> DEFINE id == req[r].id
             op == req[r].op
             me == req[r].me
  <2>1. CASE ~Answerable(op, me, id)
    BY <1>6, <1>t, <2>1, FinishOthers, IdleOK, TablesKeep DEF ReadRow
  <2>2. CASE Answerable(op, me, id)
    <3>1. AboutRow(r) /\ id \in Ids
      BY <1>6, <1>t, <1>f, RequestAtStage DEF ReadRow, AboutRow, At, Stages, RequestOK
    <3>2. /\ req'[r].op = op /\ req'[r].me = me /\ req'[r].id = id
          /\ req'[r].peer = IF op = "cancel" THEN row[id].to ELSE row[id].from
          /\ req'[r].stage = AfterRead(op)
          /\ \A x \in Requests \ {r} : req'[x] = req[x]
      BY <1>6, <1>t, <2>2, RequestAtStage DEF ReadRow, Stages, TypeOK, Request
    <3>3. op = "accept" => row[id].to = me /\ row[id].from \in asked[id]
      BY <1>o, <2>2, <3>1 DEF Answerable, RowOK
    <3>4. UNCHANGED tables
      BY <1>6 DEF ReadRow
    <3>5. CASE op = "accept"
      <4>1. req'[r].stage = "bans" /\ req'[r].peer = row[id].from
        BY <3>2, <3>5 DEF AfterRead
      <4> QED BY <3>1, <3>2, <3>3, <3>4, <3>5, <4>1, TablesKeep
             DEF RequestOK, MakesFriends, At, Between, Exists, tables
    <3>6. CASE op # "accept"
      <4>1. req'[r].stage \in {"decline", "delete"}
        BY <3>2, <3>6 DEF AfterRead
      <4> QED BY <3>1, <3>2, <3>4, <4>1, TablesKeep
             DEF RequestOK, MakesFriends, At
    <3> QED BY <3>5, <3>6
  <2> QED BY <2>1, <2>2
<1>7. ASSUME NEW r \in Requests, Decline(r) PROVE Kept
  <2>1. CASE ~Exists(req[r].id)
    BY <1>7, <2>1, RowsUnchangedKeep DEF Decline
  <2>2. CASE Exists(req[r].id)
    <3> DEFINE id == req[r].id
    <3>1. id \in Ids
      BY <1>7, <1>t, <1>f, RequestAtStage DEF Decline, AboutRow, At, Stages, RequestOK
    <3>2. row' = [row EXCEPT ![id].status = "declined"] /\ asked' = asked
      BY <1>7, <2>2 DEF Decline
    <3>3. row[id] \in Row
      BY <1>t, <2>2, <3>1 DEF TypeOK, Exists
    <3>4. /\ row'[id].from = row[id].from /\ row'[id].to = row[id].to
          /\ row'[id].status = "declined"
      BY <1>t, <3>1, <3>2, <3>3 DEF TypeOK, Row
    <3>5. \A i \in Ids : i # id => row'[i] = row[i]
      BY <1>t, <3>2 DEF TypeOK
    <3>6. \A i \in Ids : RowKept(i)
      BY <2>2, <3>2, <3>4, <3>5 DEF RowKept, Exists
    <3>7. \A x \in Requests : AboutRow(x) => RowKept(req[x].id)
      BY <1>f, <3>6 DEF RequestOK
    <3>8. \A i \in Ids : RowOK(i)'
      BY <1>o, <2>2, <3>2, <3>4, <3>5 DEF RowOK, Exists
    <3> QED BY <1>7, <3>7, <3>8, FinishKeeps DEF Decline
  <2> QED BY <2>1, <2>2
<1>8. ASSUME NEW r \in Requests, Delete(r) PROVE Kept
  <2>1. \A i \in Ids : \/ row'[i] = NoRow
                       \/ row'[i] = row[i] /\ asked'[i] = asked[i]
    BY <1>8, <1>t DEF Delete, TypeOK
  <2>a. \A i \in Ids : RowKept(i)
    BY <2>1 DEF RowKept, Exists
  <2>2. \A x \in Requests : AboutRow(x) => RowKept(req[x].id)
    BY <1>f, <2>a DEF RequestOK
  <2>3. \A i \in Ids : RowOK(i)'
    BY <1>o, <2>1 DEF RowOK, Exists
  <2> QED BY <1>8, <2>2, <2>3, FinishKeeps DEF Delete
<1>9. ASSUME NEW r \in Requests, Ban(r) PROVE Kept
  <2> DEFINE gone == PairRows(req[r].me, req[r].peer)
  <2>1. \A i \in Ids : \/ row'[i] = NoRow
                       \/ i \notin gone /\ row'[i] = row[i] /\ asked'[i] = asked[i]
    BY <1>9 DEF Ban
  <2>2. banned' = banned \union {<<req[r].me, req[r].peer>>}
    BY <1>9 DEF Ban
  <2>3. \A i \in Ids : RowOK(i)'
    BY <1>o, <2>1 DEF RowOK, Exists
  <2>4. ASSUME NEW x \in Requests \ {r} PROVE RequestOK(x)'
    <3>1. req'[x] = req[x]
      BY <1>9, <1>t, FinishOthers DEF Ban
    <3>2. AboutRow(x)' <=> AboutRow(x)
      BY <3>1 DEF AboutRow, Busy
    <3>3. CASE ~AboutRow(x)
      BY <3>1, <3>2, <3>3 DEF RequestOK, AboutRow, Busy, MakesFriends, At, Idle
    <3>4. CASE AboutRow(x)
      <4> DEFINE id == req[x].id
      <4>1. id \in Ids
        BY <1>f, <3>4 DEF RequestOK
      <4>2. CASE row'[id] = NoRow
        BY <3>1, <4>1, <4>2 DEF RequestOK, Exists
      <4>3. CASE id \notin gone /\ row'[id] = row[id] /\ asked'[id] = asked[id]
        <5>1. MakesFriends(x) /\ Exists(id) =>
                {req[x].me, req[x].peer} # {req[r].me, req[r].peer}
          BY <1>f, <4>1, <4>3 DEF RequestOK, PairRows, Between
        <5>2. MakesFriends(x) /\ Exists(id) =>
                (pairHasAnyBan(req[x].me, req[x].peer)' =>
                   pairHasAnyBan(req[x].me, req[x].peer))
          BY <2>2, <3>1, <5>1 DEF pairHasAnyBan
        <5> QED BY <1>f, <3>1, <4>1, <4>3, <5>2
               DEF RequestOK, MakesFriends, At, Between, Exists
      <4> QED BY <2>1, <4>1, <4>2, <4>3
    <3> QED BY <3>3, <3>4
  <2>5. RequestOK(r)'
    BY <1>9, <1>t, FinishOthers, IdleOK DEF Ban
  <2> QED BY <2>3, <2>4, <2>5
<1>10. ASSUME NEW r \in Requests, Unban(r) PROVE Kept
  BY <1>10, RowsUnchangedKeep DEF Unban
<1>11. ASSUME NEW r \in Requests, Abort(r) PROVE Kept
  BY <1>11, RowsUnchangedKeep DEF Abort, tables
<1>12. ASSUME NEW r \in Requests, NEW op \in Ops, NEW me \in Users, NEW peer \in Users,
              Start(r, op, me, peer)
       PROVE  Kept
  <2>1. /\ req'[r].op = op
        /\ req'[r].stage \in {"bans", "find", "ban", "unban"}
        /\ req'[r].stage = "bans" => op = "send"
        /\ \A x \in Requests \ {r} : req'[x] = req[x]
    BY <1>12, <1>t DEF Start, FirstStage, TypeOK, Ops, ByRowId
  <2>2. RequestOK(r)'
    BY <2>1 DEF RequestOK, AboutRow, MakesFriends, At
  <2> QED BY <1>12, <2>1, <2>2, TablesKeep DEF Start
<1>13. ASSUME NEW r \in Requests, NEW op \in Ops, NEW me \in Users, NEW id \in Ids,
              StartById(r, op, me, id)
       PROVE  Kept
  <2>1. /\ req'[r].stage = "read" /\ req'[r].id = id
        /\ \A x \in Requests \ {r} : req'[x] = req[x]
    BY <1>13, <1>t DEF StartById, FirstStage, TypeOK, ByRowId
  <2>2. RequestOK(r)'
    BY <2>1 DEF RequestOK, AboutRow, MakesFriends, At
  <2> QED BY <1>13, <2>1, <2>2, TablesKeep DEF StartById
<1>14. CASE UNCHANGED vars
  BY <1>14, <1>f, <1>o
     DEF vars, RequestOK, RowOK, AboutRow, Busy, MakesFriends, At, Between,
         pairHasAnyBan, Exists
<1> QED
  BY <1>1, <1>2, <1>3, <1>4, <1>5, <1>6, <1>7, <1>8, <1>9, <1>10, <1>11, <1>12,
     <1>13, <1>14
     DEF Next, Step

LEMMA FriendsInvariant == Spec => []FriendsInv
BY FriendsInvInit, FriendsInvStep, PTL DEF Spec

----------------------------------------------------------------------------
\* Every row, ban and request in flight has the shape the handlers rely on.
THEOREM TypeCorrect == Spec => []TypeOK
<1>1. FriendsInv => TypeOK
  BY DEF FriendsInv
<1> QED BY <1>1, FriendsInvariant, PTL

\* Whatever interleaving of requests made two accounts friends, both have asked.
THEOREM NobodyBefriendedUnasked == Spec => []BothAsked
<1>1. FriendsInv => BothAsked
  BY FriendsInvParts
<1> QED BY <1>1, FriendsInvariant, PTL

\* The accept of a request cannot overtake a ban: acceptRequest reads the row first,
\* and the ban deletes it.
THEOREM AcceptNeverOvertakesBan == Spec => []AcceptAheadOfBan
<1>1. FriendsInv => AcceptAheadOfBan
  BY FriendsInvParts
<1> QED BY <1>1, FriendsInvariant, PTL
=============================================================================
